------------------------------ MODULE Executor ------------------------------
(***************************************************************************)
(* One run of a handler (Actor::execute_handler and executor.rs): how the    *)
(* constructs of a program hand on what their steps return, and what the     *)
(* run's log and the debugger's report tell of it.                          *)
(*                                                                         *)
(* The program is chosen while it runs: where the code looks at the next     *)
(* step, or evaluates an expression, every outcome is possible.  The calls   *)
(* in progress of execute_steps are the frames of `stack`.                  *)
(***************************************************************************)
EXTENDS Integers, FiniteSets, SequencesExt

CONSTANTS
  Modes,        \* the execution modes: Fast, Probe, Debug
  LoopLimit,    \* iterations of a loop whose events are logged (10)
  LoopShare,    \* part of them an inner loop inherits as used up (4)
  MaxSteps,     \* bound: steps executed, in each mode
  MaxDepth,     \* bound: frames
  MaxDrops      \* bound: reports the debugger does not take in time

ASSUME ExecutorAssumption ==
  /\ Modes \subseteq {"Fast", "Probe", "Debug"}
  /\ LoopLimit \in Nat \ {0} /\ LoopShare \in Nat \ {0}
  /\ MaxSteps \in [Modes -> Nat] /\ MaxDepth \in Nat /\ MaxDrops \in Nat

VARIABLES
  mode,      \* ExecutionContext::mode
  status,    \* ExecutionLog::status, or that the run has not begun
  pc,        \* what the innermost execute_steps is at
  stack,     \* the bodies being executed, each with the step it belongs to
  contexts,  \* the ExecutionContexts: where the log of each begins, its loop_counts
  at,        \* the step being executed, or just executed
  result,    \* what it, or the body, has returned
  log,       \* the events of all contexts' logs, outermost first
  report,    \* what the debugger has received
  dropped,   \* how much it has not
  begun,     \* steps begun
  cut,       \* decorated calls that were left without LeaveFunction
  storage,   \* the last step that stored into the handler's own storage
  state,     \* the same of the storage whose `state` the actor keeps
  raised     \* the step that raised the pending error, and the stack then

vars == <<mode, status, pc, stack, contexts, at, result, log, report, dropped,
          begun, cut, storage, state, raised>>

running == <<mode, status, storage, state>>
logs == <<log, report, dropped>>

Kinds == {"handler", "block", "loop", "try", "catch", "call", "inner"}
Results == {"ok", "break", "continue", "return", "error"}
Steps == Nat   \* 0 for the handler itself
Frame(kind, step) == [kind |-> kind, step |-> step]
Frames == [kind : Kinds, step : Steps]
\* An event "noted" stands for StorageUpdated and for those about resources.
Event(type, step) == [type |-> type, step |-> step]
Events == [type : {"started", "finished", "error", "noted", "enter", "leave"},
           step : Steps]
Reports == Events \cup [type : {"start", "end"}, step : {0}]

\* How many of the frames up to the i-th are calls, each with its context.
Calls(i) == Cardinality({j \in 1..i : stack[j].kind \in {"call", "inner"}})

Nothing == [step |-> 0, stack |-> <<>>]

TypeOK ==
  /\ mode \in Modes
  /\ status \in {"waiting", "refused", "started", "finished", "failed"}
  /\ pc \in {"steps", "step", "iterate", "returned", "body"}
  /\ stack \in Seq(Frames) /\ Len(stack) \in 1..MaxDepth
  /\ contexts \in Seq([base : Nat, loops : Seq(Nat)])
  /\ Len(contexts) = 1 + Calls(Len(stack))
  /\ \A i \in DOMAIN contexts : contexts[i].base <= Len(log)
  /\ {at, begun, storage, state} \subseteq Steps /\ cut \subseteq Steps
  /\ result \in Results
  /\ log \in Seq(Events) /\ report \in Seq(Reports)
  /\ dropped \in 0..MaxDrops
  /\ raised \in [step : Steps, stack : Seq(Frames)]

Init ==
  /\ mode \in Modes
  /\ status = "waiting"
  /\ pc = "steps"
  /\ stack = <<Frame("handler", 0)>>
  /\ contexts = <<[base |-> 0, loops |-> <<>>]>>
  /\ at = 0 /\ begun = 0 /\ cut = {}
  /\ storage = 0 /\ state = 0
  /\ result = "ok"
  /\ log = <<>> /\ report = <<>> /\ dropped = 0
  /\ raised = Nothing

Top == Last(stack)
Context == Last(contexts)

-----------------------------------------------------------------------------
(* The log.                                                                *)

\* Events past the limit of the context's innermost loop are not recorded.
WithinLimit(loops) == loops = <<>> \/ Last(loops) < LoopLimit

\* report_verbose_event: which of the events a context records.
Verbose(events, loops) ==
  IF mode # "Fast" /\ WithinLimit(loops) THEN events ELSE <<>>

\* What a sequence has at these places, in order.
Those(seq, places) ==
  LET kept[n \in 0..Len(seq)] ==
        IF n = 0 THEN <<>>
        ELSE IF n \in places THEN Append(kept[n - 1], seq[n])
        ELSE kept[n - 1]
  IN kept[Len(seq)]

\* Under a debugger every message is sent first, for at most five seconds:
\* those a slow debugger does not take are given up (handle_logging_error).
Tell(messages) ==
  IF mode # "Debug" THEN UNCHANGED <<report, dropped>>
  ELSE \E taken \in SUBSET DOMAIN messages :
         /\ report' = report \o Those(messages, taken)
         /\ dropped' = dropped + Len(messages) - Cardinality(taken)
         /\ dropped' <= MaxDrops

Record(events) == log' = log \o events /\ Tell(events)

\* add_to_storage, into the storage of the innermost of these contexts.
StoresInto(chain, step) ==
  /\ storage' = IF Len(chain) = 1 THEN step ELSE storage
  /\ UNCHANGED <<mode, status, state>>

Note(type, step) == Record(Verbose(<<Event(type, step)>>, Context.loops))

MayNote(step) == Note("noted", step) \/ UNCHANGED logs

-----------------------------------------------------------------------------
(* What execute_step and execute_steps return.                             *)

\* execute_step returns: execute_steps, one frame further out or not, goes on.
Returns(outcome) ==
  /\ pc' = "returned"
  /\ result' = outcome

\* An error of the step itself, rather than one handed on.
Raises(step) ==
  /\ Returns("error")
  /\ raised' = [step |-> step, stack |-> stack]

\* The body of the innermost frame is left, and with it the step it belongs to.
Leaves(outcome) ==
  /\ stack' = Front(stack)
  /\ at' = Top.step
  /\ Returns(outcome)

Goes(to) == pc' = to /\ result' = "ok"

\* The step executes steps of its own.
Enters(kind, to) ==
  /\ Len(stack) < MaxDepth
  /\ stack' = Append(stack, Frame(kind, at))
  /\ Goes(to)

-----------------------------------------------------------------------------
(* The actor.                                                              *)

\* No such handler or function, or a native one: nothing is logged.
Refuse ==
  /\ status = "waiting"
  /\ status' = "refused"
  /\ UNCHANGED <<mode, pc, stack, contexts, at, result, log, report, dropped,
                 begun, cut, storage, state, raised>>

\* Actor::execute_function: start_report.
Start ==
  /\ status = "waiting"
  /\ status' = "started"
  /\ Tell(<<Event("start", 0)>>)
  /\ UNCHANGED <<mode, pc, stack, contexts, at, result, log, begun, cut, storage,
                 state, raised>>

\* Mutation of Finish: the state is kept whatever the outcome.
FinishKeeping ==
  /\ status = "started" /\ pc = "body" /\ Top.kind = "handler"
  /\ status' = IF result \in {"ok", "return"} THEN "finished" ELSE "failed"
  /\ state' = storage
  /\ Tell(<<Event("end", 0)>>)
  /\ UNCHANGED <<mode, pc, stack, contexts, at, result, log, begun, cut, storage, raised>>

\* The handler's body is done: the actor keeps the state, unless an error, or a
\* break or continue that has found no loop, fails the run; end_report.
Finish ==
  /\ status = "started" /\ pc = "body" /\ Top.kind = "handler"
  /\ IF result \in {"ok", "return"}
     THEN status' = "finished" /\ state' = storage
     ELSE status' = "failed" /\ UNCHANGED state
  /\ Tell(<<Event("end", 0)>>)
  /\ UNCHANGED <<mode, pc, stack, contexts, at, result, log, begun, cut, storage, raised>>

-----------------------------------------------------------------------------
(* execute_steps                                                           *)

BeginStep ==
  /\ status = "started" /\ pc = "steps" /\ begun < MaxSteps[mode]
  /\ begun' = begun + 1
  /\ at' = begun + 1
  /\ Note("started", begun + 1)
  /\ Goes("step")
  /\ UNCHANGED <<running, stack, contexts, cut, raised>>

EndSteps ==
  /\ status = "started" /\ pc = "steps"
  /\ pc' = "body" /\ result' = "ok"
  /\ UNCHANGED <<running, stack, contexts, at, logs, begun, cut, raised>>

\* An error is recorded whatever the limit.
FinishStep ==
  /\ pc = "returned"
  /\ Record((IF result = "error" THEN <<Event("error", at)>> ELSE <<>>)
              \o Verbose(<<Event("finished", at)>>, Context.loops))
  /\ pc' = IF result = "ok" THEN "steps" ELSE "body"
  /\ UNCHANGED <<running, stack, contexts, at, result, begun, cut, raised>>

-----------------------------------------------------------------------------
(* execute_step                                                            *)

\* A disabled step, an If none of whose branches is taken, a native function
\* that stores nothing.
Pass ==
  /\ pc = "step"
  /\ Returns("ok")
  /\ UNCHANGED <<running, stack, contexts, at, logs, begun, cut, raised>>

\* Assign, Transform, Parse, a native function with store_as.
Store ==
  /\ pc = "step"
  /\ Note("noted", at)
  /\ StoresInto(contexts, at)
  /\ Returns("ok")
  /\ UNCHANGED <<stack, contexts, at, begun, cut, raised>>

\* Break, Continue, Return.
Jump ==
  /\ pc = "step"
  /\ \E jump \in {"break", "continue", "return"} : Returns(jump)
  /\ UNCHANGED <<running, stack, contexts, at, logs, begun, cut, raised>>

\* Throw, an expression that cannot be evaluated, a native function that fails,
\* a function or an import there is none of.
Fail ==
  /\ pc = "step"
  /\ MayNote(at)
  /\ Raises(at)
  /\ UNCHANGED <<running, stack, contexts, at, begun, cut>>

\* A branch of an If; the body of webdriver/get_element or get_elements, which
\* have found an element.
Branch ==
  /\ pc = "step"
  /\ Enters("block", "steps")
  /\ MayNote(at)
  /\ UNCHANGED <<running, contexts, at, begun, cut, raised>>

\* get_elements executes its body again, for the next element.
NextElement ==
  /\ pc = "body" /\ Top.kind = "block" /\ result = "ok"
  /\ Goes("steps")
  /\ UNCHANGED <<running, stack, contexts, at, logs, begun, cut, raised>>

\* get_element drops its element after the body, unless somebody else has.
DropElement ==
  /\ pc = "body" /\ Top.kind = "block" /\ result = "ok"
  /\ \/ Note("noted", Top.step) /\ Leaves("ok") /\ UNCHANGED raised
     \/ /\ Leaves("error") /\ UNCHANGED logs
        /\ raised' = [step |-> Top.step, stack |-> Front(stack)]
  /\ UNCHANGED <<running, contexts, begun, cut>>

LeaveBlock ==
  /\ pc = "body" /\ Top.kind \in {"block", "catch"}
  /\ Leaves(result)
  /\ UNCHANGED <<running, contexts, logs, begun, cut, raised>>

-----------------------------------------------------------------------------
(* ForEach and While                                                       *)

WithLoops(loops) ==
  contexts' = [contexts EXCEPT ![Len(contexts)].loops = loops]

EnterLoop ==
  /\ pc = "step"
  /\ Enters("loop", "iterate")
  /\ LET used == IF Context.loops = <<>> THEN 0 ELSE Last(Context.loops)
     IN WithLoops(Append(Context.loops, used \div LoopShare))
  /\ UNCHANGED <<running, at, logs, begun, cut, raised>>

\* ForEach stores the item, While has evaluated its condition.
Iterate(counted) ==
  /\ WithLoops(counted)
  /\ Goes("steps")
  /\ \/ /\ Record(Verbose(<<Event("noted", Top.step)>>, counted))
        /\ StoresInto(contexts, Top.step)
     \/ UNCHANGED <<running, logs>>

\* The count that matters is whether it is below the limit; it goes no further.
NextIteration ==
  /\ pc = "iterate"
  /\ Iterate(Append(Front(Context.loops),
                    IF Last(Context.loops) < LoopLimit
                    THEN Last(Context.loops) + 1 ELSE Last(Context.loops)))
  /\ UNCHANGED <<stack, at, begun, cut, raised>>

\* loop_counts.pop(), whatever the loop returns.
LeavesLoop(outcome) ==
  /\ WithLoops(Front(Context.loops))
  /\ Leaves(outcome)

EndLoop ==
  /\ pc = "iterate"
  /\ LeavesLoop("ok")
  /\ UNCHANGED <<running, logs, begun, cut, raised>>

\* The condition or the item cannot be evaluated or stored.
FailLoop ==
  /\ pc = "iterate"
  /\ LeavesLoop("error")
  /\ raised' = [step |-> Top.step, stack |-> Front(stack)]
  /\ UNCHANGED <<running, logs, begun, cut>>

AgainLoop ==
  /\ pc = "body" /\ Top.kind = "loop" /\ result \in {"ok", "continue"}
  /\ Goes("iterate")
  /\ UNCHANGED <<running, stack, contexts, at, logs, begun, cut, raised>>

BreakLoop ==
  /\ pc = "body" /\ Top.kind = "loop" /\ result = "break"
  /\ LeavesLoop("ok")
  /\ UNCHANGED <<running, logs, begun, cut, raised>>

\* Mutation of AbortLoop: the count is popped only where `?` lets it.
AbortLoopCounted ==
  /\ pc = "body" /\ Top.kind = "loop" /\ result \in {"return", "error"}
  /\ Leaves(result)
  /\ UNCHANGED <<running, contexts, logs, begun, cut, raised>>

AbortLoop ==
  /\ pc = "body" /\ Top.kind = "loop" /\ result \in {"return", "error"}
  /\ LeavesLoop(result)
  /\ UNCHANGED <<running, logs, begun, cut, raised>>

-----------------------------------------------------------------------------
(* Try                                                                     *)

EnterTry ==
  /\ pc = "step"
  /\ Enters("try", "steps")
  /\ UNCHANGED <<running, contexts, at, logs, begun, cut, raised>>

\* Mutation of Caught: the catch's own errors are caught too.
CaughtAll(kind) == kind \in {"try", "catch"} /\ result = "error"

Caught(kind) == kind = "try" /\ result = "error"

\* The error is stored as `error`, and the catch steps follow.
Catch ==
  /\ pc = "body" /\ Caught(Top.kind)
  /\ stack' = Append(Front(stack), Frame("catch", Top.step))
  /\ Note("noted", Top.step)
  /\ StoresInto(contexts, Top.step)
  /\ Goes("steps")
  /\ raised' = Nothing
  /\ UNCHANGED <<contexts, at, begun, cut>>

LeaveTry ==
  /\ pc = "body" /\ Top.kind = "try" /\ ~Caught("try")
  /\ Leaves(result)
  /\ UNCHANGED <<running, contexts, logs, begun, cut, raised>>

-----------------------------------------------------------------------------
(* execute_function                                                        *)

\* The function has a context of its own, with an empty log and no loops.
EnterCall ==
  /\ pc = "step"
  /\ Enters("call", "steps")
  /\ Note("enter", at)
  /\ contexts' = Append(contexts, [base |-> Len(log'), loops |-> <<>>])
  /\ UNCHANGED <<running, at, begun, cut, raised>>

\* A decorator: the steps of the call follow the function's, in its context.
EnterInner ==
  /\ pc = "body" /\ Top.kind = "call" /\ result \in {"ok", "return"}
  /\ stack' = Append(Front(stack), Frame("inner", Top.step))
  /\ Goes("steps")
  /\ UNCHANGED <<running, contexts, at, logs, begun, cut, raised>>

\* The context's events join the caller's, and the caller goes on.
Join(events) ==
  /\ contexts' = Front(contexts)
  /\ Record(Verbose(events, Last(Front(contexts)).loops))

Left == Event("leave", Top.step)

Completed ==
  /\ pc = "body"
  /\ \/ Top.kind = "call" /\ result \in {"ok", "return"}
     \/ Top.kind = "inner" /\ result = "ok"

\* The value is stored, if the call says where; or that cannot be evaluated.
LeaveCall ==
  /\ Completed
  /\ \/ /\ Join(<<Left>>) /\ Leaves("ok")
        /\ UNCHANGED <<running, raised>>
     \/ /\ Join(<<Left, Event("noted", Top.step)>>) /\ Leaves("ok")
        /\ StoresInto(Front(contexts), Top.step)
        /\ UNCHANGED raised
     \/ /\ Join(<<Left>>) /\ Leaves("error")
        /\ raised' = [step |-> Top.step, stack |-> Front(stack)]
        /\ UNCHANGED running
  /\ UNCHANGED <<begun, cut>>

\* Mutation of AbortCall: the function's events are not appended.
AbortCallUnlogged ==
  /\ pc = "body" /\ Top.kind = "call" /\ result \in {"break", "continue", "error"}
  /\ contexts' = Front(contexts)
  /\ LET events == Verbose(<<Left>>, Last(Front(contexts)).loops)
     IN log' = SubSeq(log, 1, Context.base) \o events /\ Tell(events)
  /\ Leaves(result)
  /\ UNCHANGED <<running, begun, cut, raised>>

\* An error of the body is handed on, and so is a break or a continue: the
\* caller's loop takes it.
AbortCall ==
  /\ pc = "body" /\ Top.kind = "call" /\ result \in {"break", "continue", "error"}
  /\ Join(<<Left>>)
  /\ Leaves(result)
  /\ UNCHANGED <<running, begun, cut, raised>>

\* Out of the decorated steps everything but their end is handed on at once
\* (`?`): no LeaveFunction, and what the context has logged is gone.
AbortInner ==
  /\ pc = "body" /\ Top.kind = "inner" /\ result # "ok"
  /\ contexts' = Front(contexts)
  /\ log' = SubSeq(log, 1, Context.base)
  /\ cut' = cut \cup {Top.step}
  /\ Leaves(result)
  /\ UNCHANGED <<running, report, dropped, begun, raised>>

-----------------------------------------------------------------------------
Next ==
  \/ Refuse \/ Start \/ Finish
  \/ BeginStep \/ EndSteps \/ FinishStep
  \/ Pass \/ Store \/ Jump \/ Fail
  \/ Branch \/ NextElement \/ DropElement \/ LeaveBlock
  \/ EnterLoop \/ NextIteration \/ EndLoop \/ FailLoop
  \/ AgainLoop \/ BreakLoop \/ AbortLoop
  \/ EnterTry \/ Catch \/ LeaveTry
  \/ EnterCall \/ EnterInner \/ LeaveCall \/ AbortCall \/ AbortInner

Spec == Init /\ [][Next]_vars

-----------------------------------------------------------------------------
(* Properties.                                                             *)

\* A context counts exactly the loops it is in: however a loop is left, no
\* stale count silences the steps that follow it (executor.rs: loop_counts).
CountsItsLoops ==
  \A c \in DOMAIN contexts :
    Len(contexts[c].loops) =
      Cardinality({i \in DOMAIN stack : stack[i].kind = "loop" /\ Calls(i) = c - 1})

\* What is open after a log.  A call that was cut off is closed by the end of its
\* step.
Closes(open, event) ==
  LET type == IF event.type = "leave" THEN "enter" ELSE "started" IN
  IF open # <<>> /\ Last(open) = Event(type, event.step) THEN Front(open)
  ELSE Append(open, event)

Opened(open, event) ==
  CASE event.type \in {"started", "enter"} -> Append(open, event)
    [] event.type = "leave" -> Closes(open, event)
    [] event.type = "finished" ->
         Closes(IF open # <<>> /\ event.step \in cut
                     /\ Last(open) = Event("enter", event.step)
                THEN Front(open) ELSE open, event)
    [] OTHER -> open

StillOpen ==
  LET open[n \in 0..Len(log)] ==
        IF n = 0 THEN <<>> ELSE Opened(open[n - 1], log[n])
  IN open[Len(log)]

EventsNest ==
  /\ \A i \in DOMAIN StillOpen : StillOpen[i].type \in {"started", "enter"}
  /\ status \in {"finished", "failed"} => StillOpen = <<>>

\* The events the debugger has received.
Told == Those(report, {i \in DOMAIN report : report[i] \in Events})

\* They are the log but for as many events, at most, as it did not take.
ReportIsLog ==
  mode = "Debug" /\ cut = {} =>
    \E lost \in [1..dropped -> 0..Len(log)] :
      Told = Those(log, DOMAIN log \ {lost[i] : i \in 1..dropped})

\* However steps, calls and decorators are left: the events of a log nest (none
\* closes what is not open, and a run that is over leaves nothing open), and the
\* debugger has received the log, in order, but for what it did not take in time.
\* A decorator whose steps are left early loses events of the log.
LogIsWhole == EventsNest /\ ReportIsLog

\* An error goes to the innermost try it was raised in, through any functions,
\* loops and branches, and past no other; with none it fails the run.
Handler == {i \in DOMAIN raised.stack : raised.stack[i].kind = "try"}

ErrorIsPending == result = "error" /\ pc \in {"returned", "body"}

NearestTryCatches ==
  [][ErrorIsPending =>
       IF status' = "failed" THEN Handler = {}
       ELSE \/ result' = "error" /\ pc' \in {"returned", "body"}
            \/ /\ Handler # {} /\ Len(stack') = Max(Handler)
               /\ Last(stack').kind = "catch"]_vars

\* A run that fails keeps nothing of what it has stored, and says why: the log
\* names the step that raised the error, in every mode and past every limit,
\* unless a decorator has lost it; and the handler's own step it came through.
FailsWhole ==
  status = "failed" =>
    /\ state = 0
    /\ result = "error" =>
         /\ cut = {} => \E i \in DOMAIN log : log[i] = Event("error", raised.step)
         /\ \E i \in DOMAIN log : log[i] = Event("error", at)
=============================================================================
