------------------------------ MODULE Analysis ------------------------------
(***************************************************************************)
(* The editor's analysis of a function (analyze_step in src/omnitool) and  *)
(* one run of the same function (execute_step in executor.rs), in          *)
(* lock-step: the steps are taken in the order of the text; each is        *)
(* analysed, and executed too if the run comes to it.  The program is      *)
(* chosen while it is read.  A loop runs its body at most once here.       *)
(*                                                                         *)
(* The blocks that are open form a stack, below it the function itself.    *)
(* While the run is elsewhere, `away` is the block at whose end it resumes. *)
(***************************************************************************)
EXTENDS Description, FiniteSets
LOCAL INSTANCE SequencesExt
LOCAL INSTANCE FiniteSetsExt

CONSTANTS
    Functions,      \* the functions a text may belong to, by name
    Texts,          \* what texts are written with, by name
    Results         \* values that are given to and returned from functions

\* A text names its function, and bounds its steps and the blocks open at once,
\* the function among them; what its steps are about is chosen from its
\* expressions, targets, functions called, and so on.
ASSUME AnalysisAssumption ==
    \A t \in DOMAIN Texts :
        /\ Texts[t].functions \subseteq DOMAIN Functions /\ Texts[t].calls \subseteq DOMAIN Functions
        /\ Texts[t].steps \in Nat /\ Texts[t].blocks \in Nat

\* What a function may not declare.
Undeclared == [undeclared |-> TRUE]

VARIABLES
    text,       \* the kind of text that is read
    function,   \* and the function it belongs to: what it takes, gives and needs
    context,    \* the Context of the analysis
    blocks,     \* the open blocks, each with what is kept for what follows it
    storage,    \* the variables of the run
    held,       \* the resources of the run
    away,       \* 0 while the run is here, or the block at whose end it resumes
    unsure,     \* variables the analysis cannot know ("resources" for them)
    last,       \* the problems of the last step, and what its execution did
    steps       \* steps read

vars == <<text, function, context, blocks, storage, held, away, unsure, last, steps>>

Here == away = 0
Top == Last(blocks)
Depth == Len(blocks)

\* Where an error of the run leads: the end of the innermost Try body.
Catcher == Max({1} \cup {i \in 1 .. Depth : blocks[i].kind = "try"})
\* Where a break or continue leads; outside of loops it leaves the function.
Loop == Max({1} \cup {i \in 1 .. Depth : blocks[i].kind = "loop"})

-----------------------------------------------------------------------------
(* Resources.                                                              *)

WorkerResources == {"postgres_connection", "redis_connection", "http_client", "actor_link",
                    "libsql_connection", "webdriver_client"}
Streamable == {"pending_http_request", "pending_http_response", "pending_form_data_field",
               "file_handle"}

Matches(tested, by) == IF by = "streamable" THEN tested \in Streamable ELSE by = tested

Resource(name, consumable) == [name |-> name, consumable |-> consumable]

Consume(resources, name) ==
    LET found == {i \in DOMAIN resources : Matches(resources[i].name, name)
                                           /\ resources[i].consumable}
    IN IF found = {} THEN resources ELSE RemoveAt(resources, Max(found))

\* One annotation of a called function.
Annotate(acc, annotation) ==
    LET name == annotation.resource
        Fits(r) == Matches(r.name, name)
        found == SelectSeq(acc.resources, Fits)
        consumable == SelectSeq(found, LAMBDA r : r.consumable)
    IN CASE name \in WorkerResources -> acc
         [] annotation.is = "provision" ->
                [acc EXCEPT !.resources = Append(@, Resource(name, TRUE))]
         [] annotation.is = "consumption" ->
                [resources |-> Consume(acc.resources, name),
                 missing |-> acc.missing \/ consumable = <<>>]
         [] annotation.is = "requirement" ->
                [acc EXCEPT !.missing = @ \/ found = <<>>]

Annotated(resources, annotations) ==
    FoldLeft(Annotate, [resources |-> resources, missing |-> FALSE], annotations)

\* What a function may count on: what it declares to consume, or only to use.
Declared(annotations) ==
    LET needs == SelectSeq(annotations, LAMBDA a : a.is \in {"consumption", "requirement"})
    IN [i \in DOMAIN needs |-> Resource(needs[i].resource, needs[i].is = "consumption")]

\* To the run, all of them are consumable.
Real(resources) == [i \in DOMAIN resources |-> [resources[i] EXCEPT !.consumable = TRUE]]

-----------------------------------------------------------------------------
(* Problems, by their codes.                                               *)

Code(condition, code) == IF condition THEN {code} ELSE {}

\* description_to_problems: errors go, also from within unions.
RECURSIVE IsFaulty(_)
IsFaulty(d) == Is(d, "dError") \/ (Is(d, "dUnion") /\ \E i \in DOMAIN d.dUnion : IsFaulty(d.dUnion[i]))

RECURSIVE WithoutErrors(_)
WithoutErrors(d) ==
    IF ~Is(d, "dUnion") THEN d
    ELSE LET sound == SelectSeq(d.dUnion, LAMBDA m : ~Is(m, "dError"))
         IN DUnion([i \in DOMAIN sound |-> WithoutErrors(sound[i])])

Checked(d) == IF Is(d, "dError") THEN DAny ELSE WithoutErrors(d)
Faults(d) == Code(IsFaulty(d), "ERROR_PREDICTED")

Constant(d) == Code(~Is(d, "dError") /\ Is(DToBoolean(WithoutErrors(d)), "dBoolean"),
                    "CONSTANT_CONDITION")

Incompatible(d, declared) == Code(~IsCompatible(d, declared), "INCOMPATIBLE_VALUE")

\* A Parse step is only warned about the rough type of its value.
Doubtful(d, target) ==
    LET rough == CASE Is(target, "dArray") \/ Is(target, "dExact") -> "array"
                   [] Is(target, "dObject") -> "object"
                   [] Is(target, "dBase") /\ target.dBase \in {"array", "object"} -> target.dBase
                   [] OTHER -> "other"
        literals == [array |-> {"dArray", "dExact"}, object |-> {"dObject"}]
    IN ~(IF rough = "other" THEN IsCompatible(d, target)
         ELSE DOMAIN d \cap literals[rough] # {} \/ (Is(d, "dBase") /\ d.dBase = rough))

\* store_in_storage: each selector in turn, those that fail left out.
StoreOne(described, selector, d) ==
    LET after == StoreDescription(described, selector, d)
    IN IF Is(after, "dError") THEN described ELSE after.dObject

StoreAll(described, selectors, d) ==
    FoldLeft(LAMBDA s, selector : StoreOne(s, selector, d), described,
             SelectSeq(selectors, IsStatic))

StoreProblems(described, selectors, d) ==
    LET some == {selectors[i] : i \in DOMAIN selectors}
    IN Code(UnknownSelector \in some, "STORAGE_SELECTOR_UNKNOWN")
       \cup Code(\E s \in some : "error" \in DOMAIN s, "STORAGE_SELECTOR_FAILED")
       \cup Code(\E s \in some : IsStatic(s) /\ Is(StoreDescription(described, s, d), "dError"),
                 "STORAGE_PREDICTION_FAILED")

-----------------------------------------------------------------------------
(* Where the prediction of an expression holds, whatever the run does: it   *)
(* reads nothing the analysis cannot know, and stays away from the cases in *)
(* which predict_description is known to be imprecise (see the README).     *)
(* These operators serve the properties; no code corresponds to them.       *)

\* Kinds an attribute, and a slice, are predicted of.
HasAttribute(d, a) ==
    \/ Is(d, "dExact") /\ a # "length"
    \/ Is(d, "dArray") /\ a # "length"
    \/ DOMAIN d \cap {"dUnion", "dError", "dBase", "dExact", "dArray"} = {}

HasSlice(d) ==
    \/ DOMAIN d \cap {"dString", "dExact", "dObject", "dArray", "dAny"} # {}
    \/ d \in {Base("string"), Base("object"), Base("array")}

IsIndex(d) == ~Is(d, "dUnion") /\ (Is(d, "dBase") => d.sub = "" /\ d.dBase # "any")

HasSum(a, b) == "any" \in {a, b} => {a, b} \cap {"string", "array", "object"} # {}

HasBinary(op, a, b) ==
    /\ {a, b} \subseteq Types
    /\ op = "+" => HasSum(a, b)
    /\ op = "&&" => b \in {"boolean", "any"}
    /\ op \in {"-", "*", "/"} => {a, b} # {"any"}

HasMethod(a, m) == a \in DOMAIN Methods /\ m \notin {"fromHexString", "fromBase64String", "replaceExtension"}

\* Whether what is predicted of an expression holds if all predictions of its
\* parts, p, do.
Sound(e, p) ==
    LET members == [part \in DOMAIN p |-> ToSet(Members(p[part]))]
        keys == [part \in DOMAIN p |-> {Key(d) : d \in members[part]}]
    IN CASE e.is = "environment" -> e.variable \in DOMAIN Environment
         [] e.is = "attribute" -> \A d \in members.of : HasAttribute(d, e.attribute)
         [] e.is = "slice" -> /\ \A d \in members.of : HasSlice(d)
                              /\ \A d \in members.index : IsIndex(d)
         [] e.is = "unary" -> keys.of \subseteq Types
         [] e.is = "call" -> \A a \in keys.of : HasMethod(a, e.method)
         [] e.is = "binary" -> \A a \in keys.left, b \in keys.right : HasBinary(e.op, a, b)
         [] e.is = "if" ->
                p.condition \in {DBoolean(TRUE), DBoolean(FALSE), DAny, Base("boolean")}
         [] OTHER -> TRUE

\* Of what a known condition chooses between, the other one does not matter.
Passed(part, condition) ==
    \/ part = "then" /\ condition = DBoolean(FALSE)
    \/ part = "otherwise" /\ condition = DBoolean(TRUE)

RECURSIVE Trusted(_, _, _)
Trusted(e, described, doubted) ==
    LET parts == DOMAIN e \cap {"of", "index", "left", "right", "condition", "then", "otherwise"}
        T(x) == Trusted(x, described, doubted)
    IN /\ e.is = "name" => e.name \notin doubted
       /\ e.is = "list" => \A i \in DOMAIN e.items : T(e.items[i])
       /\ e.is = "fields" => \A k \in DOMAIN e.fields : T(e.fields[k])
       /\ Sound(e, [part \in parts |-> Predict(e[part], described)])
       /\ \A part \in parts :
            T(e[part]) \/ (e.is = "if" /\ Passed(part, Predict(e.condition, described)))

\* The variable a place lies in.
Root(selector) ==
    IF IsStatic(selector) /\ "name" \in DOMAIN selector.parts[1]
    THEN {selector.parts[1].name} ELSE {}

\* Whether the parts lead through one description per place: not through the
\* item type of an array, which is the description of all its items.
RECURSIVE Follows(_, _)
Follows(d, parts) ==
    LET place == DPlaceIn(d, parts[1])
        Goes(into) == Follows(into, Tail(parts))
    IN CASE Len(parts) = 1 \/ Is(d, "dAny") -> TRUE
         [] Is(d, "dObject") /\ place.string \in DOMAIN d.dObject -> Goes(d.dObject[place.string])
         [] Is(d, "dExact") /\ ~Failed(place) /\ place.number < Len(d.dExact) ->
                Goes(d.dExact[place.number + 1])
         [] OTHER -> FALSE

-----------------------------------------------------------------------------
(* Steps.                                                                  *)

Nothing == [nothing |-> TRUE]
Happened(problems) ==
    [missing |-> FALSE, judged |-> Nothing,
     problems |-> problems \cup Code(context.ended, "UNREACHABLE_CODE")]

\* Descriptions that leave nothing open; is_compatible accepts the others.
RECURSIVE Known(_)
Known(d) ==
    CASE Is(d, "dAny") \/ d = Base("any") -> FALSE
      [] Is(d, "dUnion") -> \A i \in DOMAIN d.dUnion : Known(d.dUnion[i])
      [] Is(d, "dObject") -> \A k \in DOMAIN d.dObject : Known(d.dObject[k])
      [] Is(d, "dExact") -> \A i \in DOMAIN d.dExact : Known(d.dExact[i])
      [] Is(d, "dArray") -> Known(d.dArray)
      [] OTHER -> TRUE

\* What a value is known to be once its description, d, was taken for the
\* declared one.  It is the declared one, but for arrays: is_compatible does not
\* look at the end of a longer exact array or at the length of an array that is
\* met by another array, and takes an array of an item type for an exact one if
\* the items of the exact one would fit, whatever its own are.
RECURSIVE Promised(_, _)
Promised(d, declared) ==
    LET array == DOMAIN declared \cap {"dExact", "dArray"} # {}
    IN CASE d = declared -> declared
         [] Is(d, "dUnion") -> DUnion([i \in DOMAIN d.dUnion |-> Promised(d.dUnion[i], declared)])
         [] Is(declared, "dUnion") ->
                LET taken == SelectSeq(declared.dUnion, LAMBDA m : IsCompatible(d, m))
                IN DUnion([i \in DOMAIN taken |-> Promised(d, taken[i])])
         [] Is(d, "dObject") /\ Is(declared, "dObject") ->
                DObject([k \in DOMAIN declared.dObject |->
                            Promised(IF k \in DOMAIN d.dObject THEN d.dObject[k] ELSE DNull,
                                     declared.dObject[k])])
         [] Is(d, "dExact") /\ array ->
                DExact([i \in DOMAIN d.dExact |->
                            Promised(d.dExact[i], IF Is(declared, "dArray") THEN declared.dArray
                                                  ELSE declared.dExact[i])])
         [] Is(d, "dArray") /\ Is(declared, "dArray") ->
                DArray(Promised(d.dArray, declared.dArray), AnyLength)
         [] Is(d, "dArray") /\ Is(declared, "dExact") -> Base("array")
         [] OTHER -> declared

\* A value of the run beside the description it should be of, if e, which has
\* it, can be trusted in context c.
Judged(e, c, doubted, value, by) ==
    IF ~Failed(Evaluate(e, storage)) /\ Trusted(e, c.storage, doubted)
    THEN [value |-> value, by |-> by] ELSE Nothing

\* A value handed over as one of a declared description, unless that is flagged.
Handed(e, declared) ==
    LET d == Predict(e, context.storage)
    IN IF Here /\ ~IsFaulty(d) /\ Known(d) /\ IsCompatible(d, declared)
       THEN Judged(e, context, unsure, Evaluate(e, storage), Promised(d, declared)) ELSE Nothing

\* Whether a condition lets the run in, which is what to_boolean predicts.
Truth(e, c, doubted, enters) ==
    Judged(e, c, doubted, Boolean(enters), DToBoolean(Checked(Predict(e, c.storage))))

\* The next step of the text; once the run has left the function for good,
\* the rest of the text is of no interest here.
Reads ==
    /\ steps < Texts[text].steps /\ away # 1
    /\ steps' = steps + 1 /\ UNCHANGED <<text, function>>

Fails == away' = Catcher

\* Context c goes on with d stored wherever the target may lead; the run stores
\* v where it leads, which is an error if it fails.  What only one of them does
\* is not known afterwards.
StoresAt(c, selectors, selector, d, v, trusted, doubts) ==
    LET after == IF Failed(v) THEN v ELSE StoreValue(storage, selector, v)
        stored == Here /\ ~Failed(after)
        roots == UNION {Root(s) : s \in {selector} \cup {selectors[i] : i \in DOMAIN selectors}}
        agree == /\ stored /\ trusted /\ selectors = <<selector>>
                 /\ ~Is(StoreDescription(c.storage, selector, d), "dError")
    IN /\ context' = [c EXCEPT !.storage = StoreAll(c.storage, selectors, d)]
       /\ storage' = IF stored THEN after.object ELSE storage
       /\ IF Here /\ ~stored THEN Fails ELSE UNCHANGED away
       /\ unsure' = (CASE agree /\ Len(selector.parts) = 1 -> unsure \ roots
                       [] agree /\ Follows(DObject(c.storage), selector.parts) -> unsure
                       [] OTHER -> unsure \cup roots)
                    \cup doubts \cup Code(c.resources # context.resources /\ ~stored, "resources")

Stores(c, target, d, v, trusted, doubts) ==
    StoresAt(c, Selectors(target, c.storage), EvaluateSelector(target, storage), d, v, trusted, doubts)

Problems(target, d) == StoreProblems(context.storage, Selectors(target, context.storage), d)

Assign(e, target) ==
    LET d == Predict(e, context.storage)
    IN /\ Reads
       /\ Stores(context, target, Checked(d), Evaluate(e, storage),
                 Trusted(e, context.storage, unsure), {})
       /\ last' = Happened(Faults(d) \cup Problems(target, Checked(d)))
       /\ UNCHANGED <<blocks, held>>

\* A Parse step; its description is taken to hold afterwards.
ParseTo(e, description, target) ==
    LET d == Predict(e, context.storage)
        v == Evaluate(e, storage)
    IN /\ Reads
       /\ Stores(context, target, description, IF Failed(v) THEN v ELSE Parse(v, description), TRUE, {})
       /\ last' = Happened(Faults(d) \cup Problems(target, description)
                           \cup Code(~Is(d, "dError") /\ Doubtful(Checked(d), description),
                                     "POTENTIALLY_INCOMPATIBLE_PARSE"))
       /\ UNCHANGED <<blocks, held>>

\* The items of a transformation: those that pass, mapped.  An item that makes
\* an expression fail makes the whole step fail.
Layered(item) == [value |-> item] @@ storage

Transformed(items, filter, map) ==
    LET verdicts == [i \in DOMAIN items |-> Evaluate(filter, Layered(items[i]))]
        passed == SelectSeq([i \in DOMAIN items |-> i],
                            LAMBDA i : Failed(verdicts[i]) \/ ToBoolean(verdicts[i]))
    IN Gather([n \in DOMAIN passed |->
                  IF Failed(verdicts[passed[n]]) THEN verdicts[passed[n]]
                  ELSE Evaluate(map, Layered(items[passed[n]]))], Array)

Characters(s) == [i \in 1 .. Len(s) |-> CharAt(s, i - 1)]

TransformedObject(fields, filter, map) ==
    LET Verdict(k) == Evaluate(filter, Layered(fields[k]))
        mapped == [k \in {k \in DOMAIN fields : ToBoolean(Verdict(k))} |->
                      Evaluate(map, Layered(fields[k]))]
        faults == {Verdict(k) : k \in DOMAIN fields} \cup {mapped[k] : k \in DOMAIN mapped}
    IN IF \E v \in faults : Failed(v) THEN Error("failed") ELSE Object(mapped)

\* Sorting has an unknown comparison; it may turn the items round.
Orders(v) == {v} \cup (IF TypeOf(v) = "array" THEN {Array(Reverse(v.array))} ELSE {})

Transform(e, filter, map, target) ==
    LET d == Predict(e, context.storage)
        part == [value |-> GetPart(Checked(d))] @@ context.storage
        item == Predict(map, part)
        verdict == Predict(filter, part)
        yields == IF Is(d, "dError") THEN DAny ELSE DArray(item, AnyLength)
        v == Evaluate(e, storage)
        w == CASE TypeOf(v) = "string" -> Transformed(Characters(v.string), filter, map)
               [] TypeOf(v) = "array" -> Transformed(v.array, filter, map)
               [] TypeOf(v) = "object" -> TransformedObject(v.object, filter, map)
               [] OTHER -> Error("ParameterInvalid")
        trusted == /\ Trusted(e, context.storage, unsure) /\ Key(d) \in {"string", "array"}
                   /\ Trusted(map, part, unsure \ {"value"})
    IN /\ Reads
       /\ \E ordered \in Orders(w) : Stores(context, target, yields, ordered, trusted, {})
       /\ last' = Happened(Faults(d) \cup Problems(target, yields)
                           \cup IF Is(d, "dError") THEN {} ELSE Faults(verdict) \cup Constant(verdict))
       /\ UNCHANGED <<blocks, held>>

\* The callee, of which the declaration tells what it takes, gives and needs.
\* What it does to the resources is taken from its annotations, and what it
\* returns from its output description.
CallOf(callee, arguments, target) ==
    LET e == arguments[1]
        d == Predict(e, context.storage)
        given == arguments # <<>> /\ callee.takes # Undeclared
        needs == Annotated(context.resources, callee.annotations)
        real == Annotated(held, callee.annotations)
        gives == IF callee.gives = Undeclared THEN DAny ELSE callee.gives
        failed == arguments # <<>> /\ Failed(Evaluate(e, storage))
    IN /\ Reads
       /\ \E v \in Results \cup {Error("called")} :
            /\ Failed(v) \/ (Describes(gives, v) /\ ~real.missing /\ ~failed)
            /\ Stores([context EXCEPT !.resources = needs.resources], target, gives, v, TRUE,
                      Code(needs.missing, "resources"))
            /\ held' = IF Here /\ ~Failed(v) THEN real.resources ELSE held
       /\ last' = [Happened(Problems(target, gives)
                       \cup Code(needs.missing, "MISSING_RESOURCE")
                       \cup Code(arguments # <<>> /\ callee.takes = Undeclared, "UNEXPECTED_PARAMETER")
                       \cup Code(arguments = <<>> /\ callee.takes # Undeclared, "MISSING_PARAMETER")
                       \cup (IF given THEN Incompatible(d, callee.takes)
                                            \cup Code(Is(d, "dError"), "RESOLVES_TO_ERROR")
                             ELSE {}))
                   EXCEPT !.missing = Here /\ real.missing /\ ~failed /\ "resources" \notin unsure,
                          !.judged = IF given THEN Handed(e, callee.takes) ELSE Nothing]
       /\ UNCHANGED blocks

Return(values) ==
    LET e == values[1]
        d == IF values = <<>> THEN DNull ELSE Predict(e, context.storage)
        declared == function.gives
        v == IF values = <<>> THEN Null ELSE Evaluate(e, storage)
    IN /\ Reads
       /\ IF ~Here THEN UNCHANGED away ELSE IF Failed(v) THEN Fails ELSE away' = 1
       /\ context' = [context EXCEPT !.ended = TRUE]
       /\ last' = [Happened(Faults(d)
                       \cup (IF declared # Undeclared THEN Incompatible(Checked(d), declared)
                             ELSE Code(values # <<>>, "UNEXPECTED_VALUE")))
                   EXCEPT !.judged = IF declared = Undeclared THEN Nothing
                                     ELSE Handed(IF values = <<>> THEN Literal(Null) ELSE e, declared)]
       /\ UNCHANGED <<blocks, storage, held, unsure>>

Throw ==
    /\ Reads
    /\ IF Here THEN Fails ELSE UNCHANGED away
    /\ context' = [context EXCEPT !.ended = TRUE]
    /\ last' = Happened({})
    /\ UNCHANGED <<blocks, storage, held, unsure>>

\* With one iteration, Break and Continue are the same.
BreakOrContinue ==
    /\ Reads
    /\ IF Here THEN away' = Loop ELSE UNCHANGED away
    /\ last' = Happened(Code(~context.inLoop, "BREAK_OR_CONTINUE_OUTSIDE_LOOP"))
    /\ UNCHANGED <<context, blocks, storage, held, unsure>>

-----------------------------------------------------------------------------
(* Blocks.                                                                 *)

\* What is kept while a block is read: the context to go on with, if the block
\* has a copy of it, and what the run had then.
Block(kind, c, doubted, matched) ==
    [kind |-> kind, context |-> c, unsure |-> doubted, storage |-> storage, held |-> held,
     matched |-> matched]

Opens(block) == Depth < Texts[text].blocks /\ blocks' = Append(blocks, block)

\* The run enters the block that is opened, skips it, or fails before.
GoesIn(v) ==
    away' = CASE ~Here -> away
              [] Failed(v) -> Catcher
              [] OTHER -> IF ToBoolean(v) THEN 0 ELSE Depth + 1

\* What the run has changed since the block was opened.
Changed(block) ==
    {x \in DOMAIN storage : Lookup(block.storage, x) # storage[x]}
    \cup Code(block.held # held, "resources")

\* Mutant: the branch provides for what follows.
RestoredButResources(block) == [block.context EXCEPT !.resources = context.resources]

\* After a block with a copy of the context, the original is as it was.
Restored(block) == block.context
Doubted(block) == block.unsure \cup Changed(block)

\* The condition of an If or a While.
Guards(condition) ==
    IF Here THEN Truth(condition, context, unsure, ToBoolean(Evaluate(condition, storage)))
    ELSE Nothing

IfThen(condition) ==
    LET d == Predict(condition, context.storage)
        v == Evaluate(condition, storage)
    IN /\ Reads
       /\ Opens(Block("branch", context, unsure, Failed(v) \/ ToBoolean(v)))
       /\ GoesIn(v)
       /\ last' = [Happened(Faults(d) \cup Constant(d)) EXCEPT !.judged = Guards(condition)]
       /\ UNCHANGED <<context, storage, held, unsure>>

\* After a branch comes another one, which the run enters, if it has come that
\* far and entered none before, on this value.
Follow(v, noted) ==
    LET tried == away = Depth /\ ~Top.matched
        taken == v = Boolean(TRUE)
    IN /\ Reads /\ Top.kind = "branch"
       /\ context' = Restored(Top) /\ unsure' = Doubted(Top)
       /\ blocks' = [blocks EXCEPT ![Depth] =
                        Block("branch", Restored(Top), Doubted(Top), Top.matched \/ (tried /\ taken))]
       /\ away' = CASE Here -> Depth
                    [] tried /\ Failed(v) -> Catcher
                    [] tried /\ taken -> 0
                    [] OTHER -> away
       /\ last' = noted
       /\ UNCHANGED <<storage, held>>

\* The condition of a branch must be true itself; what is true only to
\* to_boolean, as that of an If, is said to be always true and is not entered.
Branch(condition) ==
    LET c == Restored(Top)
        d == Predict(condition, c.storage)
        v == Evaluate(condition, storage)
        misjudged == v # Boolean(TRUE) /\ ToBoolean(v)
    IN Follow(v, [missing |-> FALSE, problems |-> Faults(d) \cup Constant(d),
                  judged |-> IF away = Depth /\ ~Top.matched /\ ~Failed(v) /\ ~misjudged
                             THEN Truth(condition, c, Doubted(Top), v = Boolean(TRUE)) ELSE Nothing])

Else == Follow(Boolean(TRUE), [missing |-> FALSE, problems |-> {}, judged |-> Nothing])

EndIf ==
    /\ Top.kind = "branch" /\ away # 1
    /\ context' = Restored(Top) /\ unsure' = Doubted(Top)
    /\ blocks' = Front(blocks)
    /\ away' = IF away = Depth THEN 0 ELSE away
    /\ UNCHANGED <<text, function, storage, held, last, steps>>

\* What a loop finds first in a value, if there is something.
Elements(v) ==
    CASE TypeOf(v) = "array" -> {v.array[i] : i \in DOMAIN v.array}
      [] TypeOf(v) = "object" -> {Object(k :> v.object[k]) : k \in DOMAIN v.object}
      [] TypeOf(v) = "string" -> {CharAt(v.string, i - 1) : i \in 1 .. Len(v.string)}
      [] OTHER -> {}

Iterable(v) == TypeOf(v) \in {"array", "object", "string"}

InLoop(c) == [c EXCEPT !.inLoop = TRUE]

ForEach(e, item) ==
    LET d == Predict(e, context.storage)
        v == Evaluate(e, storage)
        selector == EvaluateSelector(item, storage)
        part == GetPart(d)
        failed == Failed(selector) \/ ~Iterable(v)
        trusted == Trusted(e, context.storage, unsure)
    IN /\ Reads
       /\ Opens(Block("loop", context, unsure, FALSE))
       /\ IF Here /\ ~failed /\ Elements(v) # {}
          THEN \E element \in Elements(v) : Stores(InLoop(context), item, part, element, trusted, {})
          ELSE LET selectors == Selectors(item, context.storage)
               IN /\ context' = InLoop([context EXCEPT !.storage = StoreAll(@, selectors, part)])
                  /\ away' = IF ~Here THEN away ELSE IF failed THEN Catcher ELSE Depth + 1
                  /\ unsure' = unsure \cup UNION {Root(selectors[i]) : i \in DOMAIN selectors}
                  /\ UNCHANGED storage
       /\ last' = Happened({})
       /\ UNCHANGED held

While(condition) ==
    LET d == Predict(condition, context.storage)
        v == Evaluate(condition, storage)
    IN /\ Reads
       /\ Opens(Block("loop", context, unsure, FALSE))
       /\ GoesIn(v)
       /\ context' = InLoop(context)
       /\ last' = [Happened(Faults(d) \cup Constant(d)) EXCEPT !.judged = Guards(condition)]
       /\ UNCHANGED <<storage, held, unsure>>

\* The body of a loop has the context of what follows.
EndLoop ==
    /\ Top.kind = "loop" /\ away # 1
    /\ context' = [context EXCEPT !.inLoop = Top.context.inLoop]
    /\ blocks' = Front(blocks)
    /\ away' = IF away = Depth THEN 0 ELSE away
    /\ UNCHANGED <<text, function, storage, held, unsure, last, steps>>

\* The catch steps have a copy of the context from before, where error is set.
Catching(c) == [c EXCEPT !.storage = With(@, "error", DBase("object", "error"))]

TryTo ==
    /\ Reads
    /\ Opens(Block("try", Catching(context), unsure, FALSE))
    /\ last' = Happened({})
    /\ UNCHANGED <<context, storage, held, away, unsure>>

\* At the end of a Try body; what follows the catch steps has its context.
Catch ==
    /\ Top.kind = "try" /\ away # 1
    /\ context' = Top.context
    /\ blocks' = [blocks EXCEPT ![Depth] = Block("catch", context, unsure, FALSE)]
    /\ unsure' = Doubted(Top) \ {"error"}
    /\ storage' = IF away = Depth THEN With(storage, "error", Object("code" :> String("a"))) ELSE storage
    /\ away' = CASE Here -> Depth [] away = Depth -> 0 [] OTHER -> away
    /\ UNCHANGED <<text, function, held, last, steps>>

EndTry ==
    /\ Top.kind = "catch" /\ away # 1
    /\ context' = Top.context /\ unsure' = Doubted(Top)
    /\ blocks' = Front(blocks)
    /\ away' = IF away = Depth THEN 0 ELSE away
    /\ UNCHANGED <<text, function, storage, held, last, steps>>

-----------------------------------------------------------------------------
(* The function.                                                           *)

Values(described) ==
    IF described = Undeclared THEN {Null} ELSE {v \in Results : Describes(described, v)}

\* A parameter is called x.
Init ==
    /\ text \in DOMAIN Texts
    /\ function \in {Functions[f] : f \in Texts[text].functions}
    /\ context = [storage |-> IF function.takes = Undeclared THEN <<>> ELSE "x" :> function.takes,
                  ended |-> FALSE, inLoop |-> FALSE, resources |-> Declared(function.annotations)]
    /\ \E v \in Values(function.takes) :
            storage = IF function.takes = Undeclared THEN <<>> ELSE "x" :> v
    /\ held = Real(Declared(function.annotations))
    /\ blocks = <<Block("function", context, {}, FALSE)>>
    /\ away = 0 /\ unsure = {} /\ steps = 0
    /\ last = Happened({})

Steps(t) ==
    \/ \E e \in t.expressions, to \in t.targets : Assign(e, to)
    \/ \E e \in t.conditions, d \in t.descriptions, to \in t.targets : ParseTo(e, d, to)
    \/ \E e \in t.conditions, i, j \in t.items, to \in t.targets : Transform(e, i, j, to)
    \/ \E f \in t.calls, a \in {<<>>} \cup {<<e>> : e \in t.conditions}, to \in t.targets :
            CallOf(Functions[f], a, to)
    \/ \E a \in {<<>>} \cup {<<e>> : e \in t.expressions} : Return(a)
    \/ Throw
    \/ BreakOrContinue

Blocks(t) ==
    \/ \E e \in t.conditions : IfThen(e) \/ Branch(e) \/ While(e)
    \/ \E e \in t.conditions, to \in t.targets : ForEach(e, to)
    \/ TryTo
    \/ Else
    \/ EndIf
    \/ EndLoop
    \/ Catch
    \/ EndTry

Next == Steps(Texts[text]) \/ Blocks(Texts[text])

Spec == Init /\ [][Next]_vars

-----------------------------------------------------------------------------
(* Properties.                                                             *)

\* Wherever the run is, the analysis has a description of the storage that
\* fits what the storage holds (analyze_step against execute_step), but for
\* what it cannot know: what only one of them has written.  The body of a loop
\* runs at most once here.
StorageDescribed ==
    Here => \A x \in (DOMAIN storage \cup DOMAIN context.storage) \ unsure :
                Describes(IF x \in DOMAIN context.storage THEN context.storage[x] ELSE DNull,
                          Lookup(storage, x))


\* A call that does not find a resource it needs has been flagged
\* (consume_resource, find_resource), unless what the run has consumed or got
\* depends on a branch, a loop or an error.
MissingIsFlagged == last.missing => "MISSING_RESOURCE" \in last.problems

=============================================================================
