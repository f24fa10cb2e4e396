----------------------------- MODULE ExecutorProofs ----------------------------
(***************************************************************************)
(* Theorems about Executor, for any modes, limits and bounds: programs of   *)
(* any size and depth.                                                      *)
(***************************************************************************)
EXTENDS Executor, FiniteSetTheorems, SequenceTheorems, WellFoundedInduction, TLAPS

-----------------------------------------------------------------------------
(* Sequences.                                                              *)

\* All but the last, and the last.
LEMMA Ends ==
  ASSUME NEW S, NEW s \in Seq(S), s # <<>>
  PROVE  /\ Len(s) \in Nat \ {0} /\ Last(s) = s[Len(s)] /\ Last(s) \in S
         /\ Front(s) \in Seq(S) /\ Len(Front(s)) = Len(s) - 1
         /\ \A i \in 1..(Len(s) - 1) : Front(s)[i] = s[i]
         /\ s = Append(Front(s), Last(s))
  <1>1. Len(s) \in Nat \ {0}
    BY EmptySeq
  <1>2. Last(s) = s[Len(s)] /\ Last(s) \in S
    BY <1>1, ElementOfSeq DEF Last
  <1>3. /\ Front(s) \in Seq(S) /\ Len(Front(s)) = Len(s) - 1
        /\ \A i \in 1..(Len(s) - 1) : Front(s)[i] = s[i]
    <2>1. PICK n \in Nat : n = Len(s) - 1
      BY <1>1
    <2>2. \A i \in 1..n : s[i] \in S
      BY <1>1, <2>1, ElementOfSeq
    <2>3. /\ SubSeq(s, 1, n) \in Seq(S)
          /\ Len(SubSeq(s, 1, n)) = IF 1 <= n THEN n - 1 + 1 ELSE 0
          /\ \A i \in 1..(n - 1 + 1) : SubSeq(s, 1, n)[i] = s[1 + i - 1]
      BY <2>2, SubSeqProperties
    <2>4. n - 1 + 1 = n /\ Len(SubSeq(s, 1, n)) = n
      BY <2>3
    <2>5. \A i \in 1..n : 1 + i - 1 = i
      OBVIOUS
    <2>6. \A i \in 1..n : SubSeq(s, 1, n)[i] = s[i]
      BY <2>3, <2>4, <2>5
    <2>7. Front(s) = SubSeq(s, 1, n)
      BY <2>1 DEF Front
    <2> QED BY <2>1, <2>3, <2>4, <2>6, <2>7
  <1>4. s = Append(Front(s), Last(s))
    <2>1. /\ Append(Front(s), Last(s)) \in Seq(S) /\ Len(Append(Front(s), Last(s))) = Len(s)
          /\ \A i \in 1..Len(s) : Append(Front(s), Last(s))[i] = s[i]
      BY <1>1, <1>2, <1>3
    <2> QED BY <2>1, SeqEqual
  <1> QED BY <1>1, <1>2, <1>3, <1>4

\* One more.
LEMMA Grown ==
  ASSUME NEW S, NEW s \in Seq(S), NEW e \in S
  PROVE  /\ Append(s, e) \in Seq(S) /\ Len(s) \in Nat /\ Len(Append(s, e)) = Len(s) + 1
         /\ Append(s, e) # <<>> /\ Last(Append(s, e)) = e
         /\ \A i \in 1..Len(s) : Append(s, e)[i] = s[i]
         /\ Append(s, e)[Len(s) + 1] = e
  BY DEF Last

-----------------------------------------------------------------------------
(* Frames and contexts.                                                    *)

CallsOf(s, i) == {j \in 1..i : s[j].kind \in {"call", "inner"}}
LoopsOf(s, c) == {i \in DOMAIN s : s[i].kind = "loop" /\ Cardinality(CallsOf(s, i)) = c - 1}
Depth(s) == Cardinality(CallsOf(s, Len(s)))

\* A call has a context of its own, and a context counts its loops.
Counts(s, cs) ==
  /\ Len(cs) = 1 + Depth(s)
  /\ \A c \in DOMAIN cs : Len(cs[c].loops) = Cardinality(LoopsOf(s, c))

Contexts == [base : Nat, loops : Seq(Nat)]

\* The frame of the handler is the outermost, and no other is one.
Framed ==
  /\ stack \in Seq(Frames) /\ stack # <<>>
  /\ \A i \in DOMAIN stack : stack[i].kind = "handler" <=> i = 1

\* The calls among frames, and the loops of a context, when there is one more.
LEMMA OneMoreFrame ==
  ASSUME NEW s \in Seq(Frames), NEW f \in Frames
  PROVE  LET t == Append(s, f)
             n == Len(s) + 1
         IN /\ \A i \in 1..Len(s) : CallsOf(t, i) = CallsOf(s, i)
            /\ CallsOf(t, n) = CallsOf(s, Len(s)) \cup (IF f.kind \in {"call", "inner"} THEN {n} ELSE {})
            /\ f.kind # "loop" => \A c : LoopsOf(t, c) = LoopsOf(s, c)
            /\ f.kind = "loop" => \A c : LoopsOf(t, c) =
                 LoopsOf(s, c) \cup (IF Depth(s) = c - 1 THEN {n} ELSE {})
  <1> DEFINE t == Append(s, f)
             n == Len(s) + 1
  <1>1. /\ t \in Seq(Frames) /\ Len(s) \in Nat /\ Len(t) = n /\ \A i \in 1..Len(s) : t[i] = s[i]
        /\ t[n] = f
    BY Grown
  <1>2. DOMAIN t = 1..n /\ DOMAIN s = 1..Len(s) /\ n \notin 1..Len(s) /\ 1..n = (1..Len(s)) \cup {n}
    BY <1>1
  <1>3. \A i \in 0..Len(s) : CallsOf(t, i) = CallsOf(s, i)
    BY <1>1 DEF CallsOf
  <1>4. CallsOf(t, n) = CallsOf(s, Len(s)) \cup (IF f.kind \in {"call", "inner"} THEN {n} ELSE {})
    BY <1>1, <1>2 DEF CallsOf
  <1>5. \A c : \A i \in 1..Len(s) : i \in LoopsOf(t, c) <=> i \in LoopsOf(s, c)
    BY <1>1, <1>2, <1>3 DEF LoopsOf
  <1>6. \A c : n \in LoopsOf(t, c) <=> f.kind = "loop" /\ Depth(s) = c - 1
    BY <1>1, <1>2, <1>4 DEF LoopsOf, Depth
  <1>7. \A c : LoopsOf(t, c) \subseteq 1..n /\ LoopsOf(s, c) \subseteq 1..Len(s)
    BY <1>2 DEF LoopsOf
  <1> HIDE DEF t, n
  <1>8. f.kind # "loop" => \A c : LoopsOf(t, c) = LoopsOf(s, c)
    <2>1. ASSUME f.kind # "loop", NEW c
          PROVE  LoopsOf(t, c) = LoopsOf(s, c)
      <3>1. PICK A, B : A = LoopsOf(t, c) /\ B = LoopsOf(s, c)
        OBVIOUS
      <3>2. A \subseteq 1..n /\ B \subseteq 1..Len(s) /\ n \notin A
        BY <1>6, <1>7, <2>1, <3>1
      <3>3. \A i \in 1..Len(s) : i \in A <=> i \in B
        BY <1>5, <3>1
      <3>4. A = B
        BY <1>2, <3>2, <3>3
      <3> QED BY <3>1, <3>4
    <2> QED BY <2>1, Zenon
  <1>9. f.kind = "loop" => \A c : LoopsOf(t, c) = LoopsOf(s, c) \cup (IF Depth(s) = c - 1 THEN {n} ELSE {})
    BY <1>2, <1>5, <1>6, <1>7
  <1> QED BY <1>1, <1>3, <1>4, <1>8, <1>9 DEF t, n

\* The sets are finite, and no frame is deeper than the last.
LEMMA DepthBounds ==
  ASSUME NEW s \in Seq(Frames)
  PROVE  /\ \A i \in 0..Len(s) : IsFiniteSet(CallsOf(s, i)) /\ Cardinality(CallsOf(s, i)) \in Nat
         /\ Depth(s) \in Nat
         /\ \A c : IsFiniteSet(LoopsOf(s, c)) /\ Cardinality(LoopsOf(s, c)) \in Nat
                   /\ LoopsOf(s, c) \subseteq 1..Len(s)
         /\ \A c \in Nat : c > Depth(s) + 1 => LoopsOf(s, c) = {}
  <1>1. Len(s) \in Nat /\ DOMAIN s = 1..Len(s) /\ \A i \in 0..Len(s) : IsFiniteSet(1..i)
    BY FS_Interval
  <1>2. \A i \in 0..Len(s) : IsFiniteSet(CallsOf(s, i)) /\ Cardinality(CallsOf(s, i)) \in Nat
    <2> TAKE i \in 0..Len(s)
    <2>1. IsFiniteSet(CallsOf(s, i))
      BY <1>1, FS_Subset DEF CallsOf
    <2> QED BY <2>1, FS_CardinalityType
  <1>3. Depth(s) \in Nat
    BY <1>1, <1>2 DEF Depth
  <1>4. \A c : IsFiniteSet(LoopsOf(s, c)) /\ Cardinality(LoopsOf(s, c)) \in Nat /\ LoopsOf(s, c) \subseteq 1..Len(s)
    <2> TAKE c
    <2>1. LoopsOf(s, c) \subseteq 1..Len(s)
      BY <1>1 DEF LoopsOf
    <2>2. IsFiniteSet(LoopsOf(s, c))
      BY <1>1, <2>1, FS_Subset
    <2> QED BY <2>1, <2>2, FS_CardinalityType
  <1>5. \A i \in 1..Len(s) : Cardinality(CallsOf(s, i)) <= Depth(s)
    <2> TAKE i \in 1..Len(s)
    <2>1. CallsOf(s, i) \subseteq CallsOf(s, Len(s)) /\ IsFiniteSet(CallsOf(s, Len(s)))
      BY <1>1, <1>2 DEF CallsOf
    <2> QED BY <2>1, FS_Subset DEF Depth
  <1>6. \A c \in Nat : c > Depth(s) + 1 => LoopsOf(s, c) = {}
    <2> SUFFICES ASSUME NEW c \in Nat, c > Depth(s) + 1, NEW i \in LoopsOf(s, c) PROVE FALSE
      OBVIOUS
    <2>1. i \in 1..Len(s) /\ Cardinality(CallsOf(s, i)) = c - 1
      BY <1>1 DEF LoopsOf
    <2> QED BY <1>3, <1>5, <2>1
  <1> QED BY <1>2, <1>3, <1>4, <1>6

\* One more frame is one more call, one more loop of the innermost context, or neither.
LEMMA OneMoreCounted ==
  ASSUME NEW s \in Seq(Frames), NEW f \in Frames
  PROVE  LET t == Append(s, f)
             m(c) == Cardinality(LoopsOf(s, c))
             k(c) == Cardinality(LoopsOf(t, c))
         IN /\ Depth(t) = IF f.kind \in {"call", "inner"} THEN Depth(s) + 1 ELSE Depth(s)
            /\ f.kind # "loop" => \A c : k(c) = m(c)
            /\ f.kind = "loop" => \A c \in Nat : k(c) = IF c = Depth(s) + 1 THEN m(c) + 1 ELSE m(c)
  <1> DEFINE t == Append(s, f)
             n == Len(s) + 1
  <1>1. /\ CallsOf(t, n) = CallsOf(s, Len(s)) \cup (IF f.kind \in {"call", "inner"} THEN {n} ELSE {})
        /\ f.kind # "loop" => \A c : LoopsOf(t, c) = LoopsOf(s, c)
        /\ f.kind = "loop" => \A c : LoopsOf(t, c) =
             LoopsOf(s, c) \cup (IF Depth(s) = c - 1 THEN {n} ELSE {})
    BY OneMoreFrame
  <1>2. Len(s) \in Nat /\ Len(t) = n /\ n \notin 1..Len(s)
    OBVIOUS
  <1>3. /\ IsFiniteSet(CallsOf(s, Len(s))) /\ Depth(s) \in Nat /\ n \notin CallsOf(s, Len(s))
        /\ \A c : IsFiniteSet(LoopsOf(s, c)) /\ n \notin LoopsOf(s, c)
    BY <1>2, DepthBounds DEF CallsOf
  <1>4. Depth(t) = IF f.kind \in {"call", "inner"} THEN Depth(s) + 1 ELSE Depth(s)
    <2>1. Cardinality(CallsOf(s, Len(s)) \cup {n}) = Cardinality(CallsOf(s, Len(s))) + 1
      BY <1>3, FS_AddElement
    <2> HIDE DEF t, n
    <2> QED BY <1>1, <1>2, <2>1 DEF Depth
  <1>5. ASSUME f.kind = "loop", NEW c \in Nat
        PROVE  Cardinality(LoopsOf(t, c)) = IF c = Depth(s) + 1 THEN Cardinality(LoopsOf(s, c)) + 1
                                            ELSE Cardinality(LoopsOf(s, c))
    <2>1. Cardinality(LoopsOf(s, c) \cup {n}) = Cardinality(LoopsOf(s, c)) + 1
      BY <1>3, FS_AddElement
    <2>2. Depth(s) = c - 1 <=> c = Depth(s) + 1
      BY <1>3
    <2> HIDE DEF t, n
    <2> QED BY <1>1, <1>5, <2>1, <2>2
  <1> QED BY <1>1, <1>4, <1>5

-----------------------------------------------------------------------------
(* What the steps do to frames and contexts.                               *)

\* Where a run that has not begun, or is over, is; and a loop that goes on.
Flow ==
  /\ status \in {"waiting", "refused", "started", "finished", "failed"}
  /\ pc \in {"steps", "step", "iterate", "returned", "body"}
  /\ result \in Results
  /\ at \in Nat /\ begun \in Nat
  /\ status \in {"waiting", "refused"} => pc = "steps"
  /\ status \in {"finished", "failed"} => pc = "body" /\ Top.kind = "handler"
  /\ pc = "iterate" => Top.kind = "loop"

\* The events of a context follow those of the contexts around it.
Logs ==
  /\ log \in Seq(Events)
  /\ \A i, j \in DOMAIN contexts : i <= j => contexts[i].base <= contexts[j].base
  /\ \A i \in DOMAIN contexts : contexts[i].base <= Len(log)

Kept == Framed /\ contexts \in Seq(Contexts) /\ Counts(stack, contexts) /\ Flow /\ Logs

Plain == {"block", "try", "catch"}
CallKinds == {"call", "inner"}

\* The innermost context counts on, or not.
Stays ==
  /\ stack' = stack
  /\ \/ contexts' = contexts
     \/ \E l \in Seq(Nat) : Len(l) = Len(Context.loops) /\ WithLoops(l)

\* A body is entered.
Pushes(kind) ==
  /\ stack' = Append(stack, Frame(kind, at))
  /\ kind \in Plain => contexts' = contexts
  /\ kind = "loop" => \E n \in Nat : WithLoops(Append(Context.loops, n))
  /\ kind = "call" => contexts' = Append(contexts, [base |-> Len(log'), loops |-> <<>>])

\* A body is left.
Pops ==
  /\ Top.kind # "handler" /\ stack' = Front(stack)
  /\ Top.kind \in Plain => contexts' = contexts
  /\ Top.kind = "loop" => WithLoops(Front(Context.loops))
  /\ Top.kind \in CallKinds => contexts' = Front(contexts)

\* Another body of the same step follows.
Swaps ==
  /\ \E kinds \in {<<"try", "catch">>, <<"call", "inner">>} :
       Top.kind = kinds[1] /\ stack' = Append(Front(stack), Frame(kinds[2], Top.step))
  /\ contexts' = contexts

\* The innermost frame and context.
LEMMA Innermost ==
  ASSUME Framed, contexts \in Seq(Contexts), Counts(stack, contexts)
  PROVE  /\ Top \in Frames /\ Top = stack[Len(stack)] /\ Top.step \in Nat /\ Top.kind \in Kinds
         /\ Len(stack) \in Nat \ {0}
         /\ Front(stack) \in Seq(Frames) /\ Len(Front(stack)) = Len(stack) - 1
         /\ \A i \in 1..(Len(stack) - 1) : Front(stack)[i] = stack[i]
         /\ stack = Append(Front(stack), Top)
         /\ Top.kind = "handler" <=> Len(stack) = 1
         /\ contexts # <<>> /\ Len(contexts) \in Nat \ {0}
         /\ Context = contexts[Len(contexts)] /\ Context \in Contexts
         /\ Context.loops \in Seq(Nat) /\ Context.base \in Nat
         /\ Top.kind = "loop" => Context.loops # <<>>
         /\ Top.kind \in CallKinds => Len(contexts) > 1
  <1>1. /\ stack \in Seq(Frames) /\ stack # <<>> /\ contexts \in Seq(Contexts)
        /\ \A i \in DOMAIN stack : stack[i].kind = "handler" <=> i = 1
    BY DEF Framed
  <1>2. /\ Top \in Frames /\ Top = stack[Len(stack)] /\ Len(stack) \in Nat \ {0}
        /\ Front(stack) \in Seq(Frames) /\ Len(Front(stack)) = Len(stack) - 1
        /\ \A i \in 1..(Len(stack) - 1) : Front(stack)[i] = stack[i]
        /\ stack = Append(Front(stack), Top)
    BY <1>1, Ends DEF Top
  <1>3. Top.step \in Nat /\ Top.kind \in Kinds
    BY <1>2 DEF Frames, Steps
  <1>4. Depth(stack) \in Nat /\ Len(contexts) = 1 + Depth(stack)
    BY <1>1, DepthBounds DEF Counts
  <1>5. contexts # <<>> /\ Len(contexts) \in Nat \ {0}
    <2>1. Len(contexts) \in Nat \ {0}
      BY <1>4
    <2>2. contexts # <<>>
      BY <2>1, EmptySeq
    <2> QED BY <2>1, <2>2
  <1>6. Context = contexts[Len(contexts)] /\ Context \in Contexts
    BY <1>5, Ends DEF Context
  <1>7. Context.loops \in Seq(Nat) /\ Context.base \in Nat
    BY <1>6 DEF Contexts
  <1>8. Top.kind = "handler" <=> Len(stack) = 1
    <2>1. Len(stack) \in DOMAIN stack
      BY <1>1, <1>2
    <2> QED BY <1>1, <1>2, <2>1
  <1>9. Top.kind = "loop" => Context.loops # <<>>
    <2> SUFFICES ASSUME Top.kind = "loop" PROVE Context.loops # <<>>
      OBVIOUS
    <2>1. PICK r \in Seq(Frames) : r = Front(stack) /\ stack = Append(r, Top)
      BY <1>2
    <2>2. Depth(Append(r, Top)) = Depth(r)
      BY <1>2, <2>1, OneMoreCounted
    <2>3. Cardinality(LoopsOf(Append(r, Top), Depth(r) + 1)) = Cardinality(LoopsOf(r, Depth(r) + 1)) + 1
      <3>1. Depth(r) + 1 \in Nat
        BY DepthBounds
      <3> QED BY <1>2, <3>1, OneMoreCounted
    <2>4. Cardinality(LoopsOf(r, Depth(r) + 1)) \in Nat /\ Depth(r) \in Nat
      BY DepthBounds
    <2>5. Len(Context.loops) = Cardinality(LoopsOf(stack, Len(contexts)))
      <3>1. Len(contexts) \in DOMAIN contexts
        BY <1>1, <1>5
      <3> QED BY <1>6, <3>1 DEF Counts
    <2>6. Depth(stack) = Depth(r)
      BY <2>1, <2>2, Zenon
    <2>7. Cardinality(LoopsOf(stack, Depth(r) + 1)) = Cardinality(LoopsOf(r, Depth(r) + 1)) + 1
      BY <2>1, <2>3, Zenon
    <2>8. Len(contexts) = Depth(r) + 1
      BY <1>4, <2>4, <2>6
    <2>9. Len(Context.loops) = Cardinality(LoopsOf(r, Depth(r) + 1)) + 1
      BY <2>5, <2>7, <2>8
    <2>10. Len(Context.loops) # 0
      BY <2>4, <2>9
    <2> QED BY <2>10
  <1>10. Top.kind \in CallKinds => Len(contexts) > 1
    <2> SUFFICES ASSUME Top.kind \in CallKinds PROVE Len(contexts) > 1
      OBVIOUS
    <2>1. PICK r \in Seq(Frames) : r = Front(stack) /\ stack = Append(r, Top)
      BY <1>2
    <2>2. Depth(Append(r, Top)) = Depth(r) + 1
      BY <1>2, <2>1, OneMoreCounted DEF CallKinds
    <2>3. Depth(r) \in Nat
      BY DepthBounds
    <2>4. Depth(stack) = Depth(r) + 1
      BY <2>1, <2>2, Zenon
    <2> QED BY <1>4, <2>3, <2>4
  <1> QED BY <1>2, <1>3, <1>5, <1>6, <1>7, <1>8, <1>9, <1>10

\* A frame more, and the contexts that go with it.
LEMMA PushCounts ==
  ASSUME NEW s \in Seq(Frames), NEW f \in Frames,
         NEW cs \in Seq(Contexts), NEW ds \in Seq(Contexts), Counts(s, cs),
         f.kind \in CallKinds =>
           /\ Len(ds) = Len(cs) + 1 /\ Len(ds[Len(ds)].loops) = 0
           /\ \A c \in 1..Len(cs) : Len(ds[c].loops) = Len(cs[c].loops),
         f.kind = "loop" =>
           /\ Len(ds) = Len(cs)
           /\ \A c \in 1..Len(cs) :
                Len(ds[c].loops) = IF c = Len(cs) THEN Len(cs[c].loops) + 1 ELSE Len(cs[c].loops),
         f.kind \notin CallKinds \cup {"loop"} =>
           /\ Len(ds) = Len(cs)
           /\ \A c \in 1..Len(cs) : Len(ds[c].loops) = Len(cs[c].loops)
  PROVE  Counts(Append(s, f), ds)
  <1>1. PICK t \in Seq(Frames) : t = Append(s, f)
    BY Grown
  <1>2. PICK n \in Nat : n = Depth(s)
    BY DepthBounds
  <1>3. /\ Len(cs) = 1 + n /\ DOMAIN cs = 1..Len(cs) /\ DOMAIN ds = 1..Len(ds)
        /\ \A c \in DOMAIN cs : Len(cs[c].loops) = Cardinality(LoopsOf(s, c))
    BY <1>2 DEF Counts
  <1>4. /\ Depth(t) = IF f.kind \in CallKinds THEN n + 1 ELSE n
        /\ f.kind # "loop" => \A c : Cardinality(LoopsOf(t, c)) = Cardinality(LoopsOf(s, c))
        /\ f.kind = "loop" => \A c \in Nat : Cardinality(LoopsOf(t, c)) =
             IF c = n + 1 THEN Cardinality(LoopsOf(s, c)) + 1 ELSE Cardinality(LoopsOf(s, c))
    BY <1>1, <1>2, OneMoreCounted DEF CallKinds
  <1>5. CASE f.kind \in CallKinds
    <2>1. Len(ds) = Len(cs) + 1 /\ Depth(t) = n + 1
      BY <1>4, <1>5
    <2>4. Len(ds) = n + 2
      BY <1>3, <2>1
    <2>2. Cardinality(LoopsOf(s, n + 2)) = 0
      <3>1. n + 2 \in Nat /\ n + 2 > n + 1
        OBVIOUS
      <3>2. LoopsOf(s, n + 2) = {}
        BY <1>2, <3>1, DepthBounds
      <3> QED BY <3>2, FS_EmptySet
    <2>3. ASSUME NEW c \in DOMAIN ds
          PROVE  Len(ds[c].loops) = Cardinality(LoopsOf(t, c))
      <3>1. Cardinality(LoopsOf(t, c)) = Cardinality(LoopsOf(s, c))
        BY <1>4, <1>5 DEF CallKinds
      <3>2. CASE c = n + 2
        BY <1>5, <2>4, <2>2, <3>1, <3>2
      <3>3. CASE c \in 1..Len(cs)
        BY <1>3, <1>5, <3>1, <3>3
      <3> QED BY <1>3, <2>4, <3>2, <3>3
    <2> QED BY <1>1, <2>1, <2>3, <2>4 DEF Counts
  <1>6. CASE f.kind = "loop"
    <2>1. Len(ds) = n + 1 /\ Depth(t) = n /\ Len(cs) = n + 1
      BY <1>3, <1>4, <1>6 DEF CallKinds
    <2>2. ASSUME NEW c \in DOMAIN ds
          PROVE  Len(ds[c].loops) = Cardinality(LoopsOf(t, c))
      <3>1. c \in 1..Len(cs) /\ c \in DOMAIN cs /\ c \in Nat
        BY <1>3, <2>1
      <3> QED BY <1>3, <1>4, <1>6, <2>1, <3>1
    <2> QED BY <1>1, <2>1, <2>2 DEF Counts
  <1>7. CASE f.kind \notin CallKinds \cup {"loop"}
    <2>3. Len(ds) = Len(cs) /\ Depth(t) = n
      BY <1>4, <1>7, Zenon
    <2>1. Len(ds) = n + 1 /\ Depth(t) = n /\ Len(cs) = n + 1
      BY <1>3, <2>3
    <2>2. ASSUME NEW c \in DOMAIN ds
          PROVE  Len(ds[c].loops) = Cardinality(LoopsOf(t, c))
      <3>1. c \in 1..Len(cs) /\ c \in DOMAIN cs
        BY <1>3, <2>1
      <3> QED BY <1>3, <1>4, <1>7, <3>1
    <2> QED BY <1>1, <2>1, <2>2 DEF Counts
  <1> QED BY <1>5, <1>6, <1>7

\* A frame less.
LEMMA PopCounts ==
  ASSUME NEW s \in Seq(Frames), NEW f \in Frames,
         NEW cs \in Seq(Contexts), NEW ds \in Seq(Contexts), Counts(Append(s, f), cs),
         f.kind \in CallKinds =>
           /\ Len(ds) = Len(cs) - 1
           /\ \A c \in 1..Len(ds) : Len(ds[c].loops) = Len(cs[c].loops),
         f.kind = "loop" =>
           /\ Len(ds) = Len(cs)
           /\ \A c \in 1..Len(cs) :
                Len(ds[c].loops) = IF c = Len(cs) THEN Len(cs[c].loops) - 1 ELSE Len(cs[c].loops),
         f.kind \notin CallKinds \cup {"loop"} =>
           /\ Len(ds) = Len(cs)
           /\ \A c \in 1..Len(cs) : Len(ds[c].loops) = Len(cs[c].loops)
  PROVE  Counts(s, ds)
  <1>1. PICK t \in Seq(Frames) : t = Append(s, f)
    BY Grown
  <1>2. PICK n \in Nat : n = Depth(s)
    BY DepthBounds
  <1>3. /\ Len(cs) = 1 + Depth(t) /\ DOMAIN cs = 1..Len(cs) /\ DOMAIN ds = 1..Len(ds)
        /\ \A c \in DOMAIN cs : Len(cs[c].loops) = Cardinality(LoopsOf(t, c))
    BY <1>1 DEF Counts
  <1>4. /\ Depth(t) = IF f.kind \in CallKinds THEN n + 1 ELSE n
        /\ f.kind # "loop" => \A c : Cardinality(LoopsOf(t, c)) = Cardinality(LoopsOf(s, c))
        /\ f.kind = "loop" => \A c \in Nat : Cardinality(LoopsOf(t, c)) =
             IF c = n + 1 THEN Cardinality(LoopsOf(s, c)) + 1 ELSE Cardinality(LoopsOf(s, c))
    BY <1>1, <1>2, OneMoreCounted DEF CallKinds
  <1>5. \A c : Cardinality(LoopsOf(s, c)) \in Nat
    BY DepthBounds
  <1>6. Len(ds) = 1 + n
    <2>1. CASE f.kind \in CallKinds
      <3>1. Len(ds) = Len(cs) - 1 /\ Depth(t) = n + 1
        BY <1>4, <2>1, Zenon
      <3> QED BY <1>3, <3>1
    <2>2. CASE f.kind \notin CallKinds
      <3>1. Len(ds) = Len(cs) /\ Depth(t) = n
        BY <1>4, <2>2, Zenon
      <3> QED BY <1>3, <3>1
    <2> QED BY <2>1, <2>2
  <1>7. ASSUME NEW c \in DOMAIN ds
        PROVE  Len(ds[c].loops) = Cardinality(LoopsOf(s, c))
    <2>1. c \in 1..Len(ds) /\ c \in 1..Len(cs) /\ c \in DOMAIN cs /\ c \in Nat
      BY <1>3, <1>4, <1>6
    <2>2. CASE f.kind = "loop"
      <3>1. Len(cs) = n + 1
        <4>1. f.kind \notin CallKinds
          BY <2>2 DEF CallKinds
        <4>2. Depth(t) = n
          BY <1>4, <4>1, Zenon
        <4>3. Len(cs) = 1 + n
          BY <1>3, <4>2, Zenon
        <4> QED BY <4>3
      <3>2. Cardinality(LoopsOf(t, c)) =
              IF c = n + 1 THEN Cardinality(LoopsOf(s, c)) + 1 ELSE Cardinality(LoopsOf(s, c))
        BY <1>4, <2>1, <2>2
      <3>3. Len(ds[c].loops) = IF c = Len(cs) THEN Len(cs[c].loops) - 1 ELSE Len(cs[c].loops)
        BY <2>1, <2>2, Zenon
      <3>4. Len(cs[c].loops) = Cardinality(LoopsOf(t, c)) /\ Cardinality(LoopsOf(s, c)) \in Nat
        BY <1>3, <1>5, <2>1
      <3> QED BY <3>1, <3>2, <3>3, <3>4
    <2>3. CASE f.kind # "loop"
      <3>1. Len(ds[c].loops) = Len(cs[c].loops)
        BY <2>1, <2>3
      <3> QED BY <1>3, <1>4, <2>1, <2>3, <3>1
    <2> QED BY <2>2, <2>3
  <1> QED BY <1>2, <1>6, <1>7 DEF Counts

\* A frame for another of the same kind.
LEMMA SwapCounts ==
  ASSUME NEW s \in Seq(Frames), NEW f \in Frames, NEW g \in Frames, NEW cs,
         Counts(Append(s, f), cs), f.kind # "loop", g.kind # "loop",
         f.kind \in CallKinds <=> g.kind \in CallKinds
  PROVE  Counts(Append(s, g), cs)
  <1>1. /\ Depth(Append(s, f)) = Depth(Append(s, g))
        /\ \A c : Cardinality(LoopsOf(Append(s, f), c)) = Cardinality(LoopsOf(Append(s, g), c))
    <2>1. /\ Depth(Append(s, f)) = IF f.kind \in {"call", "inner"} THEN Depth(s) + 1 ELSE Depth(s)
          /\ \A c : Cardinality(LoopsOf(Append(s, f), c)) = Cardinality(LoopsOf(s, c))
      BY OneMoreCounted
    <2>2. /\ Depth(Append(s, g)) = IF g.kind \in {"call", "inner"} THEN Depth(s) + 1 ELSE Depth(s)
          /\ \A c : Cardinality(LoopsOf(Append(s, g), c)) = Cardinality(LoopsOf(s, c))
      BY OneMoreCounted
    <2> QED BY <2>1, <2>2 DEF CallKinds
  <1> QED BY <1>1 DEF Counts

\* The loops of the innermost context change.
LEMMA Looped ==
  ASSUME contexts \in Seq(Contexts), contexts # <<>>, NEW l \in Seq(Nat), WithLoops(l)
  PROVE  /\ contexts' \in Seq(Contexts) /\ Len(contexts') = Len(contexts)
         /\ \A c \in 1..Len(contexts) :
              /\ contexts'[c].loops = IF c = Len(contexts) THEN l ELSE contexts[c].loops
              /\ contexts'[c].base = contexts[c].base
  <1>1. PICK n \in Nat \ {0} : n = Len(contexts)
    BY EmptySeq
  <1>2. contexts[n] \in Contexts /\ n \in DOMAIN contexts
    BY <1>1
  <1>3. PICK k \in Contexts : k = [contexts[n] EXCEPT !.loops = l] /\ k.loops = l /\ k.base = contexts[n].base
    <2>1. \A k \in Contexts : \A m \in Seq(Nat) :
            [k EXCEPT !.loops = m] \in Contexts /\ [k EXCEPT !.loops = m].loops = m
            /\ [k EXCEPT !.loops = m].base = k.base
      BY DEF Contexts
    <2> QED BY <1>2, <2>1
  <1>4. contexts' = [contexts EXCEPT ![n] = k]
    BY <1>1, <1>3 DEF WithLoops
  <1>5. contexts' \in Seq(Contexts) /\ Len(contexts') = n
    BY <1>1, <1>2, <1>4, ExceptSeq
  <1>6. \A c \in 1..n : contexts'[c] = IF c = n THEN k ELSE contexts[c]
    BY <1>1, <1>2, <1>4
  <1> QED BY <1>1, <1>3, <1>5, <1>6

\* The frames stay framed, and the contexts' counts stay true.
LEMMA FramesStay ==
  ASSUME Framed, contexts \in Seq(Contexts), Counts(stack, contexts), at \in Nat,
         Stays \/ (\E kind \in {"block", "try", "loop", "call"} : Pushes(kind)) \/ Pops \/ Swaps,
         Len(log') \in Nat
  PROVE  Framed' /\ contexts' \in Seq(Contexts) /\ Counts(stack', contexts')
  <1>1. /\ Top \in Frames /\ Top = stack[Len(stack)] /\ Top.step \in Nat /\ Top.kind \in Kinds
        /\ Len(stack) \in Nat \ {0}
        /\ Front(stack) \in Seq(Frames) /\ Len(Front(stack)) = Len(stack) - 1
        /\ \A i \in 1..(Len(stack) - 1) : Front(stack)[i] = stack[i]
        /\ stack = Append(Front(stack), Top)
        /\ Top.kind = "handler" <=> Len(stack) = 1
        /\ contexts # <<>> /\ Len(contexts) \in Nat \ {0}
        /\ Context.loops \in Seq(Nat) /\ Context = contexts[Len(contexts)]
        /\ Top.kind = "loop" => Context.loops # <<>>
        /\ Top.kind \in CallKinds => Len(contexts) > 1
    BY Innermost
  <1>2. stack \in Seq(Frames) /\ stack # <<>> /\ \A i \in DOMAIN stack : stack[i].kind = "handler" <=> i = 1
    BY DEF Framed
  <1>3. CASE Stays
    <2>1. stack' = stack /\ Framed'
      BY <1>3 DEF Stays, Framed
    <2>2. CASE contexts' = contexts
      BY <2>1, <2>2
    <2>3. ASSUME NEW l \in Seq(Nat), Len(l) = Len(Context.loops), WithLoops(l)
          PROVE  contexts' \in Seq(Contexts) /\ Counts(stack', contexts')
      <3>1. /\ contexts' \in Seq(Contexts) /\ Len(contexts') = Len(contexts)
            /\ \A c \in 1..Len(contexts) :
                 contexts'[c].loops = IF c = Len(contexts) THEN l ELSE contexts[c].loops
        BY <1>1, <2>3, Looped
      <3>2. \A c \in 1..Len(contexts) : Len(contexts'[c].loops) = Len(contexts[c].loops)
        BY <1>1, <2>3, <3>1
      <3>3. DOMAIN contexts' = 1..Len(contexts) /\ DOMAIN contexts = 1..Len(contexts)
        BY <3>1
      <3> QED BY <2>1, <3>1, <3>2, <3>3 DEF Counts
    <2> QED BY <1>3, <2>1, <2>2, <2>3 DEF Stays
  <1>4. ASSUME NEW kind \in {"block", "try", "loop", "call"}, Pushes(kind)
        PROVE  Framed' /\ contexts' \in Seq(Contexts) /\ Counts(stack', contexts')
    <2>1. PICK f \in Frames : f = Frame(kind, at) /\ f.kind = kind
      <3>1. Frame(kind, at) \in Frames
        BY DEF Frame, Frames, Kinds, Steps
      <3>2. Frame(kind, at).kind = kind
        BY DEF Frame
      <3> QED BY <3>1, <3>2
    <2>2. stack' = Append(stack, f)
      BY <1>4, <2>1 DEF Pushes
    <2>3. Framed'
      <3>1. /\ stack' \in Seq(Frames) /\ Len(stack') = Len(stack) + 1 /\ stack' # <<>>
            /\ \A i \in 1..Len(stack) : stack'[i] = stack[i]
            /\ stack'[Len(stack) + 1] = f
        BY <1>2, <2>2, Grown
      <3>2. \A i \in DOMAIN stack' : i \in DOMAIN stack \/ i = Len(stack) + 1
        BY <1>1, <1>2, <3>1
      <3>3. Len(stack) + 1 # 1
        BY <1>1
      <3> QED BY <1>2, <2>1, <3>1, <3>2, <3>3 DEF Framed
    <2>4. CASE kind \in {"block", "try"}
      <3>1. contexts' = contexts
        BY <1>4, <2>4 DEF Pushes, Plain
      <3>2. f.kind \notin CallKinds \cup {"loop"} /\ f.kind # "loop" /\ f.kind \notin CallKinds
        BY <2>1, <2>4 DEF CallKinds
      <3>3. Counts(Append(stack, f), contexts)
        BY <1>2, <3>2, PushCounts
      <3> QED BY <2>2, <2>3, <3>1, <3>3
    <2>5. CASE kind = "loop"
      <3>1. PICK n \in Nat : WithLoops(Append(Context.loops, n))
        BY <1>4, <2>5 DEF Pushes
      <3>2. PICK l \in Seq(Nat) : l = Append(Context.loops, n) /\ Len(l) = Len(Context.loops) + 1
        <4>1. /\ Append(Context.loops, n) \in Seq(Nat)
              /\ Len(Append(Context.loops, n)) = Len(Context.loops) + 1
          BY <1>1, Grown
        <4> QED BY <4>1
      <3>3. /\ contexts' \in Seq(Contexts) /\ Len(contexts') = Len(contexts)
            /\ \A c \in 1..Len(contexts) :
                 contexts'[c].loops = IF c = Len(contexts) THEN l ELSE contexts[c].loops
        BY <1>1, <3>1, <3>2, Looped
      <3>4. \A c \in 1..Len(contexts) : Len(contexts'[c].loops) =
              IF c = Len(contexts) THEN Len(contexts[c].loops) + 1 ELSE Len(contexts[c].loops)
        BY <1>1, <3>2, <3>3
      <3>5. f.kind = "loop" /\ f.kind \notin CallKinds
        BY <2>1, <2>5 DEF CallKinds
      <3>6. PICK ds \in Seq(Contexts) : ds = contexts'
        BY <3>3
      <3>7. Counts(Append(stack, f), ds)
        BY <1>2, <3>3, <3>4, <3>5, <3>6, PushCounts
      <3> QED BY <2>2, <2>3, <3>6, <3>7
    <2>6. CASE kind = "call"
      <3>1. PICK k \in Contexts : k = [base |-> Len(log'), loops |-> <<>>] /\ Len(k.loops) = 0
        <4>1. PICK b \in Nat : b = Len(log')
          OBVIOUS
        <4>2. PICK l \in Seq(Nat) : l = <<>> /\ Len(l) = 0
          <5>1. <<>> \in Seq(Nat) /\ Len(<<>>) = 0
            OBVIOUS
          <5> QED BY <5>1
        <4>3. [base |-> b, loops |-> l] \in Contexts /\ [base |-> b, loops |-> l].loops = l
          BY DEF Contexts
        <4> QED BY <4>1, <4>2, <4>3
      <3>2. contexts' = Append(contexts, k)
        BY <1>4, <2>6, <3>1 DEF Pushes
      <3>3. PICK ds \in Seq(Contexts) :
              /\ ds = contexts' /\ Len(ds) = Len(contexts) + 1 /\ ds[Len(contexts) + 1] = k
              /\ \A c \in 1..Len(contexts) : ds[c] = contexts[c]
        BY <3>2, Grown
      <3>4. f.kind \in CallKinds /\ f.kind # "loop"
        BY <2>1, <2>6 DEF CallKinds
      <3>5. Len(ds[Len(ds)].loops) = 0 /\ \A c \in 1..Len(contexts) : Len(ds[c].loops) = Len(contexts[c].loops)
        BY <3>1, <3>3
      <3>6. Counts(Append(stack, f), ds)
        <4>1. PICK cs \in Seq(Contexts) : cs = contexts
          OBVIOUS
        <4>2. PICK s \in Seq(Frames) : s = stack
          BY <1>2
        <4>3. /\ Counts(s, cs) /\ Len(ds) = Len(cs) + 1 /\ Len(ds[Len(ds)].loops) = 0
              /\ \A c \in 1..Len(cs) : Len(ds[c].loops) = Len(cs[c].loops)
          BY <3>3, <3>5, <4>1, <4>2
        <4>4. Counts(Append(s, f), ds)
          BY <3>4, <4>3, PushCounts
        <4> QED BY <4>2, <4>4
      <3> QED BY <2>2, <2>3, <3>3, <3>6
    <2> QED BY <2>4, <2>5, <2>6
  <1>5. ASSUME Top.kind # "handler"
        PROVE  /\ \A s : s = Front(stack) => s # <<>> /\ \A i \in DOMAIN s : s[i].kind = "handler" <=> i = 1
               /\ Len(stack) > 1
    <2>1. Len(stack) > 1
      BY <1>1, <1>5
    <2>2. PICK s \in Seq(Frames) : s = Front(stack) /\ Len(s) = Len(stack) - 1
                                   /\ \A i \in 1..(Len(stack) - 1) : s[i] = stack[i]
      BY <1>1
    <2>3. \A i \in DOMAIN s : i \in DOMAIN stack /\ s[i] = stack[i]
      <3>1. PICK n \in Nat \ {0} : n = Len(stack) /\ DOMAIN stack = 1..n
        BY <1>1, <1>2
      <3>2. DOMAIN s = 1..(n - 1) /\ \A i \in 1..(n - 1) : s[i] = stack[i] /\ i \in 1..n
        BY <2>2, <3>1
      <3> QED BY <3>1, <3>2, Zenon
    <2>4. s # <<>>
      BY <1>1, <2>1, <2>2
    <2> QED BY <1>2, <2>1, <2>2, <2>3, <2>4
  <1>6. CASE Pops
    <2>1. Top.kind # "handler" /\ stack' = Front(stack)
      BY <1>6 DEF Pops
    <2>2. Framed'
      BY <1>1, <1>5, <2>1 DEF Framed
    <2>3. PICK s \in Seq(Frames) : s = Front(stack) /\ Counts(Append(s, Top), contexts)
      BY <1>1
    <2>4. CASE Top.kind \in Plain
      <3>1. contexts' = contexts /\ Top.kind # "loop" /\ Top.kind \notin CallKinds
        BY <1>6, <2>4 DEF Pops, Plain, CallKinds
      <3>2. Counts(s, contexts)
        BY <1>1, <2>3, <3>1, PopCounts
      <3> QED BY <2>1, <2>2, <2>3, <3>1, <3>2
    <2>5. CASE Top.kind = "loop"
      <3>1. WithLoops(Front(Context.loops)) /\ Top.kind \notin CallKinds
        BY <1>6, <2>5 DEF Pops, CallKinds
      <3>2. PICK l \in Seq(Nat) : l = Front(Context.loops) /\ Len(l) = Len(Context.loops) - 1
        BY <1>1, <2>5, Ends
      <3>3. /\ contexts' \in Seq(Contexts) /\ Len(contexts') = Len(contexts)
            /\ \A c \in 1..Len(contexts) :
                 contexts'[c].loops = IF c = Len(contexts) THEN l ELSE contexts[c].loops
        BY <1>1, <3>1, <3>2, Looped
      <3>4. \A c \in 1..Len(contexts) : Len(contexts'[c].loops) =
              IF c = Len(contexts) THEN Len(contexts[c].loops) - 1 ELSE Len(contexts[c].loops)
        BY <1>1, <3>2, <3>3
      <3>5. PICK ds \in Seq(Contexts) : ds = contexts'
        BY <3>3
      <3>6. Counts(s, ds)
        BY <1>1, <2>3, <2>5, <3>1, <3>3, <3>4, <3>5, PopCounts
      <3> QED BY <2>1, <2>2, <2>3, <3>5, <3>6
    <2>6. CASE Top.kind \in CallKinds
      <3>1. contexts' = Front(contexts) /\ Top.kind # "loop"
        BY <1>6, <2>6 DEF Pops, CallKinds
      <3>2. PICK ds \in Seq(Contexts) :
              /\ ds = contexts' /\ Len(ds) = Len(contexts) - 1
              /\ \A c \in 1..(Len(contexts) - 1) : ds[c] = contexts[c]
        <4>1. /\ Front(contexts) \in Seq(Contexts) /\ Len(Front(contexts)) = Len(contexts) - 1
              /\ \A c \in 1..(Len(contexts) - 1) : Front(contexts)[c] = contexts[c]
          BY <1>1, Ends
        <4> QED BY <3>1, <4>1
      <3>3. \A c \in 1..Len(ds) : Len(ds[c].loops) = Len(contexts[c].loops)
        BY <3>2
      <3>4. Counts(s, ds)
        BY <1>1, <2>3, <2>6, <3>1, <3>2, <3>3, PopCounts
      <3> QED BY <2>1, <2>2, <2>3, <3>2, <3>4
    <2> QED BY <1>1, <2>1, <2>4, <2>5, <2>6 DEF Kinds, Plain, CallKinds
  <1>7. CASE Swaps
    <2>1. PICK kinds \in {<<"try", "catch">>, <<"call", "inner">>} :
            Top.kind = kinds[1] /\ stack' = Append(Front(stack), Frame(kinds[2], Top.step))
      BY <1>7 DEF Swaps
    <2>2. PICK g \in Frames : g = Frame(kinds[2], Top.step) /\ g.kind = kinds[2]
      BY <1>1, <2>1 DEF Frame, Frames, Kinds, Steps
    <2>3. PICK s \in Seq(Frames) : s = Front(stack) /\ Counts(Append(s, Top), contexts) /\ Len(s) = Len(stack) - 1
      BY <1>1
    <2>4. /\ Top.kind # "handler" /\ Top.kind # "loop" /\ g.kind # "loop" /\ g.kind # "handler"
          /\ Top.kind \in CallKinds <=> g.kind \in CallKinds
      BY <2>1, <2>2 DEF CallKinds
    <2>5. Counts(Append(s, g), contexts)
      BY <1>1, <2>3, <2>4, SwapCounts
    <2>6. Framed'
      <3>1. /\ stack' \in Seq(Frames) /\ Len(stack') = Len(s) + 1 /\ stack' # <<>>
            /\ \A i \in 1..Len(s) : stack'[i] = s[i]
            /\ stack'[Len(s) + 1] = g
        BY <2>1, <2>2, <2>3, Grown
      <3>2. \A i \in DOMAIN stack' : i \in DOMAIN s \/ i = Len(s) + 1
        BY <2>3, <3>1
      <3>3. Len(s) + 1 # 1 /\ \A i \in DOMAIN s : i \in 1..Len(s) /\ (s[i].kind = "handler" <=> i = 1)
        BY <1>1, <1>5, <2>3, <2>4
      <3>4. 1 \in DOMAIN s
        BY <1>1, <1>5, <2>3, <2>4
      <3> QED BY <2>4, <3>1, <3>2, <3>3, <3>4 DEF Framed
    <2>7. contexts' = contexts
      BY <1>7 DEF Swaps
    <2> QED BY <2>1, <2>2, <2>3, <2>5, <2>6, <2>7
  <1> QED BY <1>3, <1>4, <1>6, <1>7

-----------------------------------------------------------------------------
(* What the steps do to the log.                                           *)

LogGrows ==
  /\ log' \in Seq(Events) /\ Len(log') >= Len(log)
  /\ \A i \in 1..Len(log) : log'[i] = log[i]

\* The events of the innermost context are lost.
LogLoses ==
  /\ Pops /\ Top.kind = "inner"
  /\ log' = SubSeq(log, 1, Context.base) /\ cut' # {}

Logging == (LogGrows /\ cut' = cut) \/ LogLoses

Moving ==
  Stays \/ (\E kind \in {"block", "try", "loop", "call"} : Pushes(kind)) \/ Pops \/ Swaps

\* What is recorded comes after what was.
LEMMA Recorded ==
  ASSUME log \in Seq(Events), NEW events \in Seq(Events), Record(events)
  PROVE  LogGrows /\ log' = log \o events
  <1>1. log' = log \o events
    BY DEF Record
  <1>2. PICK n, k \in Nat : n = Len(log) /\ k = Len(events)
    OBVIOUS
  <1>3. /\ log \o events \in Seq(Events) /\ Len(log \o events) = n + k
        /\ \A i \in 1..n : (log \o events)[i] = log[i]
    BY <1>2
  <1> QED BY <1>1, <1>2, <1>3 DEF LogGrows

\* So do events that are recorded within the limit only.
LEMMA VerboseRecorded ==
  ASSUME log \in Seq(Events), NEW events \in Seq(Events), NEW loops,
         Record(Verbose(events, loops))
  PROVE  LogGrows
  <1>1. Verbose(events, loops) \in Seq(Events)
    BY DEF Verbose
  <1> QED BY <1>1, Recorded

\* One event, or none.
LEMMA Noted ==
  ASSUME log \in Seq(Events), NEW step \in Nat,
         NEW type \in {"started", "finished", "error", "noted", "enter", "leave"},
         Note(type, step) \/ UNCHANGED logs
  PROVE  LogGrows
  <1>1. Event(type, step) \in Events
    BY DEF Event, Events, Steps
  <1>2. <<Event(type, step)>> \in Seq(Events)
    BY <1>1
  <1>3. CASE Note(type, step)
    BY <1>2, <1>3, VerboseRecorded DEF Note
  <1>4. CASE UNCHANGED logs
    BY <1>4 DEF logs, LogGrows
  <1> QED BY <1>3, <1>4

\* A run that has begun and goes on.
LEMMA GoesOn ==
  ASSUME status' = "started", pc' \in {"steps", "step", "iterate", "returned", "body"},
         result' \in Results, at' \in Nat, begun' \in Nat,
         pc' = "iterate" => Last(stack').kind = "loop"
  PROVE  Flow'
  BY DEF Flow, Top

-----------------------------------------------------------------------------
(* The steps, one by one.                                                  *)

\* Actor::execute_function, before and after the run.
LEMMA ActorMoves ==
  ASSUME Kept, Refuse \/ Start \/ Finish \/ UNCHANGED vars
  PROVE  Moving /\ Logging /\ Flow'
  <1>1. log \in Seq(Events) /\ Flow
    BY DEF Kept, Logs
  <1>2. CASE Refuse
    BY <1>1, <1>2 DEF Refuse, Moving, Stays, Logging, LogGrows, Flow, Top
  <1>3. CASE Start
    BY <1>1, <1>3 DEF Start, Moving, Stays, Logging, LogGrows, Flow, Top
  <1>4. CASE Finish
    BY <1>1, <1>4 DEF Finish, Moving, Stays, Logging, LogGrows, Flow, Top
  <1>5. CASE UNCHANGED vars
    BY <1>1, <1>5 DEF vars, Moving, Stays, Logging, LogGrows, Flow, Top
  <1> QED BY <1>2, <1>3, <1>4, <1>5

\* execute_steps, and the steps that have no steps of their own.
LEMMA StepMoves ==
  ASSUME Kept, BeginStep \/ EndSteps \/ FinishStep \/ Pass \/ Store \/ Jump \/ Fail
  PROVE  Moving /\ Logging /\ Flow'
  <1>1. log \in Seq(Events) /\ Flow /\ at \in Nat /\ begun \in Nat /\ result \in Results
    BY DEF Kept, Logs, Flow
  <1>2. stack' = stack /\ contexts' = contexts /\ cut' = cut
    BY DEF BeginStep, EndSteps, FinishStep, Pass, Store, Jump, Fail
  <1>3. LogGrows
    <2>1. CASE BeginStep
      BY <1>1, <2>1, Noted DEF BeginStep
    <2>2. CASE FinishStep
      <3>1. /\ <<Event("error", at)>> \in Seq(Events) /\ <<Event("finished", at)>> \in Seq(Events)
        <4>1. Event("error", at) \in Events /\ Event("finished", at) \in Events
          BY <1>1 DEF Event, Events, Steps
        <4> QED BY <4>1
      <3>2. Verbose(<<Event("finished", at)>>, Context.loops) \in Seq(Events)
        BY <3>1 DEF Verbose
      <3>3. (IF result = "error" THEN <<Event("error", at)>> ELSE <<>>) \in Seq(Events)
        BY <3>1
      <3>4. (IF result = "error" THEN <<Event("error", at)>> ELSE <<>>)
              \o Verbose(<<Event("finished", at)>>, Context.loops) \in Seq(Events)
        BY <3>2, <3>3
      <3> QED BY <1>1, <2>2, <3>4, Recorded DEF FinishStep
    <2>3. CASE Store
      BY <1>1, <2>3, Noted DEF Store
    <2>4. CASE Fail
      BY <1>1, <2>4, Noted DEF Fail, MayNote
    <2>5. CASE EndSteps \/ Pass \/ Jump
      BY <1>1, <2>5 DEF EndSteps, Pass, Jump, logs, LogGrows
    <2> QED BY <2>1, <2>2, <2>3, <2>4, <2>5
  <1>4. Flow'
    <2>1. status = "started"
      BY <1>1 DEF Flow, BeginStep, EndSteps, FinishStep, Pass, Store, Jump, Fail
    <2>2. status' = status
      BY DEF BeginStep, EndSteps, FinishStep, Pass, Store, Jump, Fail, running, StoresInto
    <2>3. pc' \in {"steps", "step", "returned", "body"} /\ result' \in Results
      BY <1>1 DEF BeginStep, EndSteps, FinishStep, Pass, Store, Jump, Fail, Returns, Raises, Goes,
                  Results
    <2>4. at' \in Nat /\ begun' \in Nat
      BY <1>1 DEF BeginStep, EndSteps, FinishStep, Pass, Store, Jump, Fail
    <2> QED BY <2>1, <2>2, <2>3, <2>4, GoesOn
  <1> QED BY <1>2, <1>3, <1>4 DEF Moving, Stays, Logging

\* A body is entered by a step, in any of the ways there are.
LEMMA Entering ==
  ASSUME Kept, pc = "step", NEW kind \in {"block", "try", "loop", "call"}, NEW to \in {"steps", "iterate"},
         to = "iterate" => kind = "loop", Enters(kind, to), UNCHANGED <<running, at, begun>>
  PROVE  stack' = Append(stack, Frame(kind, at)) /\ Flow'
  <1>1. Flow /\ at \in Nat /\ begun \in Nat /\ stack \in Seq(Frames)
    BY DEF Kept, Flow, Framed
  <1>2. stack' = Append(stack, Frame(kind, at)) /\ pc' = to /\ result' = "ok"
    BY DEF Enters, Goes
  <1>3. Last(stack').kind = kind
    <2>1. PICK f \in Frames : f = Frame(kind, at) /\ f.kind = kind
      <3>1. Frame(kind, at) \in Frames
        BY <1>1 DEF Frame, Frames, Kinds, Steps
      <3>2. Frame(kind, at).kind = kind
        BY DEF Frame
      <3> QED BY <3>1, <3>2
    <2>2. Last(Append(stack, f)) = f
      BY <1>1, Grown
    <2> QED BY <1>2, <2>1, <2>2
  <1>4. status = "started" /\ status' = status
    BY <1>1 DEF Flow, running
  <1>5. Flow'
    BY <1>1, <1>2, <1>3, <1>4, GoesOn DEF Results
  <1> QED BY <1>2, <1>5

\* If, ForEach, While, Try and calls.
LEMMA EnteringMoves ==
  ASSUME Kept, Branch \/ EnterLoop \/ EnterTry \/ EnterCall
  PROVE  Moving /\ Logging /\ Flow'
  <1>1. log \in Seq(Events) /\ at \in Nat
    BY DEF Kept, Logs, Flow
  <1>2. CASE Branch
    <2>1. pc = "step" /\ Enters("block", "steps") /\ UNCHANGED <<running, at, begun>>
          /\ contexts' = contexts /\ cut' = cut /\ MayNote(at)
      BY <1>2 DEF Branch
    <2>2. stack' = Append(stack, Frame("block", at)) /\ Flow'
      BY <2>1, Entering
    <2>3. LogGrows
      BY <1>1, <2>1, Noted DEF MayNote
    <2> QED BY <2>1, <2>2, <2>3 DEF Moving, Pushes, Logging
  <1>3. CASE EnterTry
    <2>1. pc = "step" /\ Enters("try", "steps") /\ UNCHANGED <<running, at, begun>>
          /\ contexts' = contexts /\ cut' = cut /\ UNCHANGED logs
      BY <1>3 DEF EnterTry
    <2>2. stack' = Append(stack, Frame("try", at)) /\ Flow'
      BY <2>1, Entering
    <2>3. LogGrows
      BY <1>1, <2>1 DEF logs, LogGrows
    <2> QED BY <2>1, <2>2, <2>3 DEF Moving, Pushes, Logging
  <1>4. CASE EnterLoop
    <2>1. pc = "step" /\ Enters("loop", "iterate") /\ UNCHANGED <<running, at, begun>>
          /\ cut' = cut /\ UNCHANGED logs
      BY <1>4 DEF EnterLoop
    <2>2. stack' = Append(stack, Frame("loop", at)) /\ Flow'
      BY <2>1, Entering
    <2>3. LogGrows
      BY <1>1, <2>1 DEF logs, LogGrows
    <2>4. \E n \in Nat : WithLoops(Append(Context.loops, n))
      <3>1. Context.loops \in Seq(Nat)
        BY Innermost DEF Kept
      <3>2. PICK used \in Nat : used = IF Context.loops = <<>> THEN 0 ELSE Last(Context.loops)
        <4>1. Context.loops # <<>> => Last(Context.loops) \in Nat
          BY <3>1, Ends
        <4>2. (IF Context.loops = <<>> THEN 0 ELSE Last(Context.loops)) \in Nat
          BY <4>1
        <4> QED BY <4>2
      <3>3. used \div LoopShare \in Nat
        BY ExecutorAssumption
      <3>4. WithLoops(Append(Context.loops, used \div LoopShare))
        BY <1>4, <3>2 DEF EnterLoop
      <3> QED BY <3>3, <3>4
    <2> QED BY <2>1, <2>2, <2>3, <2>4 DEF Moving, Pushes, Logging, Plain
  <1>5. CASE EnterCall
    <2>1. pc = "step" /\ Enters("call", "steps") /\ UNCHANGED <<running, at, begun>>
          /\ cut' = cut /\ Note("enter", at)
          /\ contexts' = Append(contexts, [base |-> Len(log'), loops |-> <<>>])
      BY <1>5 DEF EnterCall
    <2>2. stack' = Append(stack, Frame("call", at)) /\ Flow'
      BY <2>1, Entering
    <2>3. LogGrows
      BY <1>1, <2>1, Noted
    <2> QED BY <2>1, <2>2, <2>3 DEF Moving, Pushes, Logging, Plain
  <1> QED BY <1>2, <1>3, <1>4, <1>5

\* A body is left.
LEMMA Leaving ==
  ASSUME Kept, pc = "iterate" \/ (pc = "body" /\ Top.kind # "handler"),
         NEW outcome \in Results, Leaves(outcome), UNCHANGED <<status, begun>>
  PROVE  /\ Top.kind # "handler" /\ stack' = Front(stack) /\ Flow'
         /\ at' = Top.step /\ pc' = "returned" /\ result' = outcome
  <1>1. Flow /\ begun \in Nat /\ Top.step \in Nat
    BY Innermost DEF Kept, Flow
  <1>2. stack' = Front(stack) /\ at' = Top.step /\ pc' = "returned" /\ result' = outcome
    BY DEF Leaves, Returns
  <1>3. Top.kind # "handler" /\ status' = "started"
    BY <1>1 DEF Flow
  <1>4. Flow'
    BY <1>1, <1>2, <1>3, GoesOn
  <1> QED BY <1>2, <1>3, <1>4

\* The ways out of a loop.
LEMMA LoopMoves ==
  ASSUME Kept, EndLoop \/ FailLoop \/ BreakLoop \/ AbortLoop
  PROVE  Moving /\ Logging /\ Flow'
  <1>1. log \in Seq(Events) /\ Flow
    BY DEF Kept, Logs
  <1>2. /\ pc = "iterate" \/ pc = "body"
        /\ Top.kind = "loop" /\ UNCHANGED <<status, begun>> /\ UNCHANGED logs /\ cut' = cut
    BY <1>1 DEF Flow, EndLoop, FailLoop, BreakLoop, AbortLoop, running
  <1>3. PICK outcome \in Results : LeavesLoop(outcome)
    BY DEF EndLoop, FailLoop, BreakLoop, AbortLoop, Results
  <1>4. Leaves(outcome) /\ WithLoops(Front(Context.loops))
    BY <1>3 DEF LeavesLoop
  <1>5. stack' = Front(stack) /\ Flow'
    BY <1>2, <1>4, Leaving
  <1>6. LogGrows
    BY <1>1, <1>2 DEF logs, LogGrows
  <1> QED BY <1>2, <1>4, <1>5, <1>6 DEF Moving, Pops, Plain, CallKinds, Logging

\* Its iterations, and those of get_elements.
LEMMA IterationMoves ==
  ASSUME Kept, NextElement \/ NextIteration \/ AgainLoop
  PROVE  Moving /\ Logging /\ Flow'
  <1>1. log \in Seq(Events) /\ Flow /\ at \in Nat /\ begun \in Nat
    BY DEF Kept, Logs, Flow
  <1>2. stack' = stack /\ at' = at /\ begun' = begun /\ cut' = cut
    BY DEF NextElement, NextIteration, AgainLoop
  <1>3. status = "started" /\ status' = status
    BY <1>1 DEF Flow, NextElement, NextIteration, AgainLoop, Iterate, StoresInto, running
  <1>4. Flow'
    <2>1. result' = "ok" /\ pc' \in {"steps", "iterate"} /\ (pc' = "iterate" => Top.kind = "loop")
      BY DEF NextElement, NextIteration, AgainLoop, Iterate, Goes
    <2> QED BY <1>1, <1>2, <1>3, <2>1, GoesOn DEF Results, Top
  <1>5. CASE NextElement \/ AgainLoop
    <2>1. contexts' = contexts /\ LogGrows
      BY <1>1, <1>5 DEF NextElement, AgainLoop, logs, LogGrows
    <2> QED BY <1>2, <1>4, <2>1 DEF Moving, Stays, Logging
  <1>6. CASE NextIteration
    <2>1. Context.loops \in Seq(Nat) /\ Context.loops # <<>> /\ Top.step \in Nat
      <3>1. Top.kind = "loop"
        BY <1>1, <1>6 DEF Flow, NextIteration
      <3> QED BY <3>1, Innermost DEF Kept
    <2>2. PICK n : n = IF Last(Context.loops) < LoopLimit
                       THEN Last(Context.loops) + 1 ELSE Last(Context.loops)
      OBVIOUS
    <2>3. n \in Nat
      <3>1. Last(Context.loops) \in Nat
        BY <2>1, Ends
      <3> QED BY <2>2, <3>1
    <2>4. PICK l \in Seq(Nat) : l = Append(Front(Context.loops), n) /\ Len(l) = Len(Context.loops)
      <3>1. Front(Context.loops) \in Seq(Nat) /\ Len(Front(Context.loops)) = Len(Context.loops) - 1
            /\ Len(Context.loops) \in Nat
        BY <2>1, Ends
      <3>2. /\ Append(Front(Context.loops), n) \in Seq(Nat)
            /\ Len(Append(Front(Context.loops), n)) = Len(Front(Context.loops)) + 1
        BY <2>3, <3>1, Grown
      <3>3. Len(Append(Front(Context.loops), n)) = Len(Context.loops)
        BY <3>1, <3>2
      <3> QED BY <3>2, <3>3
    <2>5. Iterate(l)
      BY <1>6, <2>2, <2>4 DEF NextIteration
    <2>6. WithLoops(l)
      BY <2>5 DEF Iterate
    <2>7. LogGrows
      <3>1. Event("noted", Top.step) \in Events
        BY <2>1 DEF Event, Events, Steps
      <3>2. <<Event("noted", Top.step)>> \in Seq(Events)
        BY <3>1
      <3>3. CASE UNCHANGED logs
        BY <1>1, <3>3 DEF logs, LogGrows
      <3>4. CASE Record(Verbose(<<Event("noted", Top.step)>>, l))
        BY <1>1, <3>2, <3>4, VerboseRecorded
      <3> QED BY <2>5, <3>3, <3>4 DEF Iterate
    <2> QED BY <1>2, <1>4, <2>4, <2>6, <2>7 DEF Moving, Stays, Logging
  <1> QED BY <1>5, <1>6

\* The ways out of the other bodies of one context.
LEMMA BlockMoves ==
  ASSUME Kept, DropElement \/ LeaveBlock \/ LeaveTry
  PROVE  Moving /\ Logging /\ Flow'
  <1>1. log \in Seq(Events) /\ Flow /\ result \in Results /\ Top.step \in Nat
    BY Innermost DEF Kept, Logs, Flow
  <1>2. /\ pc = "body" /\ Top.kind \in Plain /\ UNCHANGED <<status, begun>>
        /\ contexts' = contexts /\ cut' = cut
    BY DEF DropElement, LeaveBlock, LeaveTry, Plain, running
  <1>3. PICK outcome \in Results : Leaves(outcome)
    BY <1>1 DEF DropElement, LeaveBlock, LeaveTry, Results
  <1>4. stack' = Front(stack) /\ Flow' /\ Top.kind # "handler"
    BY <1>2, <1>3, Leaving DEF Plain
  <1>5. LogGrows
    <2>1. CASE DropElement
      BY <1>1, <2>1, Noted DEF DropElement
    <2>2. CASE LeaveBlock \/ LeaveTry
      BY <1>1, <2>2 DEF LeaveBlock, LeaveTry, logs, LogGrows
    <2> QED BY <2>1, <2>2
  <1> QED BY <1>2, <1>4, <1>5 DEF Moving, Pops, Plain, CallKinds, Logging

\* Another body of the same step.
LEMMA SwapMoves ==
  ASSUME Kept, Catch \/ EnterInner
  PROVE  Moving /\ Logging /\ Flow'
  <1>1. log \in Seq(Events) /\ Flow /\ at \in Nat /\ begun \in Nat /\ Top.step \in Nat
    BY Innermost DEF Kept, Logs, Flow
  <1>2. /\ pc = "body" /\ at' = at /\ begun' = begun /\ cut' = cut /\ status' = status
        /\ pc' = "steps" /\ result' = "ok" /\ contexts' = contexts
    BY DEF Catch, EnterInner, Goes, running, StoresInto
  <1>3. Swaps /\ Top.kind # "handler"
    <2>1. CASE Catch
      <3>1. Top.kind = "try" /\ stack' = Append(Front(stack), Frame("catch", Top.step))
        BY <2>1 DEF Catch, Caught
      <3> QED BY <1>2, <3>1 DEF Swaps
    <2>2. CASE EnterInner
      <3>1. Top.kind = "call" /\ stack' = Append(Front(stack), Frame("inner", Top.step))
        BY <2>2 DEF EnterInner
      <3> QED BY <1>2, <3>1 DEF Swaps
    <2> QED BY <2>1, <2>2
  <1>4. LogGrows
    <2>1. CASE Catch
      BY <1>1, <2>1, Noted DEF Catch
    <2>2. CASE EnterInner
      BY <1>1, <2>2 DEF EnterInner, logs, LogGrows
    <2> QED BY <2>1, <2>2
  <1>5. status = "started"
    BY <1>1, <1>2, <1>3 DEF Flow
  <1>6. Flow'
    BY <1>1, <1>2, <1>5, GoesOn DEF Results
  <1> QED BY <1>2, <1>3, <1>4, <1>6 DEF Moving, Logging

\* The ways out of a function.
LEMMA CallMoves ==
  ASSUME Kept, LeaveCall \/ AbortCall \/ AbortInner
  PROVE  Moving /\ Logging /\ Flow'
  <1>1. log \in Seq(Events) /\ Flow /\ result \in Results /\ Top.step \in Nat
    BY Innermost DEF Kept, Logs, Flow
  <1>2. /\ pc = "body" /\ Top.kind \in CallKinds /\ UNCHANGED <<status, begun>>
        /\ contexts' = Front(contexts)
    BY DEF LeaveCall, Completed, AbortCall, AbortInner, CallKinds, running, StoresInto, Join
  <1>3. PICK outcome \in Results : Leaves(outcome)
    BY <1>1 DEF LeaveCall, AbortCall, AbortInner, Results
  <1>4. stack' = Front(stack) /\ Flow' /\ Top.kind # "handler"
    BY <1>2, <1>3, Leaving DEF CallKinds
  <1>5. Pops
    BY <1>2, <1>4 DEF Pops, Plain, CallKinds
  <1>6. CASE LeaveCall \/ AbortCall
    <2>1. Left \in Events /\ Event("noted", Top.step) \in Events
      BY <1>1 DEF Left, Event, Events, Steps
    <2>2. <<Left>> \in Seq(Events) /\ <<Left, Event("noted", Top.step)>> \in Seq(Events)
      BY <2>1
    <2>3. PICK events \in Seq(Events) : Join(events)
      BY <1>6, <2>2 DEF LeaveCall, AbortCall
    <2>4. LogGrows
      BY <1>1, <2>3, VerboseRecorded DEF Join
    <2>5. cut' = cut
      BY <1>6 DEF LeaveCall, AbortCall
    <2> QED BY <1>4, <1>5, <2>4, <2>5 DEF Moving, Logging
  <1>7. CASE AbortInner
    <2>1. /\ Top.kind = "inner" /\ log' = SubSeq(log, 1, Context.base)
          /\ cut' = cut \cup {Top.step}
      BY <1>7 DEF AbortInner
    <2>2. cut' # {}
      BY <2>1
    <2> QED BY <1>4, <1>5, <2>1, <2>2 DEF Moving, Logging, LogLoses
  <1> QED BY <1>6, <1>7

\* Every step enters a body, leaves one, takes up another of the same step, or
\* stays; and records what it does.
LEMMA Moves ==
  ASSUME Kept, [Next]_vars
  PROVE  Moving /\ Logging /\ Flow'
  BY ActorMoves, StepMoves, EnteringMoves, LoopMoves, IterationMoves, BlockMoves, SwapMoves, CallMoves
  DEF Next

\* The bases of the contexts stay in order, and within the log.
LEMMA LogsStay ==
  ASSUME Kept, Moving, Logging, contexts' \in Seq(Contexts)
  PROVE  Logs'
  <1>1. /\ Context = contexts[Len(contexts)] /\ Context.base \in Nat /\ Context.loops \in Seq(Nat)
        /\ contexts # <<>> /\ Len(contexts) \in Nat \ {0} /\ contexts \in Seq(Contexts)
        /\ Top.kind = "loop" => Context.loops # <<>>
        /\ Top.kind \in CallKinds => Len(contexts) > 1 /\ Top.kind \in Kinds
    BY Innermost DEF Kept
  <1>2. /\ log \in Seq(Events) /\ Len(log) \in Nat
        /\ \A i, j \in DOMAIN contexts : i <= j => contexts[i].base <= contexts[j].base
        /\ \A i \in DOMAIN contexts : contexts[i].base <= Len(log)
    BY DEF Kept, Logs
  <1>3. \A i \in DOMAIN contexts : contexts[i].base \in Nat /\ contexts[i] \in Contexts
    <2>1. \A i \in DOMAIN contexts : contexts[i] \in Contexts
      BY <1>1
    <2>2. \A k \in Contexts : k.base \in Nat
      BY DEF Contexts
    <2> QED BY <2>1, <2>2
  <1>4. LogLoses => /\ log' \in Seq(Events) /\ Len(log') = Context.base
                    /\ contexts' = Front(contexts)
    <2> SUFFICES ASSUME LogLoses PROVE log' \in Seq(Events) /\ Len(log') = Context.base
                                       /\ contexts' = Front(contexts)
      OBVIOUS
    <2>1. PICK b \in Nat : b = Context.base /\ b <= Len(log)
      <3>1. Len(contexts) \in DOMAIN contexts
        BY <1>1
      <3> QED BY <1>1, <1>2, <3>1
    <2>2. \A i \in 1..b : log[i] \in Events
      BY <1>2, <2>1, ElementOfSeq
    <2>3. SubSeq(log, 1, b) \in Seq(Events)
          /\ Len(SubSeq(log, 1, b)) = IF 1 <= b THEN b - 1 + 1 ELSE 0
      BY <2>2, SubSeqProperties
    <2>4. Len(SubSeq(log, 1, b)) = b
      BY <2>3
    <2>5. log' = SubSeq(log, 1, b)
      BY <2>1 DEF LogLoses
    <2>6. contexts' = Front(contexts)
      BY DEF LogLoses, Pops, CallKinds
    <2> QED BY <2>1, <2>3, <2>4, <2>5, <2>6
  <1>5. log' \in Seq(Events) /\ Len(log') \in Nat
    <2>1. log' \in Seq(Events)
      BY <1>4 DEF Logging, LogGrows
    <2> QED BY <2>1
  \* The contexts that were there before keep their bases.
  <1>6. ASSUME LogGrows, Len(contexts') <= Len(contexts),
               \A c \in DOMAIN contexts' : contexts'[c].base = contexts[c].base
        PROVE  Logs'
    <2>1. \A c \in DOMAIN contexts' : c \in DOMAIN contexts /\ c \in Nat
      BY <1>1, <1>6
    <2>2. \A i, j \in DOMAIN contexts' : i <= j => contexts'[i].base <= contexts'[j].base
      BY <1>2, <1>6, <2>1
    <2>3. \A i \in DOMAIN contexts' : contexts'[i].base <= Len(log')
      BY <1>2, <1>3, <1>5, <1>6, <2>1 DEF LogGrows
    <2> QED BY <1>5, <2>2, <2>3 DEF Logs
  <1>7. ASSUME NEW l \in Seq(Nat), WithLoops(l)
        PROVE  Len(contexts') <= Len(contexts)
               /\ \A c \in DOMAIN contexts' : contexts'[c].base = contexts[c].base
    <2>1. /\ contexts' \in Seq(Contexts) /\ Len(contexts') = Len(contexts)
          /\ \A c \in 1..Len(contexts) : contexts'[c].base = contexts[c].base
      BY <1>1, <1>7, Looped
    <2> QED BY <2>1
  <1>8. contexts' = contexts =>
          /\ Len(contexts') <= Len(contexts)
          /\ \A c \in DOMAIN contexts' : contexts'[c].base = contexts[c].base
    BY <1>1
  <1>9. contexts' = Front(contexts) =>
          /\ Len(contexts') = Len(contexts) - 1 /\ DOMAIN contexts' = 1..(Len(contexts) - 1)
          /\ \A c \in DOMAIN contexts' : contexts'[c].base = contexts[c].base
    <2>1. /\ Front(contexts) \in Seq(Contexts) /\ Len(Front(contexts)) = Len(contexts) - 1
          /\ \A c \in 1..(Len(contexts) - 1) : Front(contexts)[c] = contexts[c]
      BY <1>1, Ends
    <2> QED BY <2>1
  <1>10. CASE LogLoses
    <2>1. /\ Len(log') = Context.base /\ DOMAIN contexts' = 1..(Len(contexts) - 1)
          /\ \A c \in DOMAIN contexts' : contexts'[c].base = contexts[c].base
      BY <1>4, <1>9, <1>10
    <2>2. \A c \in DOMAIN contexts' : c \in DOMAIN contexts /\ c \in Nat /\ c <= Len(contexts)
                                      /\ Len(contexts) \in DOMAIN contexts
      BY <1>1, <2>1
    <2>3. \A i, j \in DOMAIN contexts' : i <= j => contexts'[i].base <= contexts'[j].base
      BY <1>2, <2>1, <2>2
    <2>4. \A i \in DOMAIN contexts' : contexts'[i].base <= Len(log')
      BY <1>1, <1>2, <2>1, <2>2
    <2> QED BY <1>5, <2>3, <2>4 DEF Logs
  <1>11. CASE LogGrows
    <2>1. CASE Stays \/ Swaps
      BY <1>6, <1>7, <1>8, <1>11, <2>1 DEF Stays, Swaps
    <2>2. ASSUME NEW kind \in {"block", "try", "loop", "call"}, Pushes(kind)
          PROVE  Logs'
      <3>1. CASE kind \in {"block", "try"}
        BY <1>6, <1>8, <1>11, <2>2, <3>1 DEF Pushes, Plain
      <3>2. CASE kind = "loop"
        <4>1. PICK n \in Nat : WithLoops(Append(Context.loops, n))
          BY <2>2, <3>2 DEF Pushes
        <4>2. Append(Context.loops, n) \in Seq(Nat)
          BY <1>1, Grown
        <4> QED BY <1>6, <1>7, <1>11, <4>1, <4>2
      <3>3. CASE kind = "call"
        <4>1. PICK k : k = [base |-> Len(log'), loops |-> <<>>] /\ k.base = Len(log')
          <5>1. [base |-> Len(log'), loops |-> <<>>].base = Len(log')
            OBVIOUS
          <5> QED BY <5>1
        <4>2. PICK n \in Nat : n = Len(contexts)
          BY <1>1
        <4>3. contexts' = Append(contexts, k)
          BY <2>2, <3>3, <4>1 DEF Pushes
        <4>4. /\ DOMAIN contexts' = 1..(n + 1) /\ contexts'[n + 1] = k
              /\ \A c \in 1..n : contexts'[c] = contexts[c]
          BY <1>1, <4>2, <4>3
        <4>5. \A c \in DOMAIN contexts' : c = n + 1 \/ (c \in 1..n /\ c \in DOMAIN contexts)
          BY <1>1, <4>2, <4>4
        <4>6. \A c \in DOMAIN contexts' : contexts'[c].base <= Len(log')
          BY <1>2, <1>3, <1>5, <1>11, <4>1, <4>4, <4>5 DEF LogGrows
        <4>7. \A i, j \in DOMAIN contexts' : i <= j => contexts'[i].base <= contexts'[j].base
          <5> SUFFICES ASSUME NEW i \in DOMAIN contexts', NEW j \in DOMAIN contexts', i <= j
                       PROVE  contexts'[i].base <= contexts'[j].base
            OBVIOUS
          <5>1. CASE j = n + 1
            BY <4>1, <4>4, <4>6, <5>1
          <5>2. CASE j # n + 1
            <6>1. i \in 1..n /\ j \in 1..n /\ i \in DOMAIN contexts /\ j \in DOMAIN contexts
              BY <4>4, <4>5, <5>2
            <6> QED BY <1>2, <4>4, <6>1
          <5> QED BY <5>1, <5>2
        <4> QED BY <1>5, <4>6, <4>7 DEF Logs
      <3> QED BY <3>1, <3>2, <3>3
    <2>3. CASE Pops
      <3>1. CASE Top.kind \in Plain
        BY <1>6, <1>8, <1>11, <2>3, <3>1 DEF Pops
      <3>2. CASE Top.kind = "loop"
        <4>1. WithLoops(Front(Context.loops))
          BY <2>3, <3>2 DEF Pops
        <4>2. Front(Context.loops) \in Seq(Nat)
          BY <1>1, <3>2, Ends
        <4> QED BY <1>6, <1>7, <1>11, <4>1, <4>2
      <3>3. CASE Top.kind \in CallKinds
        <4>1. contexts' = Front(contexts)
          BY <2>3, <3>3 DEF Pops
        <4>2. Len(contexts') <= Len(contexts)
          BY <1>1, <1>9, <4>1
        <4> QED BY <1>6, <1>9, <1>11, <4>1, <4>2
      <3>4. Top.kind \in Kinds /\ Top.kind # "handler"
        BY <2>3, Innermost DEF Kept, Pops
      <3> QED BY <3>1, <3>2, <3>3, <3>4 DEF Kinds, Plain, CallKinds
    <2> QED BY <1>11, <2>1, <2>2, <2>3 DEF Moving
  <1> QED BY <1>10, <1>11 DEF Logging

-----------------------------------------------------------------------------
(* The invariant.                                                          *)

\* The frame of the handler, its context and an empty log.
LEMMA InitKept ==
  ASSUME Init
  PROVE  Kept
  <1>1. PICK f \in Frames : f = Frame("handler", 0) /\ f.kind = "handler"
    <2>1. Frame("handler", 0) \in Frames /\ Frame("handler", 0).kind = "handler"
      BY DEF Frame, Frames, Kinds, Steps
    <2> QED BY <2>1
  <1>2. stack = <<f>> /\ stack \in Seq(Frames) /\ Len(stack) = 1 /\ stack # <<>> /\ stack[1] = f
        /\ DOMAIN stack = {1}
    BY <1>1 DEF Init
  <1>3. Framed
    BY <1>1, <1>2 DEF Framed
  <1>4. PICK k \in Contexts : k = [base |-> 0, loops |-> <<>>] /\ k.base = 0 /\ Len(k.loops) = 0
    <2>1. PICK l \in Seq(Nat) : l = <<>> /\ Len(l) = 0
      <3>1. <<>> \in Seq(Nat) /\ Len(<<>>) = 0
        OBVIOUS
      <3> QED BY <3>1
    <2>2. [base |-> 0, loops |-> l] \in Contexts
      BY DEF Contexts
    <2> QED BY <2>1, <2>2
  <1>5. contexts = <<k>> /\ contexts \in Seq(Contexts) /\ Len(contexts) = 1 /\ DOMAIN contexts = {1}
        /\ contexts[1] = k
    BY <1>4 DEF Init
  <1>6. Counts(stack, contexts)
    <2>1. CallsOf(stack, 1) = {} /\ LoopsOf(stack, 1) = {}
      BY <1>1, <1>2 DEF CallsOf, LoopsOf
    <2>2. Depth(stack) = 0 /\ Cardinality(LoopsOf(stack, 1)) = 0
      BY <1>2, <2>1, FS_EmptySet DEF Depth
    <2> QED BY <1>4, <1>5, <2>2 DEF Counts
  <1>7. Logs
    <2>1. log = <<>> /\ log \in Seq(Events) /\ Len(log) = 0
      BY DEF Init
    <2> QED BY <1>4, <1>5, <2>1 DEF Logs
  <1>8. Flow
    BY DEF Init, Flow, Results
  <1> QED BY <1>3, <1>5, <1>6, <1>7, <1>8 DEF Kept

\* All of it holds on.
LEMMA KeptStep ==
  ASSUME Kept, [Next]_vars
  PROVE  Kept'
  <1>1. Moving /\ Logging /\ Flow'
    BY Moves
  <1>2. Framed /\ contexts \in Seq(Contexts) /\ Counts(stack, contexts) /\ at \in Nat
    BY DEF Kept, Flow
  <1>3. Len(log') \in Nat
    <2>1. CASE LogGrows
      BY <2>1 DEF LogGrows
    <2>2. CASE LogLoses
      <3>1. PICK b \in Nat : b = Context.base
        BY Innermost, <1>2
      <3> QED BY <2>2, <3>1 DEF LogLoses, Kept, Logs
    <2> QED BY <1>1, <2>1, <2>2 DEF Logging
  <1>4. Framed' /\ contexts' \in Seq(Contexts) /\ Counts(stack', contexts')
    BY <1>1, <1>2, <1>3, FramesStay DEF Moving
  <1>5. Logs'
    BY <1>1, <1>4, LogsStay
  <1> QED BY <1>1, <1>4, <1>5 DEF Kept

\* In every run frames, contexts and the bases of the logs go together.
LEMMA KeptInvariant == Spec => []Kept
  <1>1. Init => Kept
    BY InitKept
  <1>2. Kept /\ [Next]_vars => Kept'
    BY KeptStep
  <1> QED BY <1>1, <1>2, PTL DEF Spec

\* Whatever way a loop is left - it ends, breaks, returns, fails, or the function
\* around it does - its count goes with it, and no other one (executor.rs,
\* loop_counts of ForEach and While).
THEOREM LoopsAreCounted == Spec => []CountsItsLoops
  <1>1. Kept => CountsItsLoops
    <2> SUFFICES ASSUME Kept, NEW c \in DOMAIN contexts
                 PROVE  Len(contexts[c].loops) =
                          Cardinality({i \in DOMAIN stack : stack[i].kind = "loop" /\ Calls(i) = c - 1})
      BY DEF CountsItsLoops
    <2>1. Len(contexts[c].loops) = Cardinality(LoopsOf(stack, c))
      BY DEF Kept, Counts
    <2>2. \A i : Calls(i) = Cardinality(CallsOf(stack, i))
      BY DEF Calls, CallsOf
    <2>3. LoopsOf(stack, c) = {i \in DOMAIN stack : stack[i].kind = "loop" /\ Calls(i) = c - 1}
      BY <2>2 DEF LoopsOf
    <2> QED BY <2>1, <2>3
  <1> QED BY <1>1, KeptInvariant, PTL

-----------------------------------------------------------------------------
(* A run that fails.                                                       *)

Logged(step) == \E i \in DOMAIN log : log[i] = Event("error", step)

\* An error on its way is about to be recorded for the step it has come to, or has
\* been; for the step that raised it too, unless the log was cut since.
ErrorTold ==
  /\ state # 0 => status = "finished"
  /\ pc = "returned" /\ result = "error" => raised.step = at \/ cut # {} \/ Logged(raised.step)
  /\ pc = "body" /\ result = "error" => Logged(at) /\ (cut # {} \/ Logged(raised.step))

\* What was recorded stays so.
LEMMA LoggedStays ==
  ASSUME Kept, LogGrows, NEW step, Logged(step)
  PROVE  Logged(step)'
  <1>1. PICK i \in DOMAIN log : log[i] = Event("error", step)
    BY DEF Logged
  <1>2. log \in Seq(Events) /\ log' \in Seq(Events) /\ Len(log') >= Len(log)
        /\ \A k \in 1..Len(log) : log'[k] = log[k]
    BY DEF Kept, Logs, LogGrows
  <1>3. i \in DOMAIN log' /\ log'[i] = Event("error", step)
    BY <1>1, <1>2
  <1> QED BY <1>3 DEF Logged

\* The step that fails, or that was told of a failure, is recorded.
LEMMA FinishRecords ==
  ASSUME Kept, FinishStep, result = "error"
  PROVE  LogGrows /\ Logged(at)'
  <1>1. log \in Seq(Events) /\ at \in Nat /\ at' = at
    BY DEF Kept, Logs, Flow, FinishStep
  <1>2. PICK e \in Events : e = Event("error", at)
    <2>1. Event("error", at) \in Events
      BY <1>1 DEF Event, Events, Steps
    <2> QED BY <2>1
  <1>3. PICK more \in Seq(Events) : more = Verbose(<<Event("finished", at)>>, Context.loops)
    <2>1. Event("finished", at) \in Events
      BY <1>1 DEF Event, Events, Steps
    <2>2. Verbose(<<Event("finished", at)>>, Context.loops) \in Seq(Events)
      BY <2>1 DEF Verbose
    <2> QED BY <2>2
  <1>4. PICK events \in Seq(Events) : events = <<e>> \o more /\ 1 \in DOMAIN events /\ events[1] = e
    <2>1. PICK one \in Seq(Events) : one = <<e>> /\ Len(one) = 1 /\ one[1] = e
      <3>1. <<e>> \in Seq(Events) /\ Len(<<e>>) = 1 /\ <<e>>[1] = e
        OBVIOUS
      <3> QED BY <3>1
    <2>2. PICK k \in Nat : k = Len(more)
      OBVIOUS
    <2>3. one \o more \in Seq(Events) /\ Len(one \o more) = 1 + k /\ (one \o more)[1] = e
      BY <2>1, <2>2
    <2>4. 1 \in DOMAIN (one \o more)
      BY <2>2, <2>3
    <2> QED BY <2>1, <2>3, <2>4
  <1>5. Record(events)
    BY <1>2, <1>3, <1>4 DEF FinishStep
  <1>6. LogGrows /\ log' = log \o events
    BY <1>1, <1>5, Recorded
  <1>7. Len(log) + 1 \in DOMAIN log' /\ log'[Len(log) + 1] = e
    <2>1. PICK n, k \in Nat : n = Len(log) /\ k = Len(events) /\ k >= 1
      <3>1. Len(log) \in Nat /\ Len(events) \in Nat /\ Len(events) >= 1
        BY <1>1, <1>4
      <3> QED BY <3>1
    <2>2. Len(log \o events) = n + k /\ (log \o events)[n + 1] = events[1] /\ log \o events \in Seq(Events)
      BY <1>1, <1>4, <2>1
    <2>3. n + 1 \in DOMAIN (log \o events)
      BY <2>1, <2>2
    <2> QED BY <1>4, <1>6, <2>1, <2>2, <2>3
  <1>8. Logged(at)'
    BY <1>1, <1>2, <1>7 DEF Logged
  <1> QED BY <1>6, <1>8

\* An error that is handed on, out of a body.
LEMMA HandedOn ==
  ASSUME Kept, ErrorTold, Logging,
         pc' = "returned", UNCHANGED <<status, state>>,
         result' = "error" =>
           \/ raised'.step = at'
           \/ pc = "body" /\ result = "error" /\ raised' = raised
  PROVE  ErrorTold'
  <1>1. state' # 0 => status' = "finished"
    BY DEF ErrorTold
  <1>2. ASSUME result' = "error", raised'.step # at'
        PROVE  (cut # {} \/ Logged(raised.step))'
    <2>1. raised' = raised /\ (cut # {} \/ Logged(raised.step))
      BY <1>2 DEF ErrorTold
    <2>2. CASE LogGrows /\ cut' = cut
      <3>1. CASE cut # {}
        BY <2>2, <3>1
      <3>2. CASE Logged(raised.step)
        <4>1. PICK step : step = raised.step
          OBVIOUS
        <4>2. Logged(step)'
          BY <2>2, <3>2, <4>1, LoggedStays
        <4>3. Logged(raised.step)'
          BY <2>1, <4>1, <4>2
        <4> QED BY <4>3
      <3> QED BY <2>1, <3>1, <3>2
    <2> QED BY <2>2 DEF Logging, LogLoses
  <1>3. result' = "error" => (raised.step = at \/ cut # {} \/ Logged(raised.step))'
    BY <1>2
  <1> QED BY <1>1, <1>3 DEF ErrorTold

\* Every step keeps what is told of an error.
LEMMA ErrorToldStep ==
  ASSUME Kept, ErrorTold, [Next]_vars
  PROVE  ErrorTold'
  <1>1. Logging /\ Flow
    BY Moves DEF Kept
  <1>2. CASE Refuse \/ Start \/ UNCHANGED vars
    BY <1>1, <1>2 DEF Refuse, Start, vars, ErrorTold, Logged, Flow
  <1>3. CASE Finish
    BY <1>1, <1>3 DEF Finish, ErrorTold, Logged, Flow
  <1>4. CASE FinishStep
    <2>1. UNCHANGED <<status, state, at, raised, cut, result>>
      BY <1>4 DEF FinishStep, running
    <2>2. CASE result = "error"
      <3>1. LogGrows /\ Logged(at)'
        BY <1>4, <2>2, FinishRecords
      <3>2. pc = "returned" /\ pc' = "body"
        BY <1>4, <2>2 DEF FinishStep
      <3>3. raised.step = at \/ cut # {} \/ Logged(raised.step)
        BY <2>2, <3>2 DEF ErrorTold
      <3>4. CASE raised.step = at
        <4>1. PICK step : step = at /\ Logged(step)'
          BY <2>1, <3>1
        <4>2. Logged(raised.step)'
          BY <2>1, <3>4, <4>1
        <4> QED BY <2>1, <3>1, <3>2, <4>2 DEF ErrorTold
      <3>5. CASE cut # {}
        BY <2>1, <3>1, <3>2, <3>5 DEF ErrorTold
      <3>6. CASE Logged(raised.step)
        <4>1. PICK step : step = raised.step
          OBVIOUS
        <4>2. Logged(step)'
          BY <3>1, <3>6, <4>1, LoggedStays
        <4>3. Logged(raised.step)'
          BY <2>1, <4>1, <4>2
        <4> QED BY <2>1, <3>1, <3>2, <4>3 DEF ErrorTold
      <3> QED BY <3>3, <3>4, <3>5, <3>6
    <2>3. CASE result # "error"
      BY <2>1, <2>3 DEF ErrorTold
    <2> QED BY <2>2, <2>3
  \* No error is on its way.
  <1>5. CASE \/ BeginStep \/ EndSteps \/ Branch \/ NextElement \/ EnterLoop \/ NextIteration
             \/ AgainLoop \/ EnterTry \/ Catch \/ EnterCall \/ EnterInner
    <2>1. result' = "ok" /\ UNCHANGED <<status, state>>
      BY <1>5 DEF BeginStep, EndSteps, Branch, NextElement, EnterLoop, NextIteration, AgainLoop,
                  EnterTry, Catch, EnterCall, EnterInner, Enters, Goes, Iterate, StoresInto, running
    <2> QED BY <2>1 DEF ErrorTold
  <1>6. CASE Pass \/ Store \/ Jump \/ Fail
    <2>1. /\ pc' = "returned" /\ UNCHANGED <<status, state>> /\ at' = at
          /\ result' = "error" => raised'.step = at
      BY <1>6 DEF Pass, Store, Jump, Fail, Returns, Raises, StoresInto, running
    <2> QED BY <1>1, <2>1, HandedOn
  <1>7. CASE DropElement \/ LeaveBlock \/ LeaveTry
    <2>1. /\ pc' = "returned" /\ UNCHANGED <<status, state>> /\ at' = Top.step
          /\ result' = "error" => raised'.step = Top.step \/ (pc = "body" /\ result = "error" /\ raised' = raised)
      BY <1>7 DEF DropElement, LeaveBlock, LeaveTry, Leaves, Returns, running
    <2> QED BY <1>1, <2>1, HandedOn
  <1>8. CASE EndLoop \/ FailLoop \/ BreakLoop \/ AbortLoop
    <2>1. /\ pc' = "returned" /\ UNCHANGED <<status, state>> /\ at' = Top.step
          /\ result' = "error" => raised'.step = Top.step \/ (pc = "body" /\ result = "error" /\ raised' = raised)
      BY <1>8 DEF EndLoop, FailLoop, BreakLoop, AbortLoop, LeavesLoop, Leaves, Returns, running
    <2> QED BY <1>1, <2>1, HandedOn
  <1>9. CASE LeaveCall \/ AbortCall \/ AbortInner
    <2>1. /\ pc' = "returned" /\ UNCHANGED <<status, state>> /\ at' = Top.step
          /\ result' = "error" => raised'.step = Top.step \/ (pc = "body" /\ result = "error" /\ raised' = raised)
      BY <1>9 DEF LeaveCall, AbortCall, AbortInner, Completed, Leaves, Returns, running, StoresInto
    <2> QED BY <1>1, <2>1, HandedOn
  <1> QED BY <1>2, <1>3, <1>4, <1>5, <1>6, <1>7, <1>8, <1>9 DEF Next

\* A run that fails keeps nothing (Actor::execute_function), and its log says why,
\* in every mode and past every limit (execute_step's error event).
THEOREM FailuresAreWhole == Spec => []FailsWhole
  <1>1. Init => ErrorTold
    BY DEF Init, ErrorTold
  <1>2. Kept /\ ErrorTold /\ [Next]_vars => ErrorTold'
    BY ErrorToldStep
  <1>3. Kept /\ ErrorTold => FailsWhole
    <2> SUFFICES ASSUME Kept, ErrorTold, status = "failed" PROVE FailsWhole
      BY DEF FailsWhole
    <2>1. pc = "body" /\ state = 0
      BY DEF Kept, Flow, ErrorTold
    <2> QED BY <2>1 DEF ErrorTold, Logged, FailsWhole
  <1> QED BY <1>1, <1>2, <1>3, KeptInvariant, PTL DEF Spec

-----------------------------------------------------------------------------
(* Where an error goes.                                                    *)

\* On its way out an error has left the bodies that were in progress when it was
\* raised, innermost first, and no try among them.
Unwound ==
  ErrorIsPending =>
    /\ raised.stack \in Seq(Frames) /\ Len(stack) <= Len(raised.stack)
    /\ \A i \in 1..Len(stack) : raised.stack[i] = stack[i]
    /\ \A i \in DOMAIN raised.stack : i > Len(stack) => raised.stack[i].kind # "try"

\* It leaves one more.
LEMMA UnwoundFurther ==
  ASSUME Kept, Unwound, ErrorIsPending, Top.kind \notin {"try", "handler"}, stack' = Front(stack),
         raised' = raised
  PROVE  Unwound'
  <1>1. /\ stack \in Seq(Frames) /\ Len(stack) \in Nat \ {0} /\ Top = stack[Len(stack)]
        /\ Front(stack) \in Seq(Frames) /\ Len(Front(stack)) = Len(stack) - 1
        /\ \A i \in 1..(Len(stack) - 1) : Front(stack)[i] = stack[i]
    BY Innermost DEF Kept, Framed
  <1>2. PICK q \in Seq(Frames) :
          /\ q = raised.stack /\ Len(stack) <= Len(q) /\ DOMAIN q = 1..Len(q) /\ Len(q) \in Nat
          /\ \A i \in 1..Len(stack) : q[i] = stack[i]
          /\ \A i \in DOMAIN q : i > Len(stack) => q[i].kind # "try"
    BY DEF Unwound
  <1>3. raised'.stack = q
    BY <1>2
  <1>4. Len(stack') = Len(stack) - 1 /\ \A i \in 1..Len(stack') : q[i] = stack'[i]
    BY <1>1, <1>2
  <1>5. Len(stack') <= Len(q)
    BY <1>1, <1>2, <1>4
  <1>6. \A i \in DOMAIN q : i > Len(stack') => q[i].kind # "try"
    <2> SUFFICES ASSUME NEW i \in DOMAIN q, i > Len(stack') PROVE q[i].kind # "try"
      OBVIOUS
    <2>1. CASE i = Len(stack)
      BY <1>1, <1>2, <2>1
    <2>2. CASE i # Len(stack)
      <3>1. i > Len(stack)
        BY <1>1, <1>2, <1>4, <2>2
      <3> QED BY <1>2, <3>1
    <2> QED BY <2>1, <2>2
  <1> QED BY <1>2, <1>3, <1>4, <1>5, <1>6 DEF Unwound

\* It starts out from where the step is.
LEMMA RaisedHere ==
  ASSUME stack' \in Seq(Frames), raised'.stack = stack'
  PROVE  Unwound'
  <1>1. PICK q \in Seq(Frames) : q = stack' /\ raised'.stack = q
    OBVIOUS
  <1>2. Len(q) \in Nat /\ DOMAIN q = 1..Len(q) /\ \A i \in DOMAIN q : ~(i > Len(q))
    OBVIOUS
  <1> QED BY <1>1, <1>2 DEF Unwound

\* Every step leaves one body at most, and none that is a try.
LEMMA UnwoundStep ==
  ASSUME Kept, Unwound, [Next]_vars
  PROVE  Unwound'
  <1>1. Flow /\ stack \in Seq(Frames) /\ Front(stack) \in Seq(Frames)
    BY Innermost DEF Kept, Framed
  <1>2. CASE Refuse \/ Start \/ Finish \/ UNCHANGED vars
    BY <1>1, <1>2 DEF Refuse, Start, Finish, vars, Unwound, ErrorIsPending
  <1>3. CASE FinishStep
    <2>1. UNCHANGED <<stack, raised, result>> /\ pc = "returned"
      BY <1>3 DEF FinishStep
    <2> QED BY <2>1 DEF Unwound, ErrorIsPending
  <1>4. CASE \/ BeginStep \/ EndSteps \/ Branch \/ NextElement \/ EnterLoop \/ NextIteration
             \/ AgainLoop \/ EnterTry \/ Catch \/ EnterCall \/ EnterInner \/ Pass \/ Store \/ Jump
             \/ EndLoop \/ BreakLoop
    <2>1. result' # "error"
      BY <1>4 DEF BeginStep, EndSteps, Branch, NextElement, EnterLoop, NextIteration, AgainLoop,
                  EnterTry, Catch, EnterCall, EnterInner, Enters, Goes, Iterate, Pass, Store, Jump,
                  Returns, EndLoop, BreakLoop, LeavesLoop, Leaves
    <2> QED BY <2>1 DEF Unwound, ErrorIsPending
  <1>5. CASE Fail
    BY <1>1, <1>5, RaisedHere DEF Fail, Raises
  <1>6. CASE FailLoop
    BY <1>1, <1>6, RaisedHere DEF FailLoop, LeavesLoop, Leaves
  <1>7. CASE DropElement \/ LeaveCall
    <2>1. stack' = Front(stack) /\ (result' = "error" => raised'.stack = Front(stack))
      BY <1>7 DEF DropElement, LeaveCall, Leaves, Returns
    <2>2. CASE result' = "error"
      BY <1>1, <2>1, <2>2, RaisedHere
    <2> QED BY <2>2 DEF Unwound, ErrorIsPending
  <1>8. CASE LeaveBlock \/ LeaveTry \/ AbortLoop \/ AbortCall \/ AbortInner
    <2>1. /\ stack' = Front(stack) /\ result' = result /\ raised' = raised /\ pc = "body"
          /\ result = "error" => Top.kind \in {"block", "catch", "loop", "call", "inner"}
      BY <1>8 DEF LeaveBlock, LeaveTry, Caught, AbortLoop, LeavesLoop, AbortCall, AbortInner, Leaves, Returns
    <2>2. CASE result = "error"
      BY <2>1, <2>2, UnwoundFurther DEF ErrorIsPending
    <2> QED BY <2>1, <2>2 DEF Unwound, ErrorIsPending
  <1> QED BY <1>2, <1>3, <1>4, <1>5, <1>6, <1>7, <1>8 DEF Next

\* The innermost try, if the error has come to one.
LEMMA TryReached ==
  ASSUME Kept, Unwound, ErrorIsPending, Top.kind = "try"
  PROVE  Handler # {} /\ Max(Handler) = Len(stack)
  <1>1. stack \in Seq(Frames) /\ Len(stack) \in Nat \ {0} /\ Top = stack[Len(stack)]
    BY Innermost DEF Kept, Framed
  <1>2. PICK q \in Seq(Frames) :
          /\ q = raised.stack /\ Len(stack) <= Len(q) /\ DOMAIN q = 1..Len(q) /\ Len(q) \in Nat
          /\ \A i \in 1..Len(stack) : q[i] = stack[i]
          /\ \A i \in DOMAIN q : i > Len(stack) => q[i].kind # "try"
    BY DEF Unwound
  <1>3. PICK n \in Nat : n = Len(stack)
    BY <1>1
  <1>4. n \in Handler
    BY <1>1, <1>2, <1>3 DEF Handler
  <1>5. \A i \in Handler : i \in Nat /\ n >= i
    BY <1>2, <1>3 DEF Handler
  <1>6. \A x \in Handler : (\A y \in Handler : x >= y) => x = n
    BY <1>4, <1>5
  <1>7. Max(Handler) = CHOOSE x \in Handler : \A y \in Handler : x >= y
    BY DEF Max
  <1>8. Max(Handler) = n
    BY <1>4, <1>5, <1>6, <1>7
  <1> QED BY <1>3, <1>4, <1>8

\* With no try around it, the error gets to the handler's own body.
LEMMA NoTryReached ==
  ASSUME Kept, Unwound, ErrorIsPending, Top.kind = "handler"
  PROVE  Handler = {}
  <1>1. stack \in Seq(Frames) /\ Len(stack) = 1 /\ Top = stack[1]
    BY Innermost DEF Kept, Framed
  <1>2. PICK q \in Seq(Frames) :
          /\ q = raised.stack /\ DOMAIN q = 1..Len(q) /\ Len(q) \in Nat
          /\ q[1] = stack[1]
          /\ \A i \in DOMAIN q : i > 1 => q[i].kind # "try"
    BY <1>1 DEF Unwound
  <1>3. \A i \in DOMAIN q : q[i].kind # "try"
    BY <1>1, <1>2
  <1> QED BY <1>2, <1>3 DEF Handler

\* An error is caught by the innermost try it was raised in, whatever functions,
\* branches and loops lie between, or fails the run when there is none
\* (execute_step of Try, `?` elsewhere).
THEOREM ErrorsReachTheirTry == Spec => NearestTryCatches
  <1> DEFINE Goal ==
        ErrorIsPending =>
          IF status' = "failed" THEN Handler = {}
          ELSE \/ result' = "error" /\ pc' \in {"returned", "body"}
               \/ /\ Handler # {} /\ Len(stack') = Max(Handler)
                  /\ Last(stack').kind = "catch"
  <1>1. Init => Unwound
    BY DEF Init, Unwound, ErrorIsPending
  <1>2. Kept /\ Unwound /\ [Next]_vars => Unwound'
    BY UnwoundStep
  <1>3. Kept /\ Unwound /\ [Next]_vars => [Goal]_vars
    <2> SUFFICES ASSUME Kept, Unwound, Next, ErrorIsPending
                 PROVE  IF status' = "failed" THEN Handler = {}
                        ELSE \/ result' = "error" /\ pc' \in {"returned", "body"}
                             \/ /\ Handler # {} /\ Len(stack') = Max(Handler)
                                /\ Last(stack').kind = "catch"
      OBVIOUS
    <2>1. Flow /\ result = "error" /\ pc \in {"returned", "body"}
      BY DEF Kept, ErrorIsPending
    <2>2. CASE Finish
      <3>1. Top.kind = "handler" /\ status' = "failed"
        BY <2>1, <2>2 DEF Finish
      <3> QED BY <3>1, NoTryReached
    <2>3. CASE Catch
      <3>1. /\ Top.kind = "try" /\ stack' = Append(Front(stack), Frame("catch", Top.step))
            /\ pc = "body" /\ status' = status
        BY <2>3 DEF Catch, Caught, StoresInto
      <3>2. Handler # {} /\ Max(Handler) = Len(stack)
        BY <3>1, TryReached
      <3>3. /\ Front(stack) \in Seq(Frames) /\ Len(Front(stack)) = Len(stack) - 1
            /\ Len(stack) \in Nat \ {0} /\ Top.step \in Nat
        BY Innermost DEF Kept
      <3>4. PICK f \in Frames : f = Frame("catch", Top.step) /\ f.kind = "catch"
        <4>1. Frame("catch", Top.step) \in Frames /\ Frame("catch", Top.step).kind = "catch"
          BY <3>3 DEF Frame, Frames, Kinds, Steps
        <4> QED BY <4>1
      <3>5. Len(Append(Front(stack), f)) = Len(Front(stack)) + 1 /\ Last(Append(Front(stack), f)) = f
        BY <3>3, Grown
      <3>6. Len(stack') = Len(stack) /\ Last(stack').kind = "catch"
        BY <3>1, <3>3, <3>4, <3>5
      <3>7. status' # "failed"
        BY <2>1, <3>1 DEF Flow
      <3> QED BY <3>2, <3>6, <3>7
    <2>4. CASE FinishStep
      BY <2>1, <2>4 DEF FinishStep, Flow, running
    <2>5. CASE LeaveBlock \/ LeaveTry \/ AbortLoop \/ AbortCall \/ AbortInner
      <3>1. result' = result /\ pc' = "returned" /\ status' = status /\ pc = "body" /\ Top.kind # "handler"
        BY <2>5 DEF LeaveBlock, LeaveTry, AbortLoop, LeavesLoop, AbortCall, AbortInner, Leaves,
                    Returns, running
      <3> QED BY <2>1, <3>1 DEF Flow
    \* No other step is taken while an error is on its way.
    <2>6. CASE \/ Refuse \/ Start \/ BeginStep \/ EndSteps \/ Pass \/ Store \/ Jump \/ Fail
               \/ Branch \/ NextElement \/ DropElement \/ EnterLoop \/ NextIteration \/ EndLoop
               \/ FailLoop \/ AgainLoop \/ BreakLoop \/ EnterTry \/ EnterCall \/ EnterInner
               \/ LeaveCall
      <3>1. pc \in {"returned", "body"} /\ result = "error" => FALSE
        BY <2>1, <2>6
        DEF Flow, Refuse, Start, BeginStep, EndSteps, Pass, Store, Jump, Fail, Branch, NextElement,
            DropElement, EnterLoop, NextIteration, EndLoop, FailLoop, AgainLoop, BreakLoop,
            EnterTry, EnterCall, EnterInner, LeaveCall, Completed
      <3> QED BY <2>1, <3>1
    <2> QED BY <2>2, <2>3, <2>4, <2>5, <2>6 DEF Next
  <1> QED BY <1>1, <1>2, <1>3, KeptInvariant, PTL DEF Spec, NearestTryCatches

-----------------------------------------------------------------------------
(* The events that are open.                                               *)

\* What a step leaves off is what it was put on.
LEMMA FrontOfGrown ==
  ASSUME NEW S, NEW s \in Seq(S), NEW e \in S
  PROVE  Front(Append(s, e)) = s /\ Last(Append(s, e)) = e /\ Append(s, e) # <<>>
  <1>1. PICK t \in Seq(S) : t = Append(s, e) /\ Len(t) = Len(s) + 1 /\ t # <<>> /\ Last(t) = e
                            /\ Len(s) \in Nat /\ \A i \in 1..Len(s) : t[i] = s[i]
    <2>1. /\ Append(s, e) \in Seq(S) /\ Len(Append(s, e)) = Len(s) + 1 /\ Append(s, e) # <<>>
          /\ Last(Append(s, e)) = e /\ Len(s) \in Nat /\ \A i \in 1..Len(s) : Append(s, e)[i] = s[i]
      BY Grown
    <2> QED BY <2>1
  <1>2. /\ Front(t) \in Seq(S) /\ Len(Front(t)) = Len(t) - 1
        /\ \A i \in 1..(Len(t) - 1) : Front(t)[i] = t[i]
    BY <1>1, Ends
  <1>3. Len(Front(t)) = Len(s) /\ \A i \in 1..Len(s) : Front(t)[i] = s[i]
    BY <1>1, <1>2
  <1>4. Front(t) = s
    BY <1>2, <1>3, SeqEqual
  <1> QED BY <1>1, <1>4

\* Opened, where these calls were cut off.
Shuts(open, event) ==
  LET type == IF event.type = "leave" THEN "enter" ELSE "started" IN
  IF open # <<>> /\ Last(open) = Event(type, event.step) THEN Front(open)
  ELSE Append(open, event)

OpenedIn(calls, open, event) ==
  CASE event.type \in {"started", "enter"} -> Append(open, event)
    [] event.type = "leave" -> Shuts(open, event)
    [] event.type = "finished" ->
         Shuts(IF open # <<>> /\ event.step \in calls
                    /\ Last(open) = Event("enter", event.step)
               THEN Front(open) ELSE open, event)
    [] OTHER -> open

\* What is open after each event of a log.
Traces(calls, l, g) ==
  /\ g[0] = <<>>
  /\ \A i \in 1..Len(l) : g[i] = OpenedIn(calls, g[i - 1], l[i])

Continues(calls, l, g, m, h) ==
  /\ m \in Seq(Events) /\ Traces(calls, m, h) /\ Len(l) <= Len(m)
  /\ \A i \in 0..Len(l) : h[i] = g[i]

\* An event that is about nothing that opens.
Quiet(e) == e \in Events /\ e.type \in {"noted", "error"}

\* It leaves what is open as it was.
LEMMA QuietOpens ==
  ASSUME NEW calls, NEW open, NEW e, Quiet(e)
  PROVE  OpenedIn(calls, open, e) = open
  BY DEF Quiet, OpenedIn

\* The beginning of a step, or of a call.
LEMMA EventOpens ==
  ASSUME NEW calls, NEW open, NEW step \in Nat, NEW type \in {"started", "enter"}
  PROVE  Event(type, step) \in Events
         /\ OpenedIn(calls, open, Event(type, step)) = Append(open, Event(type, step))
  BY DEF Event, Events, Steps, OpenedIn

\* The end of a call, of a step, and of a step whose call was cut off.
LEMMA EventCloses ==
  ASSUME NEW calls, NEW open \in Seq(Events), NEW step \in Nat
  PROVE  /\ Event("leave", step) \in Events /\ Event("finished", step) \in Events
         /\ OpenedIn(calls, Append(open, Event("enter", step)), Event("leave", step)) = open
         /\ step \notin calls =>
              OpenedIn(calls, Append(open, Event("started", step)), Event("finished", step)) = open
         /\ step \in calls =>
              OpenedIn(calls, Append(Append(open, Event("started", step)), Event("enter", step)),
                       Event("finished", step)) = open
  <1>1. PICK started \in Events : started = Event("started", step) /\ started.type = "started" /\ started.step = step
    <2>1. Event("started", step) \in Events /\ Event("started", step).type = "started"
          /\ Event("started", step).step = step
      BY DEF Event, Events, Steps
    <2> QED BY <2>1
  <1>2. PICK enter \in Events : enter = Event("enter", step) /\ enter.type = "enter" /\ enter.step = step
    <2>1. Event("enter", step) \in Events /\ Event("enter", step).type = "enter"
          /\ Event("enter", step).step = step
      BY DEF Event, Events, Steps
    <2> QED BY <2>1
  <1>3. PICK leave \in Events : leave = Event("leave", step) /\ leave.type = "leave" /\ leave.step = step
    <2>1. Event("leave", step) \in Events /\ Event("leave", step).type = "leave"
          /\ Event("leave", step).step = step
      BY DEF Event, Events, Steps
    <2> QED BY <2>1
  <1>4. PICK finished \in Events : finished = Event("finished", step) /\ finished.type = "finished"
                                   /\ finished.step = step
    <2>1. Event("finished", step) \in Events /\ Event("finished", step).type = "finished"
          /\ Event("finished", step).step = step
      BY DEF Event, Events, Steps
    <2> QED BY <2>1
  <1>5. OpenedIn(calls, Append(open, enter), leave) = open
    <2>1. PICK t : t = Append(open, enter) /\ t # <<>> /\ Last(t) = enter /\ Front(t) = open
      BY FrontOfGrown
    <2>2. OpenedIn(calls, t, leave) = Shuts(t, leave)
      BY <1>3 DEF OpenedIn
    <2>3. Shuts(t, leave) = Front(t)
      BY <1>2, <1>3, <2>1 DEF Shuts
    <2> QED BY <2>1, <2>2, <2>3
  <1>6. PICK t \in Seq(Events) : t = Append(open, started) /\ t # <<>> /\ Last(t) = started /\ Front(t) = open
    <2>1. Append(open, started) \in Seq(Events)
      BY Grown
    <2> QED BY <2>1, FrontOfGrown
  <1>7. Shuts(t, finished) = open
    BY <1>1, <1>4, <1>6 DEF Shuts
  <1>8. ASSUME step \notin calls
        PROVE  OpenedIn(calls, t, finished) = open
    <2>1. OpenedIn(calls, t, finished) = Shuts(t, finished)
      BY <1>4, <1>8 DEF OpenedIn
    <2> QED BY <1>7, <2>1
  <1>9. ASSUME step \in calls
        PROVE  OpenedIn(calls, Append(t, enter), finished) = open
    <2>1. PICK u : u = Append(t, enter) /\ u # <<>> /\ Last(u) = enter /\ Front(u) = t
      BY FrontOfGrown
    <2>2. OpenedIn(calls, u, finished) = Shuts(Front(u), finished)
      BY <1>2, <1>4, <1>9, <2>1 DEF OpenedIn
    <2> QED BY <1>7, <2>1, <2>2
  <1> QED BY <1>1, <1>2, <1>3, <1>4, <1>5, <1>6, <1>8, <1>9

\* One more event.
LEMMA OneMoreEvent ==
  ASSUME NEW calls, NEW l \in Seq(Events), NEW e \in Events, NEW g, Traces(calls, l, g)
  PROVE  \E h : /\ Continues(calls, l, g, Append(l, e), h)
                /\ h[Len(Append(l, e))] = OpenedIn(calls, g[Len(l)], e)
  <1>1. PICK n \in Nat : n = Len(l)
    OBVIOUS
  <1>2. PICK m \in Seq(Events) : /\ m = Append(l, e) /\ Len(m) = n + 1 /\ m[n + 1] = e
                                 /\ \A i \in 1..n : m[i] = l[i]
    <2>1. /\ Append(l, e) \in Seq(Events) /\ Len(Append(l, e)) = n + 1
          /\ Append(l, e)[n + 1] = e /\ \A i \in 1..n : Append(l, e)[i] = l[i]
      BY <1>1, Grown
    <2> QED BY <2>1
  <1>3. PICK after : after = OpenedIn(calls, g[n], e)
    OBVIOUS
  <1>4. PICK h : h = [i \in 0..(n + 1) |-> IF i = n + 1 THEN after ELSE g[i]]
    OBVIOUS
  <1>5. h[n + 1] = after /\ \A i \in 0..n : h[i] = g[i]
    BY <1>4
  <1>6. \A i \in 1..n : h[i] = OpenedIn(calls, h[i - 1], m[i])
    <2> TAKE i \in 1..n
    <2>1. h[i] = g[i] /\ h[i - 1] = g[i - 1]
      BY <1>5
    <2>2. g[i] = OpenedIn(calls, g[i - 1], l[i])
      BY <1>1 DEF Traces
    <2> QED BY <1>2, <2>1, <2>2
  <1>7. h[n + 1] = OpenedIn(calls, h[n + 1 - 1], m[n + 1])
    <2>1. n + 1 - 1 = n /\ h[n] = g[n]
      BY <1>5
    <2> QED BY <1>2, <1>3, <1>5, <2>1
  <1>8. h[0] = <<>>
    BY <1>5 DEF Traces
  <1>9. Traces(calls, m, h)
    <2>1. \A i \in 1..(n + 1) : i \in 1..n \/ i = n + 1
      OBVIOUS
    <2>2. \A i \in 1..(n + 1) : h[i] = OpenedIn(calls, h[i - 1], m[i])
      <3> TAKE i \in 1..(n + 1)
      <3>1. CASE i \in 1..n
        BY <1>6, <3>1, Zenon
      <3>2. CASE i = n + 1
        BY <1>7, <3>2
      <3> QED BY <2>1, <3>1, <3>2
    <2> QED BY <1>2, <1>8, <2>2 DEF Traces
  <1>10. Continues(calls, l, g, m, h)
    BY <1>1, <1>2, <1>5, <1>9 DEF Continues
  <1> QED BY <1>1, <1>2, <1>3, <1>5, <1>10

\* None, or one that is quiet.
QuietlyAfter(l, m) == m = l \/ \E e : Quiet(e) /\ m = Append(l, e)

\* It leaves what is open as it was.
LEMMA QuietContinues ==
  ASSUME NEW calls, NEW l \in Seq(Events), NEW m, NEW g, Traces(calls, l, g), QuietlyAfter(l, m)
  PROVE  \E h : Continues(calls, l, g, m, h) /\ h[Len(m)] = g[Len(l)]
  <1>1. CASE m = l
    <2>1. Continues(calls, l, g, m, g)
      BY <1>1 DEF Continues
    <2> QED BY <1>1, <2>1
  <1>2. ASSUME NEW e, Quiet(e), m = Append(l, e)
        PROVE  \E h : Continues(calls, l, g, m, h) /\ h[Len(m)] = g[Len(l)]
    <2>1. e \in Events /\ OpenedIn(calls, g[Len(l)], e) = g[Len(l)]
      BY <1>2, QuietOpens DEF Quiet
    <2> QED BY <1>2, <2>1, OneMoreEvent
  <1> QED BY <1>1, <1>2 DEF QuietlyAfter

\* One after the other.
LEMMA ContinuesOn ==
  ASSUME NEW calls, NEW l \in Seq(Events), NEW g, NEW m \in Seq(Events), NEW h, NEW p, NEW k,
         Continues(calls, l, g, m, h), Continues(calls, m, h, p, k)
  PROVE  Continues(calls, l, g, p, k)
  <1>1. PICK a, b : a = Len(l) /\ b = Len(m) /\ a \in Nat /\ b \in Nat
    <2>1. Len(l) \in Nat /\ Len(m) \in Nat
      OBVIOUS
    <2> QED BY <2>1
  <1>2. a <= b /\ \A i \in 0..a : h[i] = g[i]
    BY <1>1 DEF Continues
  <1>3. p \in Seq(Events) /\ Traces(calls, p, k) /\ b <= Len(p) /\ \A i \in 0..b : k[i] = h[i]
    BY <1>1 DEF Continues
  <1>4. Len(p) \in Nat /\ a <= Len(p)
    BY <1>1, <1>2, <1>3
  <1>5. \A i \in 0..a : k[i] = g[i]
    BY <1>1, <1>2, <1>3
  <1> QED BY <1>1, <1>3, <1>4, <1>5 DEF Continues

\* Opened is OpenedIn, for the calls cut off by now.
LEMMA OpenedNow ==
  \A open, event : Opened(open, event) = OpenedIn(cut, open, event)
  BY DEF Opened, OpenedIn, Closes, Shuts

-----------------------------------------------------------------------------
(* What is open inside the frames.                                         *)

\* Whether these contexts record the events of their steps.
RecordsIn(m, cs) == m # "Fast" /\ WithinLimit(Last(cs).loops)

\* A step begun among these contexts, with a call in progress if it has a frame of
\* such a kind.
With(m, cs, open, step, kind) ==
  IF ~RecordsIn(m, cs) THEN open
  ELSE IF kind \in CallKinds THEN Append(Append(open, Event("started", step)), Event("enter", step))
  ELSE Append(open, Event("started", step))

\* Events are open in it, as around it.
LEMMA WithTyped ==
  ASSUME NEW m, NEW cs, NEW open \in Seq(Events), NEW step \in Nat, NEW kind
  PROVE  With(m, cs, open, step, kind) \in Seq(Events)
  <1>1. Event("started", step) \in Events /\ Event("enter", step) \in Events
    BY DEF Event, Events, Steps
  <1>2. Append(open, Event("started", step)) \in Seq(Events)
    BY <1>1, Grown
  <1>3. Append(Append(open, Event("started", step)), Event("enter", step)) \in Seq(Events)
    BY <1>1, <1>2, Grown
  <1> QED BY <1>2, <1>3 DEF With

Loop(cs, loops) == [cs EXCEPT ![Len(cs)].loops = loops]

\* The contexts that are left when a frame is.
Around(f, cs) ==
  CASE f.kind = "loop" -> Loop(cs, Front(Last(cs).loops))
    [] f.kind \in CallKinds -> Front(cs)
    [] OTHER -> cs

\* The contexts as each frame has them, innermost as they are; and what is open in
\* each, the step that it belongs to included.
Chain(m, s, cs, k, o) ==
  /\ k[Len(s)] = cs /\ o[1] = <<>>
  /\ \A i \in 1..Len(s) : o[i] \in Seq(Events)
  /\ \A i \in 2..Len(s) :
       /\ k[i - 1] = Around(s[i], k[i])
       /\ o[i] = With(m, k[i - 1], o[i - 1], s[i].step, s[i].kind)

\* The log of a call's context begins where the call was entered.
Base(cs) == Last(cs).base

Based(s, l, k, o, g) ==
  \A i \in 2..Len(s) : s[i].kind \in CallKinds =>
    /\ Base(k[i]) \in 0..Len(l) /\ g[Base(k[i])] = o[i]
    /\ \A j \in 2..i : s[j].kind \in CallKinds => Base(k[j]) <= Base(k[i])

\* One more frame.
LEMMA ChainPush ==
  ASSUME NEW m, NEW s \in Seq(Frames), s # <<>>, NEW f \in Frames, f.step \in Nat,
         NEW l \in Seq(Events), NEW cs, NEW ds, Around(f, ds) = cs, NEW k, NEW o, NEW g,
         Chain(m, s, cs, k, o), Based(s, l, k, o, g),
         f.kind \in CallKinds =>
           /\ Base(ds) \in 0..Len(l) /\ g[Base(ds)] = With(m, cs, o[Len(s)], f.step, f.kind)
           /\ \A j \in 2..Len(s) : s[j].kind \in CallKinds => Base(k[j]) <= Base(ds)
  PROVE  \E kk, oo :
           /\ Chain(m, Append(s, f), ds, kk, oo) /\ Based(Append(s, f), l, kk, oo, g)
           /\ oo[Len(Append(s, f))] = With(m, cs, o[Len(s)], f.step, f.kind)
  <1>1. PICK n \in Nat \ {0} : n = Len(s)
    BY EmptySeq
  <1>2. PICK t \in Seq(Frames) : /\ t = Append(s, f) /\ Len(t) = n + 1 /\ t[n + 1] = f
                                 /\ \A i \in 1..n : t[i] = s[i]
    <2>1. /\ Append(s, f) \in Seq(Frames) /\ Len(Append(s, f)) = n + 1
          /\ Append(s, f)[n + 1] = f /\ \A i \in 1..n : Append(s, f)[i] = s[i]
      BY <1>1, Grown
    <2> QED BY <2>1
  <1>4. PICK now \in Seq(Events) : now = With(m, cs, o[n], f.step, f.kind)
    <2>1. o[n] \in Seq(Events)
      BY <1>1 DEF Chain
    <2> QED BY <2>1, WithTyped
  <1>5. PICK kk : kk = [i \in 1..(n + 1) |-> IF i = n + 1 THEN ds ELSE k[i]]
    OBVIOUS
  <1>6. PICK oo : oo = [i \in 1..(n + 1) |-> IF i = n + 1 THEN now ELSE o[i]]
    OBVIOUS
  <1>7. /\ kk[n + 1] = ds /\ oo[n + 1] = now
        /\ \A i \in 1..n : kk[i] = k[i] /\ oo[i] = o[i]
    BY <1>5, <1>6
  <1>8. \A i \in 1..(n + 1) : oo[i] \in Seq(Events)
    <2>1. \A i \in 1..n : o[i] \in Seq(Events)
      BY <1>1 DEF Chain
    <2>2. \A i \in 1..(n + 1) : i \in 1..n \/ i = n + 1
      OBVIOUS
    <2> QED BY <1>7, <2>1, <2>2
  <1>9. ASSUME NEW i \in 2..(n + 1)
        PROVE  /\ kk[i - 1] = Around(t[i], kk[i])
               /\ oo[i] = With(m, kk[i - 1], oo[i - 1], t[i].step, t[i].kind)
    <2>1. CASE i \in 2..n
      <3>1. i - 1 \in 1..n /\ i \in 1..n
        BY <2>1
      <3>2. kk[i - 1] = k[i - 1] /\ kk[i] = k[i] /\ oo[i - 1] = o[i - 1] /\ oo[i] = o[i] /\ t[i] = s[i]
        BY <1>2, <1>7, <3>1
      <3>3. /\ k[i - 1] = Around(s[i], k[i])
            /\ o[i] = With(m, k[i - 1], o[i - 1], s[i].step, s[i].kind)
        BY <1>1, <2>1 DEF Chain
      <3> QED BY <3>2, <3>3
    <2>2. CASE i = n + 1
      <3>1. i - 1 = n /\ n \in 1..n
        BY <2>2
      <3>2. kk[i - 1] = k[n] /\ kk[i] = ds /\ oo[i - 1] = o[n] /\ oo[i] = now /\ t[i] = f
        BY <1>2, <1>7, <2>2, <3>1
      <3>3. k[n] = cs
        BY <1>1 DEF Chain
      <3> QED BY <1>4, <3>2, <3>3
    <2> QED BY <2>1, <2>2
  <1>10. oo[1] = <<>>
    <2>1. 1 \in 1..n
      BY <1>1
    <2> QED BY <1>7, <2>1 DEF Chain
  <1>11. Chain(m, t, ds, kk, oo)
    BY <1>2, <1>7, <1>8, <1>9, <1>10 DEF Chain
  <1>12. Based(t, l, kk, oo, g)
    <2> SUFFICES ASSUME NEW i \in 2..(n + 1), t[i].kind \in CallKinds
                 PROVE  /\ Base(kk[i]) \in 0..Len(l) /\ g[Base(kk[i])] = oo[i]
                        /\ \A j \in 2..i : t[j].kind \in CallKinds => Base(kk[j]) <= Base(kk[i])
      BY <1>2 DEF Based
    <2>1. CASE i \in 2..n
      <3>1. /\ \A j \in 2..i : kk[j] = k[j] /\ t[j] = s[j]
            /\ kk[i] = k[i] /\ oo[i] = o[i] /\ t[i] = s[i]
        BY <1>2, <1>7, <2>1
      <3>2. /\ Base(k[i]) \in 0..Len(l) /\ g[Base(k[i])] = o[i]
            /\ \A j \in 2..i : s[j].kind \in CallKinds => Base(k[j]) <= Base(k[i])
        BY <1>1, <2>1, <3>1 DEF Based
      <3> QED BY <3>1, <3>2
    <2>2. CASE i = n + 1
      <3>1. t[i] = f /\ kk[i] = ds /\ oo[i] = now
        BY <1>2, <1>7, <2>2
      <3>2. f.kind \in CallKinds
        BY <3>1
      <3>3. Base(ds) \in 0..Len(l) /\ g[Base(ds)] = now
        BY <1>1, <1>4, <3>2
      <3>4. ASSUME NEW j \in 2..i, t[j].kind \in CallKinds
            PROVE  Base(kk[j]) <= Base(ds)
        <4>1. CASE j = n + 1
          BY <1>7, <3>3, <4>1
        <4>2. CASE j \in 2..n
          <5>1. t[j] = s[j] /\ kk[j] = k[j]
            BY <1>2, <1>7, <4>2
          <5> QED BY <1>1, <3>2, <3>4, <4>2, <5>1
        <4> QED BY <2>2, <4>1, <4>2
      <3> QED BY <3>1, <3>3, <3>4
    <2> QED BY <2>1, <2>2
  <1> QED BY <1>1, <1>2, <1>4, <1>7, <1>11, <1>12

\* One less.
LEMMA ChainPop ==
  ASSUME NEW m, NEW s \in Seq(Frames), s # <<>>, NEW f \in Frames,
         NEW l, NEW cs, NEW k, NEW o, NEW g,
         Chain(m, Append(s, f), cs, k, o), Based(Append(s, f), l, k, o, g)
  PROVE  /\ Chain(m, s, Around(f, cs), k, o) /\ Based(s, l, k, o, g)
         /\ o[Len(s)] \in Seq(Events)
         /\ o[Len(Append(s, f))] =
              With(m, Around(f, cs), o[Len(s)], f.step, f.kind)
         /\ f.kind \in CallKinds =>
              /\ Base(cs) \in 0..Len(l)
              /\ g[Base(cs)] = With(m, Around(f, cs), o[Len(s)], f.step, f.kind)
              /\ \A j \in 2..Len(s) : s[j].kind \in CallKinds => Base(k[j]) <= Base(cs)
  <1>1. PICK n \in Nat \ {0} : n = Len(s)
    BY EmptySeq
  <1>2. PICK t \in Seq(Frames) : /\ t = Append(s, f) /\ Len(t) = n + 1 /\ t[n + 1] = f
                                 /\ \A i \in 1..n : t[i] = s[i]
    <2>1. /\ Append(s, f) \in Seq(Frames) /\ Len(Append(s, f)) = n + 1
          /\ Append(s, f)[n + 1] = f /\ \A i \in 1..n : Append(s, f)[i] = s[i]
      BY <1>1, Grown
    <2> QED BY <2>1
  <1>3. /\ k[n + 1] = cs /\ o[1] = <<>> /\ \A i \in 1..(n + 1) : o[i] \in Seq(Events)
        /\ \A i \in 2..(n + 1) :
             /\ k[i - 1] = Around(t[i], k[i])
             /\ o[i] = With(m, k[i - 1], o[i - 1], t[i].step, t[i].kind)
    BY <1>2 DEF Chain
  <1>4. k[n] = Around(f, cs) /\ o[n + 1] = With(m, k[n], o[n], f.step, f.kind)
    <2>1. n + 1 \in 2..(n + 1) /\ n + 1 - 1 = n
      OBVIOUS
    <2> QED BY <1>2, <1>3, <2>1
  <1>5. Chain(m, s, Around(f, cs), k, o)
    <2>1. \A i \in 1..n : o[i] \in Seq(Events)
      BY <1>3
    <2>2. \A i \in 2..n : i \in 2..(n + 1) /\ t[i] = s[i]
      BY <1>2
    <2>3. \A i \in 2..n : /\ k[i - 1] = Around(s[i], k[i])
                          /\ o[i] = With(m, k[i - 1], o[i - 1], s[i].step, s[i].kind)
      <3> TAKE i \in 2..n
      <3>1. t[i] = s[i] /\ i \in 2..(n + 1)
        BY <2>2
      <3> QED BY <1>3, <3>1
    <2> QED BY <1>1, <1>3, <1>4, <2>1, <2>3 DEF Chain
  <1>6. \A i \in 2..(n + 1) : t[i].kind \in CallKinds =>
          /\ Base(k[i]) \in 0..Len(l) /\ g[Base(k[i])] = o[i]
          /\ \A j \in 2..i : t[j].kind \in CallKinds => Base(k[j]) <= Base(k[i])
    BY <1>2 DEF Based
  <1>7. Based(s, l, k, o, g)
    <2> SUFFICES ASSUME NEW i \in 2..n, s[i].kind \in CallKinds
                 PROVE  /\ Base(k[i]) \in 0..Len(l) /\ g[Base(k[i])] = o[i]
                        /\ \A j \in 2..i : s[j].kind \in CallKinds => Base(k[j]) <= Base(k[i])
      BY <1>1 DEF Based
    <2>1. i \in 2..(n + 1) /\ t[i] = s[i] /\ \A j \in 2..i : t[j] = s[j]
      BY <1>2
    <2> QED BY <1>6, <2>1
  <1>8. ASSUME f.kind \in CallKinds
        PROVE  /\ Base(cs) \in 0..Len(l) /\ g[Base(cs)] = o[n + 1]
               /\ \A j \in 2..n : s[j].kind \in CallKinds => Base(k[j]) <= Base(cs)
    <2>1. n + 1 \in 2..(n + 1) /\ t[n + 1].kind \in CallKinds /\ k[n + 1] = cs
      BY <1>2, <1>3, <1>8
    <2>2. \A j \in 2..n : j \in 2..(n + 1) /\ t[j] = s[j]
      BY <1>2
    <2> QED BY <1>6, <2>1, <2>2
  <1>9. o[n] \in Seq(Events)
    BY <1>3
  <1> QED BY <1>1, <1>2, <1>4, <1>5, <1>7, <1>8, <1>9

\* Another of the same kind, or the same one in other contexts.
LEMMA ChainSwap ==
  ASSUME NEW m, NEW s \in Seq(Frames), s # <<>>, NEW f \in Frames, NEW h \in Frames,
         f.step \in Nat, h.step = f.step, f.kind \in CallKinds <=> h.kind \in CallKinds,
         NEW l \in Seq(Events), NEW cs, NEW ds, Around(f, cs) = Around(h, ds),
         f.kind \in CallKinds => Base(ds) = Base(cs), NEW k, NEW o, NEW g,
         Chain(m, Append(s, f), cs, k, o), Based(Append(s, f), l, k, o, g)
  PROVE  \E kk, oo :
           /\ Chain(m, Append(s, h), ds, kk, oo) /\ Based(Append(s, h), l, kk, oo, g)
           /\ oo[Len(Append(s, h))] = o[Len(Append(s, f))]
  <1>1. PICK out : out = Around(f, cs) /\ out = Around(h, ds)
    OBVIOUS
  <1>2. /\ Chain(m, s, out, k, o) /\ Based(s, l, k, o, g)
        /\ o[Len(Append(s, f))] = With(m, out, o[Len(s)], f.step, f.kind)
        /\ f.kind \in CallKinds =>
             /\ Base(cs) \in 0..Len(l)
             /\ g[Base(cs)] = With(m, out, o[Len(s)], f.step, f.kind)
             /\ \A j \in 2..Len(s) : s[j].kind \in CallKinds => Base(k[j]) <= Base(cs)
    <2>1. /\ Chain(m, s, Around(f, cs), k, o) /\ Based(s, l, k, o, g)
          /\ o[Len(s)] \in Seq(Events)
          /\ o[Len(Append(s, f))] = With(m, Around(f, cs), o[Len(s)], f.step, f.kind)
          /\ f.kind \in CallKinds =>
               /\ Base(cs) \in 0..Len(l)
               /\ g[Base(cs)] = With(m, Around(f, cs), o[Len(s)], f.step, f.kind)
               /\ \A j \in 2..Len(s) : s[j].kind \in CallKinds => Base(k[j]) <= Base(cs)
      BY ChainPop
    <2> QED BY <1>1, <2>1, Zenon
  <1>3. With(m, out, o[Len(s)], f.step, f.kind) = With(m, out, o[Len(s)], h.step, h.kind)
    BY DEF With
  <1>4. h.kind \in CallKinds =>
          /\ Base(ds) \in 0..Len(l) /\ g[Base(ds)] = With(m, out, o[Len(s)], h.step, h.kind)
          /\ \A j \in 2..Len(s) : s[j].kind \in CallKinds => Base(k[j]) <= Base(ds)
    BY <1>2, <1>3
  <1>5. \E kk, oo :
           /\ Chain(m, Append(s, h), ds, kk, oo) /\ Based(Append(s, h), l, kk, oo, g)
           /\ oo[Len(Append(s, h))] = With(m, out, o[Len(s)], h.step, h.kind)
    <2>1. h.step \in Nat /\ Around(h, ds) = out
      BY <1>1
    <2> QED BY <1>2, <1>4, <2>1, ChainPush
  <1> QED BY <1>2, <1>3, <1>5

\* The log goes on.
LEMMA BasedOn ==
  ASSUME NEW s, NEW calls, NEW l \in Seq(Events), NEW p, NEW k, NEW o, NEW g, NEW h,
         Based(s, l, k, o, g), Continues(calls, l, g, p, h)
  PROVE  Based(s, p, k, o, h)
  <1>1. Len(l) \in Nat /\ Len(p) \in Nat /\ Len(l) <= Len(p) /\ \A i \in 0..Len(l) : h[i] = g[i]
    BY DEF Continues
  <1> SUFFICES ASSUME NEW i \in 2..Len(s), s[i].kind \in CallKinds
               PROVE  /\ Base(k[i]) \in 0..Len(p) /\ h[Base(k[i])] = o[i]
                      /\ \A j \in 2..i : s[j].kind \in CallKinds => Base(k[j]) <= Base(k[i])
    BY DEF Based
  <1>2. PICK b : b = Base(k[i])
    OBVIOUS
  <1>3. /\ b \in 0..Len(l) /\ g[b] = o[i]
        /\ \A j \in 2..i : s[j].kind \in CallKinds => Base(k[j]) <= b
    BY <1>2 DEF Based
  <1> QED BY <1>1, <1>2, <1>3

\* Or loses what the innermost call had logged, and no step of it was finished.
LEMMA TracesCut ==
  ASSUME NEW calls, NEW l \in Seq(Events), NEW g, NEW step, NEW b \in 0..Len(l),
         Traces(calls, l, g),
         \A i \in 1..Len(l) : l[i].type = "finished" => l[i].step # step
  PROVE  /\ SubSeq(l, 1, b) \in Seq(Events) /\ Len(SubSeq(l, 1, b)) = b
         /\ \A i \in 1..b : SubSeq(l, 1, b)[i] = l[i]
         /\ Traces(calls \cup {step}, SubSeq(l, 1, b), g)
  <1>1. PICK n \in Nat : n = Len(l) /\ b \in 0..n
    <2>1. Len(l) \in Nat
      OBVIOUS
    <2> QED BY <2>1
  <1>2. \A i \in 1..b : l[i] \in Events /\ i \in 1..n
    BY <1>1, ElementOfSeq
  <1>3. PICK m \in Seq(Events) : m = SubSeq(l, 1, b) /\ Len(m) = b /\ \A i \in 1..b : m[i] = l[i]
    <2>1. /\ SubSeq(l, 1, b) \in Seq(Events)
          /\ Len(SubSeq(l, 1, b)) = IF 1 <= b THEN b - 1 + 1 ELSE 0
          /\ \A i \in 1..(b - 1 + 1) : SubSeq(l, 1, b)[i] = l[1 + i - 1]
      BY <1>2, SubSeqProperties
    <2>2. b - 1 + 1 = b /\ Len(SubSeq(l, 1, b)) = b /\ \A i \in 1..b : 1 + i - 1 = i
      BY <1>1, <2>1
    <2>3. \A i \in 1..b : SubSeq(l, 1, b)[i] = l[i]
      BY <2>1, <2>2
    <2> QED BY <2>1, <2>2, <2>3
  <1>4. ASSUME NEW i \in 1..b
        PROVE  g[i] = OpenedIn(calls \cup {step}, g[i - 1], m[i])
    <2>1. m[i] = l[i] /\ i \in 1..n
      BY <1>2, <1>3
    <2>2. g[i] = OpenedIn(calls, g[i - 1], l[i])
      BY <1>1, <2>1 DEF Traces
    <2>3. l[i].type = "finished" => l[i].step # step
      BY <1>1, <2>1
    <2>4. OpenedIn(calls \cup {step}, g[i - 1], l[i]) = OpenedIn(calls, g[i - 1], l[i])
      BY <2>3 DEF OpenedIn
    <2> QED BY <2>1, <2>2, <2>4
  <1> QED BY <1>3, <1>4 DEF Traces

\* The loops of the innermost context, one after the other.
LEMMA Relooped ==
  ASSUME NEW cs \in Seq(Contexts), cs # <<>>, NEW q \in Seq(Nat)
  PROVE  /\ Loop(cs, q) \in Seq(Contexts) /\ Loop(cs, q) # <<>> /\ Last(Loop(cs, q)).loops = q
         /\ Loop(cs, Last(cs).loops) = cs
         /\ \A r \in Seq(Nat) : Loop(Loop(cs, q), r) = Loop(cs, r)
  <1>1. PICK n \in Nat \ {0} : n = Len(cs) /\ n \in DOMAIN cs /\ cs[n] \in Contexts /\ Last(cs) = cs[n]
    <2>1. Len(cs) \in Nat \ {0} /\ Last(cs) = cs[Len(cs)] /\ Last(cs) \in Contexts
      BY Ends
    <2>2. DOMAIN cs = 1..Len(cs)
      OBVIOUS
    <2>3. Len(cs) \in DOMAIN cs /\ cs[Len(cs)] \in Contexts
      BY <2>1, <2>2
    <2> QED BY <2>1, <2>3, Zenon
  <1>2. \A k \in Contexts : \A r \in Seq(Nat) :
          /\ [k EXCEPT !.loops = r] \in Contexts /\ [k EXCEPT !.loops = r].loops = r
          /\ [k EXCEPT !.loops = k.loops] = k
          /\ \A t \in Seq(Nat) : [[k EXCEPT !.loops = r] EXCEPT !.loops = t] = [k EXCEPT !.loops = t]
    BY DEF Contexts
  <1>3. \A r : Loop(cs, r) = [cs EXCEPT ![n] = [cs[n] EXCEPT !.loops = r]]
    BY <1>1 DEF Loop
  <1>4. PICK a \in Contexts : a = [cs[n] EXCEPT !.loops = q] /\ a.loops = q
    <2>1. [cs[n] EXCEPT !.loops = q] \in Contexts /\ [cs[n] EXCEPT !.loops = q].loops = q
      BY <1>1, <1>2
    <2> QED BY <2>1, Zenon
  <1>5. PICK ds \in Seq(Contexts) : ds = Loop(cs, q) /\ ds = [cs EXCEPT ![n] = a]
    <2>1. Loop(cs, q) = [cs EXCEPT ![n] = a]
      BY <1>3, <1>4
    <2>2. [cs EXCEPT ![n] = a] \in Seq(Contexts)
      BY <1>1, ExceptSeq
    <2> QED BY <2>1, <2>2
  <1>6. Len(ds) = n /\ ds[n] = a /\ n \in DOMAIN ds
    BY <1>1, <1>5
  <1>7. ds # <<>> /\ Last(ds) = a
    BY <1>6, EmptySeq DEF Last
  <1>8. Loop(cs, Last(cs).loops) = cs
    <2>1. [cs[n] EXCEPT !.loops = cs[n].loops] = cs[n]
      BY <1>1 DEF Contexts
    <2>2. [cs EXCEPT ![n] = cs[n]] = cs
      BY <1>1
    <2> QED BY <1>1, <1>3, <2>1, <2>2
  <1>9. \A r \in Seq(Nat) : Loop(ds, r) = Loop(cs, r)
    <2> TAKE r \in Seq(Nat)
    <2>1. PICK b \in Contexts : b = [cs[n] EXCEPT !.loops = r] /\ b = [a EXCEPT !.loops = r]
      <3>1. /\ [cs[n] EXCEPT !.loops = r] \in Contexts
            /\ [[cs[n] EXCEPT !.loops = q] EXCEPT !.loops = r] = [cs[n] EXCEPT !.loops = r]
        BY <1>1, <1>2
      <3> QED BY <1>4, <3>1, Zenon
    <2>2. Loop(ds, r) = [ds EXCEPT ![n] = b]
      BY <1>6, <2>1 DEF Loop
    <2>3. Loop(cs, r) = [cs EXCEPT ![n] = b]
      BY <1>3, <2>1
    <2>4. [[cs EXCEPT ![n] = a] EXCEPT ![n] = b] = [cs EXCEPT ![n] = b]
      BY <1>1
    <2> QED BY <1>5, <2>2, <2>3, <2>4
  <1> QED BY <1>4, <1>5, <1>7, <1>8, <1>9

\* A loop that is entered, and its next iteration.
LEMMA AroundLoop ==
  ASSUME NEW cs \in Seq(Contexts), cs # <<>>, NEW f, f.kind = "loop", NEW n \in Nat
  PROVE  /\ Around(f, Loop(cs, Append(Last(cs).loops, n))) = cs
         /\ Last(cs).loops # <<>> =>
              Around(f, Loop(cs, Append(Front(Last(cs).loops), n))) = Around(f, cs)
  <1>1. PICK q \in Seq(Nat) : q = Last(cs).loops
    <2>1. Last(cs) \in Contexts
      BY Ends
    <2> QED BY <2>1 DEF Contexts
  <1>2. ASSUME NEW r \in Seq(Nat)
        PROVE  Around(f, Loop(cs, Append(r, n))) = Loop(cs, r)
    <2>1. PICK t \in Seq(Nat) : t = Append(r, n) /\ Front(t) = r
      <3>1. Append(r, n) \in Seq(Nat) /\ Front(Append(r, n)) = r
        BY Grown, FrontOfGrown
      <3> QED BY <3>1
    <2>2. Around(f, Loop(cs, t)) = Loop(Loop(cs, t), Front(Last(Loop(cs, t)).loops))
      BY DEF Around, CallKinds
    <2>3. Last(Loop(cs, t)).loops = t /\ Loop(Loop(cs, t), r) = Loop(cs, r)
      BY Relooped
    <2> QED BY <2>1, <2>2, <2>3
  <1>3. Loop(cs, q) = cs
    BY <1>1, Relooped
  <1>4. q # <<>> => Front(q) \in Seq(Nat)
    BY Ends
  <1>5. Around(f, cs) = Loop(cs, Front(q))
    BY <1>1 DEF Around, CallKinds
  <1> QED BY <1>1, <1>2, <1>3, <1>4, <1>5

-----------------------------------------------------------------------------
(* What the steps do, with what they record.                               *)

\* One or two more at the end.
LEMMA OneOrTwoMore ==
  ASSUME NEW S, NEW l \in Seq(S), NEW a \in S, NEW b \in S
  PROVE  l \o <<>> = l /\ l \o <<a>> = Append(l, a) /\ l \o <<a, b>> = Append(Append(l, a), b)
  <1>1. PICK n \in Nat : n = Len(l)
    OBVIOUS
  <1>2. l \o <<>> = l
    OBVIOUS
  <1>3. l \o <<a>> = Append(l, a)
    <2>1. /\ l \o <<a>> \in Seq(S) /\ Append(l, a) \in Seq(S)
          /\ Len(l \o <<a>>) = n + 1 /\ Len(Append(l, a)) = n + 1
          /\ \A i \in 1..(n + 1) : (l \o <<a>>)[i] = Append(l, a)[i]
      BY <1>1
    <2> QED BY <2>1, SeqEqual
  <1>4. l \o <<a, b>> = Append(Append(l, a), b)
    <2>1. /\ l \o <<a, b>> \in Seq(S) /\ Append(Append(l, a), b) \in Seq(S)
          /\ Len(l \o <<a, b>>) = n + 2 /\ Len(Append(Append(l, a), b)) = n + 2
          /\ \A i \in 1..(n + 2) : (l \o <<a, b>>)[i] = Append(Append(l, a), b)[i]
      BY <1>1
    <2> QED BY <2>1, SeqEqual
  <1> QED BY <1>2, <1>3, <1>4

Recording == RecordsIn(mode, contexts)
InStep == pc \in {"step", "returned"}

\* At most one event, which is quiet.
Quietly == log' = log \/ \E step \in {at, Top.step} : log' = Append(log, Event("noted", step))

\* An event that is recorded within the limit.
LEMMA NotedAs ==
  ASSUME log \in Seq(Events), NEW step \in Nat,
         NEW type \in {"started", "finished", "error", "noted", "enter", "leave"}, Note(type, step)
  PROVE  log' = IF Recording THEN Append(log, Event(type, step)) ELSE log
  <1>1. Event(type, step) \in Events
    BY DEF Event, Events, Steps
  <1>2. log \o <<>> = log /\ log \o <<Event(type, step)>> = Append(log, Event(type, step))
    BY <1>1, OneOrTwoMore
  <1>3. log' = log \o Verbose(<<Event(type, step)>>, Context.loops)
    BY DEF Note, Record
  <1>4. Verbose(<<Event(type, step)>>, Context.loops) = IF Recording THEN <<Event(type, step)>> ELSE <<>>
    BY DEF Verbose, Recording, RecordsIn, Context
  <1> QED BY <1>2, <1>3, <1>4

\* One that may be, and is about nothing that opens.
LEMMA NotedQuietly ==
  ASSUME log \in Seq(Events), NEW step \in Nat, step \in {at, Top.step},
         Note("noted", step) \/ UNCHANGED logs
  PROVE  Quietly
  BY NotedAs DEF Quietly, logs

\* The step, its body and the log stay where they are.
Rests ==
  /\ UNCHANGED <<mode, stack, contexts, at, begun, cut>> /\ Quietly
  /\ (InStep' <=> InStep) /\ (pc' = "step" => pc = "step")

Begins ==
  /\ UNCHANGED <<mode, stack, contexts, cut>>
  /\ ~InStep /\ pc' = "step" /\ begun' = begun + 1 /\ at' = begun + 1
  /\ log' = IF Recording THEN Append(log, Event("started", begun + 1)) ELSE log

Finishes ==
  /\ UNCHANGED <<mode, stack, contexts, at, begun, cut>>
  /\ pc = "returned" /\ ~InStep'
  /\ \E l \in {log, Append(log, Event("error", at))} :
       log' = IF Recording THEN Append(l, Event("finished", at)) ELSE l

Iterates ==
  /\ UNCHANGED <<mode, stack, at, begun, cut>> /\ Quietly
  /\ ~InStep /\ ~InStep'
  /\ Top.kind = "loop" /\ Around(Top, contexts') = Around(Top, contexts)

EntersBody ==
  /\ UNCHANGED <<mode, at, begun, cut>> /\ Quietly
  /\ pc = "step" /\ ~InStep'
  /\ \E kind \in Plain \cup {"loop"} :
       /\ stack' = Append(stack, Frame(kind, at))
       /\ Around(Frame(kind, at), contexts') = contexts

EntersCall ==
  /\ UNCHANGED <<mode, at, begun, cut>>
  /\ pc = "step" /\ ~InStep'
  /\ log' = IF Recording THEN Append(log, Event("enter", at)) ELSE log
  /\ stack' = Append(stack, Frame("call", at))
  /\ Around(Frame("call", at), contexts') = contexts /\ Base(contexts') = Len(log')

ChangesBody ==
  /\ UNCHANGED <<mode, contexts, at, begun, cut>> /\ Quietly
  /\ ~InStep /\ ~InStep'
  /\ \E kinds \in {<<"try", "catch">>, <<"call", "inner">>} :
       Top.kind = kinds[1] /\ stack' = Append(Front(stack), Frame(kinds[2], Top.step))

LeavesBody ==
  /\ UNCHANGED <<mode, begun, cut>> /\ Quietly
  /\ ~InStep /\ pc' = "returned" /\ at' = Top.step
  /\ Top.kind \in Plain \cup {"loop"}
  /\ stack' = Front(stack) /\ contexts' = Around(Top, contexts)

ReturnsFromCall ==
  /\ UNCHANGED <<mode, begun, cut>>
  /\ ~InStep /\ pc' = "returned" /\ at' = Top.step
  /\ Top.kind \in CallKinds
  /\ stack' = Front(stack) /\ contexts' = Around(Top, contexts)
  /\ \E l \in {Append(log, Left), Append(Append(log, Left), Event("noted", Top.step))} :
       log' = IF RecordsIn(mode, contexts') THEN l ELSE log

LosesCall ==
  /\ UNCHANGED <<mode, begun>>
  /\ ~InStep /\ pc' = "returned" /\ at' = Top.step
  /\ Top.kind \in CallKinds
  /\ stack' = Front(stack) /\ contexts' = Around(Top, contexts)
  /\ log' = SubSeq(log, 1, Base(contexts)) /\ cut' = cut \cup {Top.step}

\* Every step is a move of one of these kinds.
LEMMA Moved ==
  ASSUME Kept, [Next]_vars
  PROVE  \/ Rests \/ Begins \/ Finishes \/ Iterates \/ EntersBody \/ EntersCall
         \/ ChangesBody \/ LeavesBody \/ ReturnsFromCall \/ LosesCall
  <1>1. /\ log \in Seq(Events) /\ Flow /\ at \in Nat /\ begun \in Nat /\ result \in Results
        /\ Top.step \in Nat /\ contexts \in Seq(Contexts) /\ contexts # <<>>
        /\ Context = Last(contexts) /\ Context.loops \in Seq(Nat)
        /\ Top.kind = "loop" => Context.loops # <<>>
    BY Innermost DEF Kept, Logs, Flow, Context
  <1>2. UNCHANGED logs => Quietly
    BY DEF Quietly, logs
  <1>3. CASE Refuse \/ Start \/ Finish \/ EndSteps \/ NextElement \/ AgainLoop \/ UNCHANGED vars
    BY <1>3 DEF Refuse, Start, Finish, EndSteps, NextElement, AgainLoop, Goes, vars, running, logs,
                Rests, InStep, Quietly
  <1>4. CASE Pass \/ Store \/ Jump \/ Fail
    <2>1. Quietly
      BY <1>1, <1>2, <1>4, NotedQuietly DEF Pass, Store, Jump, Fail, MayNote
    <2> QED BY <1>4, <2>1 DEF Pass, Store, Jump, Fail, Returns, Raises, StoresInto, running, Rests, InStep
  <1>5. CASE BeginStep
    <2>1. log' = IF Recording THEN Append(log, Event("started", begun + 1)) ELSE log
      BY <1>1, <1>5, NotedAs DEF BeginStep
    <2> QED BY <1>5, <2>1 DEF BeginStep, Goes, running, Begins, InStep
  <1>6. CASE FinishStep
    <2>1. PICK error, finished \in Events : error = Event("error", at) /\ finished = Event("finished", at)
      BY <1>1 DEF Event, Events, Steps
    <2>2. PICK events : /\ events = (IF result = "error" THEN <<error>> ELSE <<>>)
                                      \o Verbose(<<finished>>, Context.loops)
                        /\ log' = log \o events
      BY <1>6, <2>1 DEF FinishStep, Record
    <2>3. Verbose(<<finished>>, Context.loops) = IF Recording THEN <<finished>> ELSE <<>>
      BY DEF Verbose, Recording, RecordsIn, Context
    <2>4. <<>> \o <<finished>> = <<finished>> /\ <<>> \o <<>> = <<>>
          /\ <<error>> \o <<finished>> = <<error, finished>> /\ <<error>> \o <<>> = <<error>>
      <3>1. <<error>> \in Seq(Events) /\ <<>> \in Seq(Events)
        BY <2>1
      <3>2. /\ <<>> \o <<finished>> = Append(<<>>, finished) /\ <<>> \o <<>> = <<>>
            /\ <<error>> \o <<finished>> = Append(<<error>>, finished) /\ <<error>> \o <<>> = <<error>>
        BY <2>1, <3>1, OneOrTwoMore
      <3>3. Append(<<>>, finished) = <<finished>>
        OBVIOUS
      <3>4. Append(<<error>>, finished) = <<error, finished>>
        <4>1. /\ Append(<<error>>, finished) \in Seq(Events) /\ Len(Append(<<error>>, finished)) = 2
              /\ \A i \in 1..2 : Append(<<error>>, finished)[i] = IF i = 1 THEN error ELSE finished
          BY <2>1
        <4>2. /\ <<error, finished>> \in Seq(Events) /\ Len(<<error, finished>>) = 2
              /\ \A i \in 1..2 : <<error, finished>>[i] = IF i = 1 THEN error ELSE finished
          BY <2>1
        <4>3. \A i \in 1..2 : Append(<<error>>, finished)[i] = <<error, finished>>[i]
          BY <4>1, <4>2
        <4> QED BY <4>1, <4>2, <4>3, SeqEqual
      <3> QED BY <3>2, <3>3, <3>4
    <2>5. log \o <<>> = log /\ log \o <<error>> = Append(log, error)
          /\ log \o <<finished>> = Append(log, finished)
          /\ log \o <<error, finished>> = Append(Append(log, error), finished)
      BY <1>1, OneOrTwoMore
    <2>6. \E l \in {log, Append(log, error)} :
            log' = IF Recording THEN Append(l, finished) ELSE l
      BY <2>2, <2>3, <2>4, <2>5
    <2> QED BY <1>6, <2>1, <2>6 DEF FinishStep, running, Finishes, InStep
  <1>7. CASE NextIteration
    <2>1. PICK n \in Nat : n = IF Last(Context.loops) < LoopLimit
                               THEN Last(Context.loops) + 1 ELSE Last(Context.loops)
      <3>1. Last(Context.loops) \in Nat
        BY <1>1, <1>7, Ends DEF NextIteration, Flow
      <3> QED BY <3>1
    <2>2. Iterate(Append(Front(Context.loops), n))
      BY <1>7, <2>1 DEF NextIteration
    <2>3. contexts' = Loop(contexts, Append(Front(Last(contexts).loops), n)) /\ Top.kind = "loop"
      BY <1>1, <1>7, <2>2 DEF Iterate, WithLoops, Loop, NextIteration, Flow
    <2>4. Around(Top, contexts') = Around(Top, contexts)
      BY <1>1, <2>3, AroundLoop
    <2>5. Quietly
      <3>1. PICK e \in Events : e = Event("noted", Top.step)
        BY <1>1 DEF Event, Events, Steps
      <3>2. log \o <<>> = log /\ log \o <<e>> = Append(log, e)
        BY <1>1, OneOrTwoMore
      <3>3. log' = log \/ log' = Append(log, e)
        BY <2>2, <3>1, <3>2 DEF Iterate, Record, Verbose, logs
      <3> QED BY <3>1, <3>3 DEF Quietly
    <2> QED BY <1>7, <2>2, <2>3, <2>4, <2>5
        DEF NextIteration, Iterate, Goes, StoresInto, running, Iterates, InStep
  <1>8. CASE Branch \/ EnterTry
    <2>1. Quietly
      BY <1>1, <1>2, <1>8, NotedQuietly DEF Branch, EnterTry, MayNote
    <2>2. PICK kind \in {"block", "try"} : Enters(kind, "steps")
      BY <1>8 DEF Branch, EnterTry
    <2>3. contexts' = contexts /\ UNCHANGED <<mode, at, begun, cut>> /\ pc = "step"
      BY <1>8 DEF Branch, EnterTry, running
    <2>4. Around(Frame(kind, at), contexts') = contexts
      BY <2>2, <2>3 DEF Around, Frame, CallKinds
    <2>5. kind \in Plain \cup {"loop"}
      BY DEF Plain
    <2>6. stack' = Append(stack, Frame(kind, at)) /\ ~InStep'
      BY <2>2 DEF Enters, Goes, InStep
    <2> QED BY <2>1, <2>3, <2>4, <2>5, <2>6 DEF EntersBody
  <1>9. CASE EnterLoop
    <2>1. PICK n \in Nat : WithLoops(Append(Context.loops, n))
      <3>1. PICK used \in Nat : used = IF Context.loops = <<>> THEN 0 ELSE Last(Context.loops)
        BY <1>1, Ends
      <3>2. used \div LoopShare \in Nat
        BY ExecutorAssumption
      <3> QED BY <1>9, <3>1, <3>2 DEF EnterLoop
    <2>2. contexts' = Loop(contexts, Append(Last(contexts).loops, n))
      BY <1>1, <2>1 DEF WithLoops, Loop
    <2>3. Around(Frame("loop", at), contexts') = contexts
      <3>1. Frame("loop", at).kind = "loop"
        BY DEF Frame
      <3> QED BY <1>1, <2>2, <3>1, AroundLoop
    <2>4. stack' = Append(stack, Frame("loop", at)) /\ ~InStep' /\ pc = "step" /\ Quietly
          /\ UNCHANGED <<mode, at, begun, cut>>
      BY <1>2, <1>9 DEF EnterLoop, Enters, Goes, InStep, running
    <2> QED BY <2>3, <2>4 DEF EntersBody
  <1>10. CASE EnterCall
    <2>1. log' = IF Recording THEN Append(log, Event("enter", at)) ELSE log
      BY <1>1, <1>10, NotedAs DEF EnterCall
    <2>2. Len(log') \in Nat
      <3>1. Event("enter", at) \in Events
        BY <1>1 DEF Event, Events, Steps
      <3>2. log' \in Seq(Events)
        BY <1>1, <2>1, <3>1, Grown
      <3> QED BY <3>2
    <2>3. PICK k \in Contexts : k = [base |-> Len(log'), loops |-> <<>>] /\ k.base = Len(log')
      <3>1. PICK b \in Nat : b = Len(log')
        BY <2>2
      <3>2. PICK l \in Seq(Nat) : l = <<>>
        <4>1. <<>> \in Seq(Nat)
          OBVIOUS
        <4> QED BY <4>1
      <3>3. [base |-> b, loops |-> l] \in Contexts /\ [base |-> b, loops |-> l].base = b
        BY DEF Contexts
      <3> QED BY <3>1, <3>2, <3>3
    <2>4. contexts' = Append(contexts, k)
      BY <1>10, <2>3 DEF EnterCall
    <2>5. Front(contexts') = contexts /\ Last(contexts') = k
      BY <1>1, <2>4, FrontOfGrown
    <2>6. Around(Frame("call", at), contexts') = contexts /\ Base(contexts') = Len(log')
      BY <2>3, <2>5 DEF Around, Frame, CallKinds, Base
    <2> QED BY <1>10, <2>1, <2>6 DEF EnterCall, Enters, Goes, running, EntersCall, InStep
  <1>11. CASE Catch
    <2>1. Quietly
      BY <1>1, <1>11, NotedQuietly DEF Catch
    <2>2. Top.kind = "try" /\ stack' = Append(Front(stack), Frame("catch", Top.step))
      BY <1>11 DEF Catch, Caught
    <2> QED BY <1>11, <2>1, <2>2 DEF Catch, Goes, StoresInto, ChangesBody, InStep
  <1>12. CASE EnterInner
    BY <1>2, <1>12 DEF EnterInner, Goes, running, ChangesBody, InStep
  <1>13. CASE DropElement \/ LeaveBlock \/ LeaveTry
    <2>1. Quietly
      BY <1>1, <1>2, <1>13, NotedQuietly DEF DropElement, LeaveBlock, LeaveTry
    <2>2. PICK outcome : Leaves(outcome)
      BY <1>13 DEF DropElement, LeaveBlock, LeaveTry
    <2>3. /\ Top.kind \in Plain /\ contexts' = contexts /\ pc = "body"
          /\ UNCHANGED <<mode, begun, cut>>
      BY <1>13 DEF DropElement, LeaveBlock, LeaveTry, running, Plain
    <2>4. contexts' = Around(Top, contexts)
      BY <2>3 DEF Around, Plain, CallKinds
    <2> QED BY <2>1, <2>2, <2>3, <2>4 DEF Leaves, Returns, LeavesBody, InStep
  <1>14. CASE EndLoop \/ FailLoop \/ BreakLoop \/ AbortLoop
    <2>1. PICK outcome : LeavesLoop(outcome)
      BY <1>14 DEF EndLoop, FailLoop, BreakLoop, AbortLoop
    <2>2. Top.kind = "loop" /\ pc \in {"iterate", "body"} /\ Quietly /\ UNCHANGED <<mode, begun, cut>>
      BY <1>1, <1>2, <1>14 DEF EndLoop, FailLoop, BreakLoop, AbortLoop, Flow, running
    <2>3. contexts' = Around(Top, contexts)
      BY <1>1, <2>1, <2>2 DEF LeavesLoop, WithLoops, Around, Loop, CallKinds
    <2> QED BY <2>1, <2>2, <2>3 DEF LeavesLoop, Leaves, Returns, LeavesBody, InStep
  <1>15. CASE LeaveCall \/ AbortCall
    <2>1. PICK left, noted \in Events : left = Left /\ noted = Event("noted", Top.step)
      BY <1>1 DEF Left, Event, Events, Steps
    <2>2. PICK events \in {<<left>>, <<left, noted>>} : Join(events)
      BY <1>15, <2>1 DEF LeaveCall, AbortCall
    <2>3. PICK outcome : Leaves(outcome)
      BY <1>15 DEF LeaveCall, AbortCall
    <2>4. Top.kind \in CallKinds /\ pc = "body" /\ UNCHANGED <<mode, begun, cut>>
      BY <1>15 DEF LeaveCall, AbortCall, Completed, CallKinds, running, StoresInto
    <2>5. contexts' = Front(contexts) /\ contexts' = Around(Top, contexts)
      BY <2>2, <2>4 DEF Join, Around, CallKinds
    <2>6. log' = log \o (IF RecordsIn(mode, contexts') THEN events ELSE <<>>)
      BY <2>2, <2>5 DEF Join, Record, Verbose, RecordsIn
    <2>7. log \o <<>> = log /\ log \o <<left>> = Append(log, left)
          /\ log \o <<left, noted>> = Append(Append(log, left), noted)
      BY <1>1, OneOrTwoMore
    <2>8. \E l \in {Append(log, left), Append(Append(log, left), noted)} :
            log' = IF RecordsIn(mode, contexts') THEN l ELSE log
      BY <2>2, <2>6, <2>7
    <2> QED BY <2>1, <2>3, <2>4, <2>5, <2>8 DEF Leaves, Returns, ReturnsFromCall, InStep
  <1>16. CASE AbortInner
    <2>1. Top.kind \in CallKinds /\ contexts' = Around(Top, contexts)
      BY <1>16 DEF AbortInner, Around, CallKinds
    <2> QED BY <1>16, <2>1 DEF AbortInner, Leaves, Returns, running, LosesCall, InStep, Base, Context
  <1> QED BY <1>3, <1>4, <1>5, <1>6, <1>7, <1>8, <1>9, <1>10, <1>11, <1>12, <1>13, <1>14, <1>15, <1>16
      DEF Next

-----------------------------------------------------------------------------
(* The steps that are in progress.                                         *)

\* Inner steps have begun after outer ones, and no call of theirs was cut off.
Apart ==
  /\ \A c \in cut : c \in Nat /\ c <= begun
  /\ \A i \in 1..Len(stack) : stack[i].step <= begun /\ stack[i].step \notin cut
  /\ \A i, j \in 1..Len(stack) : i < j => stack[i].step < stack[j].step
  /\ at <= begun /\ (InStep => Top.step < at)
  /\ pc = "step" => at \notin cut

Within(l, last) == \A i \in 1..Len(l) : l[i].step <= last
FinishedIn(l, step) == \E i \in 1..Len(l) : l[i].type = "finished" /\ l[i].step = step

\* The log tells of steps that have begun, and of the end of none in progress.
ToldSoFar ==
  /\ Within(log, begun)
  /\ \A i \in 1..Len(stack) : ~FinishedIn(log, stack[i].step)
  /\ InStep => ~FinishedIn(log, at)

\* The frame that a step enters.
LEMMA FrameOf ==
  ASSUME NEW kind \in Kinds, NEW step \in Nat
  PROVE  Frame(kind, step) \in Frames /\ Frame(kind, step).kind = kind /\ Frame(kind, step).step = step
  BY DEF Frame, Frames, Steps

\* Each kind of move keeps the steps apart.
LEMMA ApartStep ==
  ASSUME Kept, Apart,
         \/ Rests \/ Begins \/ Finishes \/ Iterates \/ EntersBody \/ EntersCall
         \/ ChangesBody \/ LeavesBody \/ ReturnsFromCall \/ LosesCall
  PROVE  Apart'
  <1>1. PICK n \in Nat \ {0} : n = Len(stack)
    BY Innermost DEF Kept
  <1>2. /\ at \in Nat /\ begun \in Nat /\ stack \in Seq(Frames) /\ DOMAIN stack = 1..n
        /\ Top = stack[n] /\ Top.step \in Nat /\ Top \in Frames
        /\ Front(stack) \in Seq(Frames) /\ Len(Front(stack)) = n - 1
        /\ \A i \in 1..(n - 1) : Front(stack)[i] = stack[i]
    BY <1>1, Innermost DEF Kept, Framed, Flow
  <1>3. \A i \in 1..n : stack[i].step \in Nat
    <2>1. \A i \in 1..n : stack[i] \in Frames
      BY <1>1, <1>2, ElementOfSeq
    <2>2. \A f \in Frames : f.step \in Nat
      BY DEF Frames, Steps
    <2> QED BY <2>1, <2>2
  <1>4. /\ \A c \in cut : c \in Nat /\ c <= begun
        /\ \A i \in 1..n : stack[i].step <= begun /\ stack[i].step \notin cut
        /\ \A i, j \in 1..n : i < j => stack[i].step < stack[j].step
        /\ at <= begun /\ (InStep => Top.step < at)
        /\ pc = "step" => at \notin cut
    BY <1>1 DEF Apart
  <1>5. CASE Rests \/ Finishes \/ Iterates
    BY <1>5 DEF Rests, Finishes, Iterates, InStep, Apart, Top
  <1>6. CASE Begins
    <2>1. /\ stack' = stack /\ cut' = cut /\ pc' = "step" /\ begun' = begun + 1 /\ at' = begun + 1
          /\ Top' = Top
      BY <1>6 DEF Begins, Top
    <2>2. Top.step <= begun /\ begun + 1 \notin cut
      BY <1>2, <1>4
    <2>3. \A c \in cut : c \in Nat /\ c <= begun + 1
      BY <1>2, <1>4
    <2>4. \A i \in 1..n : stack[i].step <= begun + 1 /\ stack[i].step \notin cut
      BY <1>2, <1>3, <1>4
    <2>5. Top.step < begun + 1
      BY <1>2, <2>2
    <2> QED BY <1>1, <1>2, <1>4, <2>1, <2>2, <2>3, <2>4, <2>5 DEF Apart
  <1>7. ASSUME NEW kind \in Kinds, stack' = Append(stack, Frame(kind, at)), pc = "step", ~InStep',
               UNCHANGED <<at, begun, cut>>
        PROVE  Apart'
    <2>1. PICK f \in Frames : f = Frame(kind, at) /\ f.step = at
      BY <1>2, FrameOf
    <2>2. /\ Len(stack') = n + 1 /\ stack'[n + 1] = f /\ \A i \in 1..n : stack'[i] = stack[i]
      BY <1>1, <1>2, <1>7, <2>1, Grown
    <2>3. /\ at <= begun /\ Top.step < at /\ at \notin cut
      BY <1>4, <1>7 DEF InStep
    <2>4. \A i \in 1..n : stack[i].step < at
      <3> TAKE i \in 1..n
      <3>1. CASE i = n
        BY <1>2, <2>3, <3>1
      <3>2. CASE i # n
        <4>1. i < n /\ n \in 1..n
          BY <3>2
        <4>2. stack[i].step < stack[n].step /\ stack[i].step \in Nat
          BY <1>3, <1>4, <4>1
        <4> QED BY <1>2, <2>3, <4>2
      <3> QED BY <3>1, <3>2
    <2>5. \A i \in 1..(n + 1) : stack'[i].step <= begun /\ stack'[i].step \notin cut
      BY <1>4, <2>1, <2>2, <2>3
    <2>6. \A i, j \in 1..(n + 1) : i < j => stack'[i].step < stack'[j].step
      BY <1>4, <2>1, <2>2, <2>4
    <2>7. pc' # "step"
      BY <1>7 DEF InStep
    <2> QED BY <1>4, <1>7, <2>2, <2>5, <2>6, <2>7 DEF Apart
  <1>8. CASE EntersBody \/ EntersCall
    BY <1>7, <1>8 DEF EntersBody, EntersCall, Plain, Kinds
  <1>9. CASE ChangesBody
    <2>1. PICK f \in Frames : f.step = Top.step /\ stack' = Append(Front(stack), f)
      <3>1. \A kinds \in {<<"try", "catch">>, <<"call", "inner">>} : kinds[2] \in Kinds
        BY DEF Kinds
      <3> QED BY <1>2, <1>9, <3>1, FrameOf DEF ChangesBody
    <2>2. /\ Len(stack') = n - 1 + 1 /\ stack'[n - 1 + 1] = f
          /\ \A i \in 1..(n - 1) : stack'[i] = Front(stack)[i]
      BY <1>2, <2>1, Grown
    <2>3. Len(stack') = n /\ \A i \in 1..n : stack'[i].step = stack[i].step
      <3>1. Len(stack') = n /\ stack'[n] = f
        BY <2>2
      <3>2. \A i \in 1..(n - 1) : stack'[i] = stack[i]
        BY <1>2, <2>2
      <3>3. \A i \in 1..n : i = n \/ i \in 1..(n - 1)
        OBVIOUS
      <3> QED BY <1>2, <2>1, <3>1, <3>2, <3>3
    <2>4. UNCHANGED <<at, begun, cut>> /\ ~InStep' /\ pc' # "step"
      BY <1>9 DEF ChangesBody, InStep
    <2> QED BY <1>4, <2>3, <2>4 DEF Apart
  <1>10. CASE LeavesBody \/ ReturnsFromCall \/ LosesCall
    <2>1. /\ stack' = Front(stack) /\ at' = Top.step /\ begun' = begun /\ pc' = "returned"
          /\ cut' \in {cut, cut \cup {Top.step}} /\ Top.kind # "handler"
      BY <1>10 DEF LeavesBody, ReturnsFromCall, LosesCall, Plain, CallKinds
    <2>2. n > 1
      BY <1>1, <2>1, Innermost DEF Kept
    <2>3. Len(stack') = n - 1 /\ \A i \in 1..(n - 1) : stack'[i] = stack[i] /\ i \in 1..n
      BY <1>2, <2>1
    <2>4. \A i \in 1..(n - 1) : stack[i].step < Top.step
      <3> TAKE i \in 1..(n - 1)
      <3>1. i < n /\ n \in 1..n /\ i \in 1..n
        OBVIOUS
      <3> QED BY <1>2, <1>4, <3>1
    <2>5. Top.step <= begun
      BY <1>2, <1>4
    <2>6. \A c \in cut' : c \in Nat /\ c <= begun
      BY <1>2, <1>4, <2>1, <2>5
    <2>7. \A i \in 1..(n - 1) : stack'[i].step <= begun /\ stack'[i].step \notin cut'
      <3> TAKE i \in 1..(n - 1)
      <3>1. stack'[i] = stack[i] /\ i \in 1..n /\ stack[i].step < Top.step /\ stack[i].step \in Nat
        BY <1>3, <2>3, <2>4
      <3>2. stack[i].step # Top.step
        BY <1>2, <3>1
      <3> QED BY <1>4, <2>1, <3>1, <3>2
    <2>8. \A i, j \in 1..(n - 1) : i < j => stack'[i].step < stack'[j].step
      BY <1>4, <2>3
    <2>9. Top'.step < Top.step
      <3>1. stack' # <<>> /\ n - 1 \in 1..(n - 1)
        BY <2>2, <2>3
      <3>2. Top' = stack'[n - 1]
        BY <2>3 DEF Top, Last
      <3> QED BY <2>3, <2>4, <3>1, <3>2
    <2> QED BY <2>1, <2>3, <2>5, <2>6, <2>7, <2>8, <2>9 DEF Apart
  <1> QED BY <1>5, <1>6, <1>8, <1>9, <1>10

\* One more event, and what it tells of its step.
LEMMA TellsOneMore ==
  ASSUME NEW l \in Seq(Events), NEW e \in Events, NEW last
  PROVE  /\ Append(l, e) \in Seq(Events)
         /\ Within(l, last) /\ e.step <= last => Within(Append(l, e), last)
         /\ \A step : FinishedIn(Append(l, e), step) =>
              FinishedIn(l, step) \/ (e.type = "finished" /\ e.step = step)
  <1>1. PICK n \in Nat : n = Len(l)
    OBVIOUS
  <1>2. PICK m \in Seq(Events) : /\ m = Append(l, e) /\ Len(m) = n + 1 /\ m[n + 1] = e
                                 /\ \A i \in 1..n : m[i] = l[i]
    <2>1. /\ Append(l, e) \in Seq(Events) /\ Len(Append(l, e)) = n + 1
          /\ Append(l, e)[n + 1] = e /\ \A i \in 1..n : Append(l, e)[i] = l[i]
      BY <1>1, Grown
    <2> QED BY <2>1
  <1>3. \A i \in 1..(n + 1) : i \in 1..n \/ i = n + 1
    OBVIOUS
  <1>4. Within(l, last) /\ e.step <= last => Within(m, last)
    BY <1>1, <1>2, <1>3 DEF Within
  <1>5. \A step : FinishedIn(m, step) => FinishedIn(l, step) \/ (e.type = "finished" /\ e.step = step)
    BY <1>1, <1>2, <1>3 DEF FinishedIn
  <1> QED BY <1>2, <1>4, <1>5

\* Only a step that finishes is told to be.
LEMMA LogTells ==
  ASSUME Kept, Apart, ToldSoFar,
         \/ Rests \/ Begins \/ Finishes \/ Iterates \/ EntersBody \/ EntersCall
         \/ ChangesBody \/ LeavesBody \/ ReturnsFromCall \/ LosesCall
  PROVE  /\ Within(log', begun')
         /\ \A step : FinishedIn(log', step) =>
              FinishedIn(log, step) \/ (pc = "returned" /\ ~InStep' /\ step = at /\ stack' = stack)
  <1>1. /\ log \in Seq(Events) /\ at \in Nat /\ begun \in Nat /\ Top.step \in Nat /\ Top.step <= begun
        /\ Context.base \in 0..Len(log) /\ Within(log, begun) /\ at <= begun
    <2>1. /\ log \in Seq(Events) /\ at \in Nat /\ begun \in Nat /\ Top.step \in Nat /\ Within(log, begun)
          /\ at <= begun
      BY Innermost DEF Kept, Logs, Flow, ToldSoFar, Apart
    <2>2. Top.step <= begun
      <3>1. Len(stack) \in 1..Len(stack) /\ Top = stack[Len(stack)]
        BY Innermost DEF Kept
      <3> QED BY <3>1 DEF Apart
    <2>3. Context.base \in 0..Len(log)
      <3>1. Len(contexts) \in DOMAIN contexts /\ Context = contexts[Len(contexts)] /\ Context.base \in Nat
        BY Innermost DEF Kept
      <3> QED BY <3>1 DEF Kept, Logs
    <2> QED BY <2>1, <2>2, <2>3
  <1>2. \A type \in {"started", "finished", "error", "noted", "enter", "leave"} : \A step \in Nat :
          /\ Event(type, step) \in Events /\ Event(type, step).type = type /\ Event(type, step).step = step
    BY DEF Event, Events, Steps
  <1>3. ASSUME NEW e \in Events, e.type # "finished", e.step <= begun', Within(log, begun'),
               log' = log \/ log' = Append(log, e)
        PROVE  Within(log', begun') /\ \A step : FinishedIn(log', step) => FinishedIn(log, step)
    <2>1. CASE log' = log
      BY <1>3, <2>1
    <2>2. CASE log' = Append(log, e)
      <3>1. PICK b : b = begun'
        OBVIOUS
      <3>2. /\ Within(log, b) /\ e.step <= b => Within(Append(log, e), b)
            /\ \A step : FinishedIn(Append(log, e), step) =>
                 FinishedIn(log, step) \/ (e.type = "finished" /\ e.step = step)
        BY <1>1, TellsOneMore
      <3> QED BY <1>3, <2>2, <3>1, <3>2
    <2> QED BY <1>3, <2>1, <2>2
  <1>4. CASE Rests \/ Iterates \/ EntersBody \/ ChangesBody \/ LeavesBody
    <2>1. Quietly /\ begun' = begun
      BY <1>4 DEF Rests, Iterates, EntersBody, ChangesBody, LeavesBody
    <2>2. PICK step \in {at, Top.step} : log' = log \/ log' = Append(log, Event("noted", step))
      BY <2>1 DEF Quietly
    <2>3. step \in Nat /\ step <= begun
      BY <1>1, <2>2
    <2>4. PICK e \in Events : e = Event("noted", step) /\ e.type = "noted" /\ e.step = step
      BY <1>2, <2>3
    <2>5. Within(log', begun') /\ \A x : FinishedIn(log', x) => FinishedIn(log, x)
      BY <1>1, <1>3, <2>1, <2>2, <2>3, <2>4
    <2> QED BY <2>5
  <1>5. CASE Begins
    <2>1. begun' = begun + 1 /\ (log' = log \/ log' = Append(log, Event("started", begun + 1)))
      BY <1>5 DEF Begins
    <2>2. PICK e \in Events : e = Event("started", begun + 1) /\ e.type = "started" /\ e.step = begun + 1
      BY <1>1, <1>2
    <2>3. Within(log, begun + 1)
      <3> SUFFICES ASSUME NEW i \in 1..Len(log) PROVE log[i].step <= begun + 1
        BY DEF Within
      <3>1. log[i] \in Events /\ log[i].step <= begun
        BY <1>1, ElementOfSeq DEF Within
      <3>2. log[i].step \in Nat
        BY <3>1 DEF Events, Steps
      <3> QED BY <1>1, <3>1, <3>2
    <2>4. e.step <= begun' /\ Within(log, begun')
      BY <1>1, <2>1, <2>2, <2>3
    <2>5. Within(log', begun') /\ \A x : FinishedIn(log', x) => FinishedIn(log, x)
      BY <1>3, <2>1, <2>2, <2>4
    <2> QED BY <2>5
  <1>6. CASE EntersCall
    <2>1. begun' = begun /\ (log' = log \/ log' = Append(log, Event("enter", at)))
      BY <1>6 DEF EntersCall
    <2>2. PICK e \in Events : e = Event("enter", at) /\ e.type = "enter" /\ e.step = at
      BY <1>1, <1>2
    <2>3. Within(log', begun') /\ \A x : FinishedIn(log', x) => FinishedIn(log, x)
      BY <1>1, <1>3, <2>1, <2>2
    <2> QED BY <2>3
  <1>7. CASE Finishes
    <2>1. PICK error, finished \in Events :
            /\ error = Event("error", at) /\ error.type = "error" /\ error.step = at
            /\ finished = Event("finished", at) /\ finished.type = "finished" /\ finished.step = at
      <3>1. /\ Event("error", at) \in Events /\ Event("error", at).type = "error"
            /\ Event("error", at).step = at
            /\ Event("finished", at) \in Events /\ Event("finished", at).type = "finished"
            /\ Event("finished", at).step = at
        BY <1>1, <1>2
      <3> QED BY <3>1
    <2>2. PICK l \in {log, Append(log, error)} : log' = l \/ log' = Append(l, finished)
      BY <1>7, <2>1 DEF Finishes
    <2>3. l \in Seq(Events) /\ Within(l, begun) /\ \A x : FinishedIn(l, x) => FinishedIn(log, x)
      <3>1. CASE l = log
        BY <1>1, <3>1
      <3>2. CASE l = Append(log, error)
        BY <1>1, <2>1, <3>2, TellsOneMore
      <3> QED BY <2>2, <3>1, <3>2
    <2>4. /\ Within(Append(l, finished), begun)
          /\ \A x : FinishedIn(Append(l, finished), x) => FinishedIn(l, x) \/ x = at
      BY <1>1, <2>1, <2>3, TellsOneMore
    <2>5. /\ begun' = begun /\ pc = "returned" /\ ~InStep' /\ stack' = stack
      BY <1>7 DEF Finishes
    <2>6. Within(log', begun') /\ \A x : FinishedIn(log', x) => FinishedIn(log, x) \/ x = at
      <3>1. CASE log' = l
        BY <2>3, <2>5, <3>1
      <3>2. CASE log' = Append(l, finished)
        BY <2>3, <2>4, <2>5, <3>2
      <3> QED BY <2>2, <3>1, <3>2
    <2> QED BY <2>5, <2>6
  <1>8. CASE ReturnsFromCall
    <2>1. PICK left, noted \in Events :
            /\ left = Left /\ left.type = "leave" /\ left.step = Top.step
            /\ noted = Event("noted", Top.step) /\ noted.type = "noted" /\ noted.step = Top.step
      <3>1. /\ Event("leave", Top.step) \in Events /\ Event("leave", Top.step).type = "leave"
            /\ Event("leave", Top.step).step = Top.step
            /\ Event("noted", Top.step) \in Events /\ Event("noted", Top.step).type = "noted"
            /\ Event("noted", Top.step).step = Top.step
        BY <1>1, <1>2
      <3> QED BY <3>1 DEF Left
    <2>2. PICK l : l = Append(log, left)
      OBVIOUS
    <2>3. begun' = begun /\ (log' = log \/ log' = l \/ log' = Append(l, noted))
      BY <1>8, <2>1, <2>2 DEF ReturnsFromCall
    <2>4. l \in Seq(Events) /\ Within(l, begun) /\ \A x : FinishedIn(l, x) => FinishedIn(log, x)
      BY <1>1, <2>1, <2>2, TellsOneMore
    <2>5. Within(Append(l, noted), begun) /\ \A x : FinishedIn(Append(l, noted), x) => FinishedIn(l, x)
      BY <1>1, <2>1, <2>4, TellsOneMore
    <2>6. Within(log', begun') /\ \A x : FinishedIn(log', x) => FinishedIn(log, x)
      <3>1. CASE log' = log
        BY <1>1, <2>3, <3>1
      <3>2. CASE log' = l
        BY <2>3, <2>4, <3>2
      <3>3. CASE log' = Append(l, noted)
        BY <2>3, <2>4, <2>5, <3>3
      <3> QED BY <2>3, <3>1, <3>2, <3>3
    <2> QED BY <2>6
  <1>9. CASE LosesCall
    <2>1. PICK b \in 0..Len(log) : b = Context.base
      BY <1>1
    <2>2. log' = SubSeq(log, 1, b) /\ begun' = begun
      BY <1>9, <2>1 DEF LosesCall, Base, Context
    <2>3. Len(log') = b /\ \A i \in 1..b : log'[i] = log[i] /\ i \in 1..Len(log)
      <3>1. PICK n \in Nat : n = Len(log) /\ b \in 0..n
        <4>1. Len(log) \in Nat
          BY <1>1
        <4> QED BY <4>1
      <3>2. \A i \in 1..b : log[i] \in Events /\ i \in 1..n
        BY <1>1, <3>1, ElementOfSeq
      <3>3. /\ SubSeq(log, 1, b) \in Seq(Events)
            /\ Len(SubSeq(log, 1, b)) = IF 1 <= b THEN b - 1 + 1 ELSE 0
            /\ \A i \in 1..(b - 1 + 1) : SubSeq(log, 1, b)[i] = log[1 + i - 1]
        BY <3>1, <3>2, SubSeqProperties
      <3>4. b - 1 + 1 = b /\ Len(SubSeq(log, 1, b)) = b /\ \A i \in 1..b : 1 + i - 1 = i
        BY <3>1, <3>3
      <3> QED BY <2>2, <3>1, <3>2, <3>3, <3>4
    <2>4. Within(log', begun')
      BY <1>1, <2>2, <2>3 DEF Within
    <2>5. \A x : FinishedIn(log', x) => FinishedIn(log, x)
      BY <2>3 DEF FinishedIn
    <2> QED BY <2>4, <2>5
  <1> QED BY <1>4, <1>5, <1>6, <1>7, <1>8, <1>9

\* And what the log tells of them.
LEMMA ToldStep ==
  ASSUME Kept, Apart, ToldSoFar, Apart',
         \/ Rests \/ Begins \/ Finishes \/ Iterates \/ EntersBody \/ EntersCall
         \/ ChangesBody \/ LeavesBody \/ ReturnsFromCall \/ LosesCall
  PROVE  ToldSoFar'
  <1>1. /\ Within(log', begun')
        /\ \A step : FinishedIn(log', step) =>
             FinishedIn(log, step) \/ (pc = "returned" /\ ~InStep' /\ step = at /\ stack' = stack)
    BY LogTells
  <1>2. PICK n \in Nat \ {0} : n = Len(stack)
    BY Innermost DEF Kept
  <1>3. /\ stack \in Seq(Frames) /\ at \in Nat /\ begun \in Nat /\ Top = stack[n] /\ Top.step \in Nat
        /\ Front(stack) \in Seq(Frames) /\ Len(Front(stack)) = n - 1
        /\ \A i \in 1..(n - 1) : Front(stack)[i] = stack[i]
    BY <1>2, Innermost DEF Kept, Framed, Flow
  <1>4. /\ \A i \in 1..n : ~FinishedIn(log, stack[i].step)
        /\ InStep => ~FinishedIn(log, at)
        /\ Within(log, begun)
    BY <1>2 DEF ToldSoFar
  \* A frame that is there was there, or is of the step that was in progress.
  <1>5. \A i \in 1..Len(stack') : \/ \E j \in 1..n : stack'[i].step = stack[j].step
                                  \/ InStep /\ ~(pc = "returned") /\ stack'[i].step = at
    <2>1. CASE Rests \/ Begins \/ Finishes \/ Iterates
      <3>1. stack' = stack
        BY <2>1 DEF Rests, Begins, Finishes, Iterates
      <3> QED BY <1>2, <3>1
    <2>2. CASE EntersBody \/ EntersCall
      <3>1. PICK f \in Frames : f.step = at /\ stack' = Append(stack, f)
        <4>1. PICK kind \in Kinds : stack' = Append(stack, Frame(kind, at))
          BY <2>2 DEF EntersBody, EntersCall, Plain, Kinds
        <4> QED BY <1>3, <4>1, FrameOf
      <3>2. /\ Len(stack') = n + 1 /\ stack'[n + 1] = f /\ \A i \in 1..n : stack'[i] = stack[i]
        BY <1>2, <1>3, <3>1, Grown
      <3>3. InStep /\ pc # "returned"
        BY <2>2 DEF EntersBody, EntersCall, InStep
      <3>4. \A i \in 1..(n + 1) : i \in 1..n \/ i = n + 1
        OBVIOUS
      <3> QED BY <3>1, <3>2, <3>3, <3>4
    <2>3. CASE ChangesBody
      <3>1. PICK f \in Frames : f.step = Top.step /\ stack' = Append(Front(stack), f)
        <4>1. \A kinds \in {<<"try", "catch">>, <<"call", "inner">>} : kinds[2] \in Kinds
          BY DEF Kinds
        <4> QED BY <1>3, <2>3, <4>1, FrameOf DEF ChangesBody
      <3>2. /\ Len(stack') = n - 1 + 1 /\ stack'[n - 1 + 1] = f
            /\ \A i \in 1..(n - 1) : stack'[i] = Front(stack)[i]
        BY <1>3, <3>1, Grown
      <3>3. Len(stack') = n /\ stack'[n] = f /\ n \in 1..n
        BY <3>2
      <3>4. \A i \in 1..(n - 1) : stack'[i] = stack[i] /\ i \in 1..n
        BY <1>3, <3>2
      <3>5. \A i \in 1..n : i = n \/ i \in 1..(n - 1)
        OBVIOUS
      <3> QED BY <1>3, <3>1, <3>3, <3>4, <3>5
    <2>4. CASE LeavesBody \/ ReturnsFromCall \/ LosesCall
      <3>1. stack' = Front(stack)
        BY <2>4 DEF LeavesBody, ReturnsFromCall, LosesCall
      <3>2. Len(stack') = n - 1 /\ \A i \in 1..(n - 1) : stack'[i] = stack[i] /\ i \in 1..n
        BY <1>3, <3>1
      <3> QED BY <3>2
    <2> QED BY <2>1, <2>2, <2>3, <2>4
  <1>6. ASSUME NEW i \in 1..Len(stack')
        PROVE  ~FinishedIn(log', stack'[i].step)
    <2>1. PICK step : step = stack'[i].step
      OBVIOUS
    <2>2. ~FinishedIn(log, step)
      BY <1>4, <1>5, <2>1
    <2>3. CASE pc = "returned" /\ ~InStep' /\ step = at /\ stack' = stack
      <3>1. InStep /\ Top.step < at /\ i \in 1..n /\ step = stack[i].step
        BY <1>2, <2>1, <2>3 DEF Apart, InStep
      <3>2. i < n => stack[i].step < stack[n].step /\ n \in 1..n
        BY <1>2, <3>1 DEF Apart
      <3>3. stack[i].step \in Nat
        BY <1>3, <2>3, <3>1
      <3> QED BY <1>3, <2>3, <3>1, <3>2, <3>3
    <2> QED BY <1>1, <2>1, <2>2, <2>3
  <1>7. ASSUME InStep'
        PROVE  ~FinishedIn(log', at')
    <2>1. ~FinishedIn(log, at')
      <3>1. CASE Rests
        BY <1>4, <1>7, <3>1 DEF Rests
      <3>2. CASE Begins
        <4>1. at' = begun + 1 /\ \A i \in 1..Len(log) : log[i].step <= begun
          BY <1>4, <3>2 DEF Begins, Within
        <4>2. \A i \in 1..Len(log) : log[i].step # begun + 1
          BY <1>3, <4>1
        <4> QED BY <4>1, <4>2 DEF FinishedIn
      <3>3. CASE LeavesBody \/ ReturnsFromCall \/ LosesCall
        <4>1. at' = stack[n].step /\ n \in 1..n
          BY <1>3, <3>3 DEF LeavesBody, ReturnsFromCall, LosesCall
        <4> QED BY <1>4, <4>1
      <3>4. CASE Finishes \/ Iterates \/ EntersBody \/ EntersCall \/ ChangesBody
        BY <1>7, <3>4 DEF Finishes, Iterates, EntersBody, EntersCall, ChangesBody
      <3> QED BY <3>1, <3>2, <3>3, <3>4
    <2> QED BY <1>1, <1>7, <2>1
  <1> QED BY <1>1, <1>6, <1>7 DEF ToldSoFar

-----------------------------------------------------------------------------
(* What is open.                                                           *)

\* The events open at the end of the log are those of the frames, and of the step
\* that is in progress: its call's too, when that was cut off.
OpenNow(o) ==
  IF InStep THEN With(mode, contexts, o[Len(stack)], at, IF at \in cut THEN "call" ELSE "block")
  ELSE o[Len(stack)]

Nested ==
  \E k, o, g :
    /\ Chain(mode, stack, contexts, k, o) /\ Based(stack, log, k, o, g)
    /\ Traces(cut, log, g) /\ g[Len(log)] = OpenNow(o)

\* At most one quiet event leaves open what was.
LEMMA QuietlyOn ==
  ASSUME Kept, NEW g, Traces(cut, log, g), Quietly
  PROVE  \E h : Continues(cut, log, g, log', h) /\ h[Len(log')] = g[Len(log)]
  <1>1. log \in Seq(Events) /\ at \in Nat /\ Top.step \in Nat
    BY Innermost DEF Kept, Logs, Flow
  <1>2. \A step \in Nat : Quiet(Event("noted", step))
    BY DEF Quiet, Event, Events, Steps
  <1>3. QuietlyAfter(log, log')
    BY <1>1, <1>2 DEF Quietly, QuietlyAfter
  <1>4. PICK p : p = log'
    OBVIOUS
  <1> QED BY <1>1, <1>3, <1>4, QuietContinues

\* The stack, when it has an outer frame.
LEMMA OuterFrame ==
  ASSUME Kept, Top.kind # "handler"
  PROVE  /\ Front(stack) \in Seq(Frames) /\ Front(stack) # <<>> /\ stack = Append(Front(stack), Top)
         /\ Top \in Frames /\ Top.step \in Nat /\ log \in Seq(Events)
         /\ Len(Front(stack)) \in Nat /\ Len(stack) = Len(Front(stack)) + 1
  <1>1. /\ Len(stack) \in Nat \ {0} /\ Len(stack) # 1 /\ Len(Front(stack)) = Len(stack) - 1
        /\ Front(stack) \in Seq(Frames) /\ stack = Append(Front(stack), Top)
        /\ Top \in Frames /\ Top.step \in Nat /\ log \in Seq(Events)
    BY Innermost DEF Kept, Logs
  <1>2. Front(stack) # <<>>
    BY <1>1
  <1> QED BY <1>1, <1>2

\* The contexts and what is open, without the innermost frame.
LEMMA OuterChain ==
  ASSUME Kept, Top.kind # "handler", NEW k, NEW o, NEW g,
         Chain(mode, stack, contexts, k, o), Based(stack, log, k, o, g)
  PROVE  LET s == Front(stack)
             n == Len(Front(stack))
             now == With(mode, Around(Top, contexts), o[n], Top.step, Top.kind)
         IN /\ Chain(mode, s, Around(Top, contexts), k, o) /\ Based(s, log, k, o, g)
            /\ o[n] \in Seq(Events) /\ o[Len(stack)] = now
            /\ Top.kind \in CallKinds =>
                 /\ Base(contexts) \in 0..Len(log) /\ g[Base(contexts)] = now
                 /\ \A j \in 2..n : s[j].kind \in CallKinds => Base(k[j]) <= Base(contexts)
  <1>1. PICK s \in Seq(Frames), f \in Frames : s = Front(stack) /\ f = Top
    BY OuterFrame
  <1>2. s # <<>> /\ stack = Append(s, f)
    BY <1>1, OuterFrame
  <1>3. PICK cs, l, m : cs = contexts /\ l = log /\ m = mode
    OBVIOUS
  <1>4. Chain(m, Append(s, f), cs, k, o) /\ Based(Append(s, f), l, k, o, g)
    BY <1>2, <1>3
  <1>5. /\ Chain(m, s, Around(f, cs), k, o) /\ Based(s, l, k, o, g)
        /\ o[Len(s)] \in Seq(Events)
        /\ o[Len(Append(s, f))] =
             With(m, Around(f, cs), o[Len(s)], f.step, f.kind)
        /\ f.kind \in CallKinds =>
             /\ Base(cs) \in 0..Len(l)
             /\ g[Base(cs)] = With(m, Around(f, cs), o[Len(s)], f.step, f.kind)
             /\ \A j \in 2..Len(s) : s[j].kind \in CallKinds => Base(k[j]) <= Base(cs)
    BY <1>2, <1>4, ChainPop
  <1> QED BY <1>1, <1>2, <1>3, <1>5, Zenon

\* Each kind of move leaves open what the frames do.  A step goes on.
LEMMA NestedRests ==
  ASSUME Kept, Nested, Rests
  PROVE  Nested'
  <1>1. PICK k, o, g :
          /\ Chain(mode, stack, contexts, k, o) /\ Based(stack, log, k, o, g)
          /\ Traces(cut, log, g) /\ g[Len(log)] = OpenNow(o)
    BY DEF Nested
  <1>2. Quietly /\ UNCHANGED <<mode, stack, contexts, at, cut>> /\ (InStep' <=> InStep)
    BY DEF Rests
  <1>3. PICK h : Continues(cut, log, g, log', h) /\ h[Len(log')] = g[Len(log)]
    BY <1>1, <1>2, QuietlyOn
  <1>4. Based(stack, log', k, o, h)
    <2>1. log \in Seq(Events)
      BY DEF Kept, Logs
    <2> QED BY <1>1, <1>3, <2>1, BasedOn
  <1>5. OpenNow(o)' = OpenNow(o)
    BY <1>2 DEF OpenNow
  <1>6. Traces(cut, log', h)
    BY <1>3 DEF Continues
  <1> QED BY <1>1, <1>2, <1>3, <1>4, <1>5, <1>6 DEF Nested

\* A step begins.
LEMMA NestedBegins ==
  ASSUME Kept, Nested, Begins, Apart'
  PROVE  Nested'
  <1>1. PICK k, o, g :
          /\ Chain(mode, stack, contexts, k, o) /\ Based(stack, log, k, o, g)
          /\ Traces(cut, log, g) /\ g[Len(log)] = OpenNow(o)
    BY DEF Nested
  <1>2. log \in Seq(Events) /\ begun + 1 \in Nat
    BY DEF Kept, Logs, Flow
  <1>3. /\ UNCHANGED <<mode, stack, contexts, cut>> /\ ~InStep /\ InStep' /\ at' = begun + 1 /\ at' \notin cut'
        /\ log' = IF Recording THEN Append(log, Event("started", begun + 1)) ELSE log
    BY DEF Begins, InStep, Apart
  <1>4. PICK open, step : open = o[Len(stack)] /\ step = begun + 1 /\ step \in Nat
    BY <1>2
  <1>5. g[Len(log)] = open
    BY <1>1, <1>3, <1>4 DEF OpenNow
  <1>6. PICK h : Continues(cut, log, g, log', h) /\ h[Len(log')] = With(mode, contexts, open, step, "block")
    <2>1. CASE Recording
      <3>1. PICK e \in Events : e = Event("started", step) /\ OpenedIn(cut, open, e) = Append(open, e)
        BY <1>4, EventOpens
      <3>2. With(mode, contexts, open, step, "block") = Append(open, e)
        BY <2>1, <3>1 DEF With, Recording, CallKinds
      <3>3. PICK h : Continues(cut, log, g, Append(log, e), h)
                     /\ h[Len(Append(log, e))] = OpenedIn(cut, g[Len(log)], e)
        BY <1>1, <1>2, OneMoreEvent
      <3> QED BY <1>3, <1>4, <1>5, <2>1, <3>1, <3>2, <3>3
    <2>2. CASE ~Recording
      <3>1. Continues(cut, log, g, log, g)
        BY <1>1, <1>2 DEF Continues
      <3>2. With(mode, contexts, open, step, "block") = open
        BY <2>2 DEF With, Recording
      <3> QED BY <1>3, <1>5, <2>2, <3>1, <3>2
    <2> QED BY <2>1, <2>2
  <1>7. Based(stack, log', k, o, h)
    BY <1>1, <1>2, <1>6, BasedOn
  <1>8. OpenNow(o)' = With(mode, contexts, open, step, "block")
    BY <1>3, <1>4 DEF OpenNow
  <1>9. Traces(cut, log', h)
    BY <1>6 DEF Continues
  <1> QED BY <1>1, <1>3, <1>6, <1>7, <1>8, <1>9 DEF Nested

\* A step finishes, and with it a call of it that was cut off.
LEMMA NestedFinishes ==
  ASSUME Kept, Nested, Finishes
  PROVE  Nested'
  <1>1. PICK k, o, g :
          /\ Chain(mode, stack, contexts, k, o) /\ Based(stack, log, k, o, g)
          /\ Traces(cut, log, g) /\ g[Len(log)] = OpenNow(o)
    BY DEF Nested
  <1>2. log \in Seq(Events) /\ at \in Nat
    BY DEF Kept, Logs, Flow
  <1>3. UNCHANGED <<mode, stack, contexts, cut>> /\ InStep /\ ~InStep'
    BY DEF Finishes, InStep
  <1>4. PICK open \in Seq(Events) : open = o[Len(stack)]
    <2>1. Len(stack) \in 1..Len(stack)
      BY Innermost DEF Kept
    <2> QED BY <1>1, <2>1 DEF Chain
  <1>5. PICK now : now = g[Len(log)]
                   /\ now = With(mode, contexts, open, at, IF at \in cut THEN "call" ELSE "block")
    BY <1>1, <1>3, <1>4 DEF OpenNow
  <1>6. PICK error, finished \in Events : error = Event("error", at) /\ finished = Event("finished", at)
                                          /\ Quiet(error)
    <2>1. /\ Event("error", at) \in Events /\ Event("finished", at) \in Events
          /\ Event("error", at).type = "error"
      BY <1>2 DEF Event, Events, Steps
    <2> QED BY <2>1 DEF Quiet
  <1>7. PICK l : l \in {log, Append(log, error)} /\ log' = IF Recording THEN Append(l, finished) ELSE l
    BY <1>6 DEF Finishes
  <1>8. PICK h : Continues(cut, log, g, l, h) /\ h[Len(l)] = now
    <2>1. QuietlyAfter(log, l)
      BY <1>6, <1>7 DEF QuietlyAfter
    <2> QED BY <1>1, <1>2, <1>5, <2>1, QuietContinues
  <1>9. l \in Seq(Events) /\ Traces(cut, l, h)
    BY <1>8 DEF Continues
  <1>10. PICK p : Continues(cut, log, g, log', p) /\ p[Len(log')] = open
    <2>1. CASE Recording
      <3>1. OpenedIn(cut, now, finished) = open
        <4>1. CASE at \in cut
          <5>1. now = Append(Append(open, Event("started", at)), Event("enter", at))
            BY <1>5, <2>1, <4>1 DEF With, Recording, CallKinds
          <5> QED BY <1>2, <1>6, <4>1, <5>1, EventCloses
        <4>2. CASE at \notin cut
          <5>1. now = Append(open, Event("started", at))
            BY <1>5, <2>1, <4>2 DEF With, Recording, CallKinds
          <5> QED BY <1>2, <1>6, <4>2, <5>1, EventCloses
        <4> QED BY <4>1, <4>2
      <3>2. PICK p : Continues(cut, l, h, Append(l, finished), p)
                     /\ p[Len(Append(l, finished))] = OpenedIn(cut, h[Len(l)], finished)
        BY <1>9, OneMoreEvent
      <3>3. Continues(cut, log, g, Append(l, finished), p)
        BY <1>2, <1>8, <1>9, <3>2, ContinuesOn
      <3> QED BY <1>7, <1>8, <2>1, <3>1, <3>2, <3>3
    <2>2. CASE ~Recording
      <3>1. now = open /\ log' = l
        BY <1>5, <1>7, <2>2 DEF With, Recording
      <3> QED BY <1>8, <3>1
    <2> QED BY <2>1, <2>2
  <1>11. Based(stack, log', k, o, p)
    BY <1>1, <1>2, <1>10, BasedOn
  <1>12. OpenNow(o)' = open
    BY <1>3, <1>4 DEF OpenNow
  <1>13. Traces(cut, log', p)
    BY <1>10 DEF Continues
  <1> QED BY <1>1, <1>3, <1>10, <1>11, <1>12, <1>13 DEF Nested

\* The innermost frame in other contexts, or another of its kind.
LEMMA NestedTurns ==
  ASSUME Kept, Nested, Iterates \/ ChangesBody
  PROVE  Nested'
  <1>1. PICK k, o, g :
          /\ Chain(mode, stack, contexts, k, o) /\ Based(stack, log, k, o, g)
          /\ Traces(cut, log, g) /\ g[Len(log)] = OpenNow(o)
    BY DEF Nested
  <1>2. Quietly /\ UNCHANGED <<mode, at, cut>> /\ ~InStep /\ ~InStep'
    BY DEF Iterates, ChangesBody
  <1>3. Top.kind # "handler"
    BY DEF Iterates, ChangesBody
  <1>4. PICK s \in Seq(Frames) : s = Front(stack) /\ s # <<>> /\ stack = Append(s, Top)
    BY <1>3, OuterFrame
  <1>5. Top \in Frames /\ Top.step \in Nat /\ log \in Seq(Events)
    BY <1>3, OuterFrame
  <1>6. PICK f \in Frames :
          /\ f.step = Top.step /\ (f.kind \in CallKinds <=> Top.kind \in CallKinds)
          /\ stack' = Append(s, f) /\ Around(Top, contexts) = Around(f, contexts')
          /\ Top.kind \in CallKinds => Base(contexts') = Base(contexts)
    <2>1. CASE Iterates
      <3>1. stack' = Append(s, Top) /\ Around(Top, contexts) = Around(Top, contexts')
            /\ Top.kind \notin CallKinds
        BY <1>4, <2>1 DEF Iterates, CallKinds
      <3> QED BY <1>5, <3>1
    <2>2. CASE ChangesBody
      <3>1. PICK kinds \in {<<"try", "catch">>, <<"call", "inner">>} :
              Top.kind = kinds[1] /\ stack' = Append(s, Frame(kinds[2], Top.step))
        BY <1>4, <2>2 DEF ChangesBody
      <3>2. PICK kind \in Kinds : kind = kinds[2] /\ Top.kind # "loop" /\ kind # "loop"
                                  /\ (kind \in CallKinds <=> Top.kind \in CallKinds)
        BY <3>1 DEF Kinds, CallKinds
      <3>3. PICK f \in Frames : f = Frame(kind, Top.step) /\ f.kind = kind /\ f.step = Top.step
        BY <1>5, FrameOf
      <3>4. contexts' = contexts
        BY <2>2 DEF ChangesBody
      <3>5. Around(Top, contexts) = Around(f, contexts)
        BY <3>2, <3>3 DEF Around
      <3> QED BY <3>1, <3>2, <3>3, <3>4, <3>5
    <2> QED BY <2>1, <2>2
  <1>7. PICK ds : ds = contexts'
    OBVIOUS
  <1>8. PICK kk, oo :
          /\ Chain(mode, Append(s, f), ds, kk, oo) /\ Based(Append(s, f), log, kk, oo, g)
          /\ oo[Len(Append(s, f))] = o[Len(Append(s, Top))]
    <2>1. PICK t \in Frames, cs \in {contexts}, l \in Seq(Events) : t = Top /\ cs = contexts /\ l = log
      BY <1>5
    <2>2. Chain(mode, Append(s, t), cs, k, o) /\ Based(Append(s, t), l, k, o, g)
      BY <1>1, <1>4, <2>1
    <2>3. /\ t.step \in Nat /\ f.step = t.step /\ Around(t, cs) = Around(f, ds)
          /\ (t.kind \in CallKinds <=> f.kind \in CallKinds)
          /\ t.kind \in CallKinds => Base(ds) = Base(cs)
      BY <1>5, <1>6, <1>7, <2>1
    <2>4. \E kk, oo :
            /\ Chain(mode, Append(s, f), ds, kk, oo) /\ Based(Append(s, f), l, kk, oo, g)
            /\ oo[Len(Append(s, f))] = o[Len(Append(s, t))]
      <3>1. s \in Seq(Frames) /\ s # <<>>
        BY <1>4
      <3>2. PICK m : m = mode
        OBVIOUS
      <3>3. Chain(m, Append(s, t), cs, k, o) /\ Based(Append(s, t), l, k, o, g)
        BY <2>2, <3>2
      <3>4. \E kk, oo :
              /\ Chain(m, Append(s, f), ds, kk, oo) /\ Based(Append(s, f), l, kk, oo, g)
              /\ oo[Len(Append(s, f))] = o[Len(Append(s, t))]
        BY <2>3, <3>1, <3>3, ChainSwap
      <3> QED BY <3>2, <3>4
    <2> QED BY <2>1, <2>4
  <1>9. PICK h : Continues(cut, log, g, log', h) /\ h[Len(log')] = g[Len(log)]
    BY <1>1, <1>2, QuietlyOn
  <1>10. Based(Append(s, f), log', kk, oo, h)
    BY <1>5, <1>8, <1>9, BasedOn
  <1>11. OpenNow(oo)' = OpenNow(o)
    BY <1>2, <1>4, <1>6, <1>8 DEF OpenNow
  <1>12. Traces(cut, log', h)
    BY <1>9 DEF Continues
  <1> QED BY <1>1, <1>2, <1>6, <1>7, <1>8, <1>9, <1>10, <1>11, <1>12 DEF Nested

\* A body is entered.
LEMMA NestedEnters ==
  ASSUME Kept, Nested, Apart, EntersBody
  PROVE  Nested'
  <1>1. PICK k, o, g :
          /\ Chain(mode, stack, contexts, k, o) /\ Based(stack, log, k, o, g)
          /\ Traces(cut, log, g) /\ g[Len(log)] = OpenNow(o)
    BY DEF Nested
  <1>2. Quietly /\ UNCHANGED <<mode, at, cut>> /\ pc = "step" /\ InStep /\ ~InStep' /\ at \notin cut
    BY DEF EntersBody, InStep, Apart
  <1>3. PICK kind \in Plain \cup {"loop"} :
          stack' = Append(stack, Frame(kind, at)) /\ Around(Frame(kind, at), contexts') = contexts
    BY DEF EntersBody
  <1>4. stack \in Seq(Frames) /\ stack # <<>> /\ log \in Seq(Events) /\ at \in Nat /\ kind \in Kinds
        /\ kind \notin CallKinds
    BY DEF Kept, Framed, Logs, Flow, Plain, Kinds, CallKinds
  <1>5. PICK f \in Frames : f = Frame(kind, at) /\ f.kind = kind /\ f.step = at
    BY <1>4, FrameOf
  <1>6. PICK ds : ds = contexts'
    OBVIOUS
  <1>7. PICK kk, oo :
          /\ Chain(mode, Append(stack, f), ds, kk, oo) /\ Based(Append(stack, f), log, kk, oo, g)
          /\ oo[Len(Append(stack, f))] = With(mode, contexts, o[Len(stack)], f.step, f.kind)
    BY <1>1, <1>3, <1>4, <1>5, <1>6, ChainPush
  <1>8. PICK h : Continues(cut, log, g, log', h) /\ h[Len(log')] = g[Len(log)]
    BY <1>1, <1>2, QuietlyOn
  <1>9. Based(Append(stack, f), log', kk, oo, h)
    BY <1>4, <1>7, <1>8, BasedOn
  <1>10. OpenNow(oo)' = OpenNow(o)
    <2>1. OpenNow(oo)' = With(mode, contexts, o[Len(stack)], at, kind)
      BY <1>2, <1>3, <1>5, <1>7 DEF OpenNow
    <2>2. OpenNow(o) = With(mode, contexts, o[Len(stack)], at, "block")
      BY <1>2 DEF OpenNow
    <2> QED BY <1>4, <2>1, <2>2 DEF With, CallKinds
  <1>11. Traces(cut, log', h)
    BY <1>8 DEF Continues
  <1> QED BY <1>1, <1>2, <1>3, <1>5, <1>6, <1>7, <1>8, <1>9, <1>10, <1>11 DEF Nested

\* A function is called.
LEMMA NestedCalls ==
  ASSUME Kept, Nested, Apart, EntersCall
  PROVE  Nested'
  <1>1. PICK k, o, g :
          /\ Chain(mode, stack, contexts, k, o) /\ Based(stack, log, k, o, g)
          /\ Traces(cut, log, g) /\ g[Len(log)] = OpenNow(o)
    BY DEF Nested
  <1>2. UNCHANGED <<mode, at, cut>> /\ pc = "step" /\ InStep /\ ~InStep' /\ at \notin cut
    BY DEF EntersCall, InStep, Apart
  <1>3. /\ stack' = Append(stack, Frame("call", at)) /\ Around(Frame("call", at), contexts') = contexts
        /\ Base(contexts') = Len(log')
        /\ log' = IF Recording THEN Append(log, Event("enter", at)) ELSE log
    BY DEF EntersCall
  <1>4. stack \in Seq(Frames) /\ stack # <<>> /\ log \in Seq(Events) /\ at \in Nat
        /\ "call" \in Kinds /\ "call" \in CallKinds
    BY DEF Kept, Framed, Logs, Flow, Kinds, CallKinds
  <1>5. PICK f \in Frames : f = Frame("call", at) /\ f.kind = "call" /\ f.step = at
    BY <1>4, FrameOf
  <1>6. PICK open : open = o[Len(stack)]
    OBVIOUS
  <1>7. g[Len(log)] = With(mode, contexts, open, at, "block")
    BY <1>1, <1>2, <1>6 DEF OpenNow
  <1>8. PICK h : Continues(cut, log, g, log', h) /\ h[Len(log')] = With(mode, contexts, open, at, "call")
    <2>1. CASE Recording
      <3>1. PICK before : before = Append(open, Event("started", at)) /\ g[Len(log)] = before
        BY <1>7, <2>1 DEF With, Recording, CallKinds
      <3>2. PICK e \in Events : e = Event("enter", at) /\ OpenedIn(cut, before, e) = Append(before, e)
        BY <1>4, EventOpens
      <3>3. With(mode, contexts, open, at, "call") = Append(before, e)
        BY <2>1, <3>1, <3>2 DEF With, Recording, CallKinds
      <3>4. PICK h : Continues(cut, log, g, Append(log, e), h)
                     /\ h[Len(Append(log, e))] = OpenedIn(cut, g[Len(log)], e)
        BY <1>1, <1>4, OneMoreEvent
      <3> QED BY <1>3, <2>1, <3>1, <3>2, <3>3, <3>4
    <2>2. CASE ~Recording
      <3>1. Continues(cut, log, g, log, g)
        BY <1>1, <1>4 DEF Continues
      <3>2. g[Len(log)] = open /\ With(mode, contexts, open, at, "call") = open
        BY <1>7, <2>2 DEF With, Recording
      <3> QED BY <1>3, <2>2, <3>1, <3>2
    <2> QED BY <2>1, <2>2
  <1>9. PICK p \in Seq(Events) : p = log' /\ Traces(cut, p, h)
    BY <1>8 DEF Continues
  <1>10. Based(stack, p, k, o, h)
    BY <1>1, <1>4, <1>8, <1>9, BasedOn
  <1>11. PICK ds : ds = contexts'
    OBVIOUS
  <1>12. /\ Base(ds) = Len(p) /\ Len(p) \in 0..Len(p)
         /\ \A j \in 2..Len(stack) : stack[j].kind \in CallKinds => Base(k[j]) <= Base(ds)
    <2>1. Base(ds) = Len(p) /\ Len(p) \in Nat
      BY <1>3, <1>9, <1>11
    <2>2. \A j \in 2..Len(stack) : stack[j].kind \in CallKinds => Base(k[j]) \in 0..Len(p)
      BY <1>10 DEF Based
    <2> QED BY <2>1, <2>2
  <1>13. h[Base(ds)] = With(mode, contexts, o[Len(stack)], f.step, f.kind)
    BY <1>5, <1>6, <1>8, <1>9, <1>12
  <1>14. PICK kk, oo :
          /\ Chain(mode, Append(stack, f), ds, kk, oo) /\ Based(Append(stack, f), p, kk, oo, h)
          /\ oo[Len(Append(stack, f))] = With(mode, contexts, o[Len(stack)], f.step, f.kind)
    <2>1. Around(f, ds) = contexts /\ f.step \in Nat
      BY <1>3, <1>4, <1>5, <1>11
    <2>2. Base(ds) \in 0..Len(p)
      BY <1>12
    <2> QED BY <1>1, <1>4, <1>10, <1>12, <1>13, <2>1, <2>2, ChainPush
  <1>15. OpenNow(oo)' = With(mode, contexts, open, at, "call")
    BY <1>2, <1>3, <1>5, <1>6, <1>14 DEF OpenNow
  <1> QED BY <1>2, <1>3, <1>5, <1>8, <1>9, <1>11, <1>14, <1>15 DEF Nested

\* A body is left.
LEMMA NestedLeaves ==
  ASSUME Kept, Nested, Apart, LeavesBody
  PROVE  Nested'
  <1>1. PICK k, o, g :
          /\ Chain(mode, stack, contexts, k, o) /\ Based(stack, log, k, o, g)
          /\ Traces(cut, log, g) /\ g[Len(log)] = OpenNow(o)
    BY DEF Nested
  <1>2. /\ Quietly /\ UNCHANGED <<mode, cut>> /\ ~InStep /\ InStep' /\ at' = Top.step
        /\ stack' = Front(stack) /\ contexts' = Around(Top, contexts)
        /\ Top.kind \notin CallKinds /\ Top.kind # "handler"
    BY DEF LeavesBody, InStep, Plain, CallKinds
  <1>3. PICK s \in Seq(Frames) : s = Front(stack) /\ s # <<>> /\ stack = Append(s, Top)
    BY <1>2, OuterFrame
  <1>4. Top \in Frames /\ log \in Seq(Events)
    BY <1>2, OuterFrame
  <1>5. Top.step \notin cut
    <2>1. Len(stack) \in 1..Len(stack) /\ Top = stack[Len(stack)]
      BY Innermost DEF Kept
    <2> QED BY <2>1 DEF Apart
  <1>6. /\ Chain(mode, s, Around(Top, contexts), k, o) /\ Based(s, log, k, o, g)
        /\ o[Len(stack)] = With(mode, Around(Top, contexts), o[Len(s)], Top.step, Top.kind)
    BY <1>1, <1>2, <1>3, OuterChain
  <1>7. PICK h : Continues(cut, log, g, log', h) /\ h[Len(log')] = g[Len(log)]
    BY <1>1, <1>2, QuietlyOn
  <1>8. Based(s, log', k, o, h)
    BY <1>4, <1>6, <1>7, BasedOn
  <1>9. OpenNow(o)' = OpenNow(o)
    <2>1. OpenNow(o)' = With(mode, Around(Top, contexts), o[Len(s)], Top.step, "block")
      BY <1>2, <1>3, <1>5 DEF OpenNow
    <2>2. OpenNow(o) = With(mode, Around(Top, contexts), o[Len(s)], Top.step, Top.kind)
      BY <1>2, <1>3, <1>6 DEF OpenNow
    <2> QED BY <1>2, <2>1, <2>2 DEF With, CallKinds
  <1>10. Traces(cut, log', h)
    BY <1>7 DEF Continues
  <1>11. PICK out : out = Around(Top, contexts)
    OBVIOUS
  <1>12. mode' = mode /\ stack' = s /\ contexts' = out /\ cut' = cut
    BY <1>2, <1>3, <1>11
  <1>13. Chain(mode, s, out, k, o)
    BY <1>6, <1>11
  <1>14. h[Len(log')] = OpenNow(o)'
    BY <1>1, <1>7, <1>9
  <1> QED BY <1>8, <1>10, <1>12, <1>13, <1>14 DEF Nested

\* A call is left, and LeaveFunction recorded.
LEMMA NestedReturns ==
  ASSUME Kept, Nested, Apart, ReturnsFromCall
  PROVE  Nested'
  <1>1. PICK k, o, g :
          /\ Chain(mode, stack, contexts, k, o) /\ Based(stack, log, k, o, g)
          /\ Traces(cut, log, g) /\ g[Len(log)] = OpenNow(o)
    BY DEF Nested
  <1>2. /\ UNCHANGED <<mode, cut>> /\ ~InStep /\ InStep' /\ at' = Top.step
        /\ stack' = Front(stack) /\ contexts' = Around(Top, contexts)
        /\ Top.kind \in CallKinds /\ Top.kind # "handler"
    BY DEF ReturnsFromCall, InStep, CallKinds
  <1>3. PICK s \in Seq(Frames) : s = Front(stack) /\ s # <<>> /\ stack = Append(s, Top)
    BY <1>2, OuterFrame
  <1>4. Top \in Frames /\ log \in Seq(Events)
    BY <1>2, OuterFrame
  <1>5. PICK step \in Nat : step = Top.step /\ step \notin cut
    <2>1. Len(stack) \in 1..Len(stack) /\ Top = stack[Len(stack)] /\ Top.step \in Nat
      BY Innermost DEF Kept
    <2> QED BY <2>1 DEF Apart
  <1>6. PICK out : out = Around(Top, contexts)
    OBVIOUS
  <1>7. /\ Chain(mode, s, out, k, o) /\ Based(s, log, k, o, g) /\ o[Len(s)] \in Seq(Events)
        /\ o[Len(stack)] = With(mode, out, o[Len(s)], step, Top.kind)
    BY <1>1, <1>2, <1>3, <1>5, <1>6, OuterChain
  <1>8. PICK open \in Seq(Events) : open = o[Len(s)]
    BY <1>7
  <1>9. g[Len(log)] = With(mode, out, open, step, "call")
    <2>1. g[Len(log)] = With(mode, out, open, step, Top.kind)
      BY <1>1, <1>2, <1>7, <1>8 DEF OpenNow
    <2> QED BY <1>2, <2>1 DEF With, CallKinds
  <1>10. PICK left, noted \in Events :
           left = Event("leave", step) /\ noted = Event("noted", step) /\ left = Left /\ Quiet(noted)
    <2>1. /\ Event("leave", step) \in Events /\ Event("noted", step) \in Events
          /\ Event("noted", step).type = "noted" /\ Left = Event("leave", step)
      BY <1>5 DEF Left, Event, Events, Steps
    <2> QED BY <2>1 DEF Quiet
  <1>11. PICK l : /\ l \in {Append(log, left), Append(Append(log, left), noted)}
                  /\ log' = IF RecordsIn(mode, out) THEN l ELSE log
    BY <1>2, <1>5, <1>6, <1>10 DEF ReturnsFromCall
  <1>12. PICK h : Continues(cut, log, g, log', h) /\ h[Len(log')] = With(mode, out, open, step, "block")
    <2>1. CASE RecordsIn(mode, out)
      <3>1. PICK before \in Seq(Events) : before = Append(open, Event("started", step))
                                          /\ before = With(mode, out, open, step, "block")
        <4>1. With(mode, out, open, step, "block") = Append(open, Event("started", step))
          BY <2>1 DEF With, CallKinds
        <4> QED BY <1>5, <1>8, <4>1, WithTyped
      <3>2. g[Len(log)] = Append(before, Event("enter", step))
        BY <1>9, <2>1, <3>1 DEF With, CallKinds
      <3>3. OpenedIn(cut, g[Len(log)], left) = before
        BY <1>5, <1>10, <3>2, EventCloses
      <3>4. PICK h : Continues(cut, log, g, Append(log, left), h)
                     /\ h[Len(Append(log, left))] = OpenedIn(cut, g[Len(log)], left)
        <4>1. log \in Seq(Events) /\ left \in Events /\ Traces(cut, log, g)
          BY <1>1, <1>4
        <4> QED BY <4>1, OneMoreEvent
      <3>5. PICK p \in Seq(Events) : p = Append(log, left) /\ Traces(cut, p, h)
        BY <3>4 DEF Continues
      <3>6. PICK r : Continues(cut, p, h, l, r) /\ r[Len(l)] = h[Len(p)]
        <4>1. l = p \/ l = Append(p, noted)
          BY <1>11, <3>5
        <4>2. QuietlyAfter(p, l)
          BY <1>10, <4>1 DEF QuietlyAfter
        <4>3. p \in Seq(Events) /\ Traces(cut, p, h)
          BY <3>5
        <4> QED BY <4>2, <4>3, QuietContinues
      <3>7. Continues(cut, log, g, l, r)
        BY <1>4, <3>4, <3>5, <3>6, ContinuesOn
      <3> QED BY <1>11, <2>1, <3>1, <3>3, <3>4, <3>5, <3>6, <3>7
    <2>2. CASE ~RecordsIn(mode, out)
      <3>1. Continues(cut, log, g, log, g)
        BY <1>1, <1>4 DEF Continues
      <3>2. With(mode, out, open, step, "call") = open /\ With(mode, out, open, step, "block") = open
        BY <2>2 DEF With
      <3> QED BY <1>9, <1>11, <2>2, <3>1, <3>2
    <2> QED BY <2>1, <2>2
  <1>13. Based(s, log', k, o, h)
    BY <1>4, <1>7, <1>12, BasedOn
  <1>14. OpenNow(o)' = With(mode, out, open, step, "block")
    BY <1>2, <1>3, <1>5, <1>6, <1>8 DEF OpenNow
  <1>15. Traces(cut, log', h)
    BY <1>12 DEF Continues
  <1> QED BY <1>2, <1>3, <1>6, <1>7, <1>12, <1>13, <1>14, <1>15 DEF Nested

\* A call is cut off: the log ends where it did when the call was entered.
LEMMA NestedLoses ==
  ASSUME Kept, Nested, Apart, ToldSoFar, LosesCall
  PROVE  Nested'
  <1>1. PICK k, o, g :
          /\ Chain(mode, stack, contexts, k, o) /\ Based(stack, log, k, o, g)
          /\ Traces(cut, log, g) /\ g[Len(log)] = OpenNow(o)
    BY DEF Nested
  <1>2. /\ mode' = mode /\ InStep' /\ at' = Top.step /\ cut' = cut \cup {Top.step}
        /\ stack' = Front(stack) /\ contexts' = Around(Top, contexts)
        /\ log' = SubSeq(log, 1, Base(contexts))
        /\ Top.kind \in CallKinds /\ Top.kind # "handler"
    BY DEF LosesCall, InStep, CallKinds
  <1>3. PICK s \in Seq(Frames) : s = Front(stack) /\ s # <<>> /\ stack = Append(s, Top)
    BY <1>2, OuterFrame
  <1>4. Top \in Frames /\ log \in Seq(Events)
    BY <1>2, OuterFrame
  <1>5. PICK step : step = Top.step
    OBVIOUS
  <1>6. \A i \in 1..Len(log) : log[i].type = "finished" => log[i].step # step
    <2>1. Len(stack) \in 1..Len(stack) /\ Top = stack[Len(stack)]
      BY Innermost DEF Kept
    <2> QED BY <1>5, <2>1 DEF ToldSoFar, FinishedIn
  <1>7. PICK out : out = Around(Top, contexts)
    OBVIOUS
  <1>8. /\ Chain(mode, s, out, k, o) /\ Based(s, log, k, o, g)
        /\ Base(contexts) \in 0..Len(log)
        /\ g[Base(contexts)] = With(mode, out, o[Len(s)], step, Top.kind)
        /\ \A j \in 2..Len(s) : s[j].kind \in CallKinds => Base(k[j]) <= Base(contexts)
    BY <1>1, <1>2, <1>3, <1>5, <1>7, OuterChain
  <1>9. PICK b \in 0..Len(log) : b = Base(contexts)
    BY <1>8
  <1>10. PICK p \in Seq(Events) : /\ p = log' /\ Len(p) = b /\ \A i \in 1..b : p[i] = log[i]
                                  /\ Traces(cut \cup {step}, p, g)
    <2>1. /\ SubSeq(log, 1, b) \in Seq(Events) /\ Len(SubSeq(log, 1, b)) = b
          /\ \A i \in 1..b : SubSeq(log, 1, b)[i] = log[i]
          /\ Traces(cut \cup {step}, SubSeq(log, 1, b), g)
      BY <1>1, <1>4, <1>6, TracesCut
    <2> QED BY <1>2, <1>9, <2>1
  <1>11. Based(s, p, k, o, g)
    <2> SUFFICES ASSUME NEW i \in 2..Len(s), s[i].kind \in CallKinds
                 PROVE  /\ Base(k[i]) \in 0..Len(p) /\ g[Base(k[i])] = o[i]
                        /\ \A j \in 2..i : s[j].kind \in CallKinds => Base(k[j]) <= Base(k[i])
      BY DEF Based
    <2>1. /\ Base(k[i]) \in 0..Len(log) /\ g[Base(k[i])] = o[i]
          /\ \A j \in 2..i : s[j].kind \in CallKinds => Base(k[j]) <= Base(k[i])
      BY <1>8 DEF Based
    <2>2. Base(k[i]) <= b
      BY <1>8, <1>9
    <2>3. Base(k[i]) \in 0..Len(p)
      <3>1. PICK x : x = Base(k[i])
        OBVIOUS
      <3>2. x \in 0..Len(log) /\ x <= b /\ Len(p) = b
        BY <1>10, <2>1, <2>2, <3>1
      <3>3. Len(log) \in Nat
        BY <1>4
      <3> QED BY <3>1, <3>2, <3>3
    <2> QED BY <2>1, <2>3
  <1>12. OpenNow(o)' = g[Len(p)]
    <2>1. OpenNow(o)' = With(mode, out, o[Len(s)], step, "call")
      BY <1>2, <1>3, <1>5, <1>7 DEF OpenNow
    <2>2. g[Len(p)] = With(mode, out, o[Len(s)], step, Top.kind)
      BY <1>8, <1>9, <1>10
    <2> QED BY <1>2, <2>1, <2>2 DEF With, CallKinds
  <1> QED BY <1>2, <1>3, <1>5, <1>7, <1>8, <1>10, <1>11, <1>12 DEF Nested

-----------------------------------------------------------------------------
(* In every run.                                                           *)

Nesting == Apart /\ ToldSoFar /\ Nested

\* Each kind of move keeps them.
LEMMA NestingStep ==
  ASSUME Kept, Nesting, [Next]_vars
  PROVE  Nesting'
  <1>1. Apart /\ ToldSoFar /\ Nested
    BY DEF Nesting
  <1>2. \/ Rests \/ Begins \/ Finishes \/ Iterates \/ EntersBody \/ EntersCall
        \/ ChangesBody \/ LeavesBody \/ ReturnsFromCall \/ LosesCall
    BY Moved
  <1>3. Apart'
    BY <1>1, <1>2, ApartStep
  <1>4. ToldSoFar'
    BY <1>1, <1>2, <1>3, ToldStep
  <1>5. Nested'
    <2>1. CASE Rests
      BY <1>1, <2>1, NestedRests
    <2>2. CASE Begins
      BY <1>1, <1>3, <2>2, NestedBegins
    <2>3. CASE Finishes
      BY <1>1, <2>3, NestedFinishes
    <2>4. CASE Iterates \/ ChangesBody
      BY <1>1, <2>4, NestedTurns
    <2>5. CASE EntersBody
      BY <1>1, <2>5, NestedEnters
    <2>6. CASE EntersCall
      BY <1>1, <2>6, NestedCalls
    <2>7. CASE LeavesBody
      BY <1>1, <2>7, NestedLeaves
    <2>8. CASE ReturnsFromCall
      BY <1>1, <2>8, NestedReturns
    <2>9. CASE LosesCall
      BY <1>1, <2>9, NestedLoses
    <2> QED BY <1>2, <2>1, <2>2, <2>3, <2>4, <2>5, <2>6, <2>7, <2>8, <2>9
  <1> QED BY <1>3, <1>4, <1>5 DEF Nesting

\* No step has begun, and nothing is logged.
LEMMA InitNesting ==
  ASSUME Init
  PROVE  Nesting
  <1>1. PICK f : f = Frame("handler", 0) /\ f.step = 0
    <2>1. Frame("handler", 0).step = 0
      BY DEF Frame
    <2> QED BY <2>1
  <1>2. /\ Len(stack) = 1 /\ stack[1] = f /\ ~InStep /\ cut = {} /\ at = 0 /\ begun = 0
        /\ Len(log) = 0 /\ pc = "steps"
    BY <1>1 DEF Init, InStep
  <1>3. Apart
    BY <1>1, <1>2 DEF Apart
  <1>4. ToldSoFar
    BY <1>2 DEF ToldSoFar, Within, FinishedIn
  <1>5. Nested
    <2>1. PICK k : k[1] = contexts
      <3>1. [i \in {1} |-> contexts][1] = contexts
        OBVIOUS
      <3> QED BY <3>1
    <2>2. PICK o : o[1] = <<>>
      <3>1. [i \in {1} |-> <<>>][1] = <<>>
        OBVIOUS
      <3> QED BY <3>1
    <2>3. PICK g : g[0] = <<>>
      <3>1. [i \in {0} |-> <<>>][0] = <<>>
        OBVIOUS
      <3> QED BY <3>1
    <2>4. <<>> \in Seq(Events)
      OBVIOUS
    <2>5. \A i \in 1..1 : o[i] \in Seq(Events)
      <3>1. PICK none \in Seq(Events) : none = <<>>
        BY <2>4
      <3>2. o[1] \in Seq(Events)
        BY <2>2, <3>1
      <3>3. \A i \in 1..1 : i = 1
        OBVIOUS
      <3> QED BY <3>2, <3>3
    <2>6. Chain(mode, stack, contexts, k, o)
      BY <1>2, <2>1, <2>2, <2>5 DEF Chain
    <2>7. Based(stack, log, k, o, g)
      BY <1>2 DEF Based
    <2>8. Traces(cut, log, g)
      BY <1>2, <2>3 DEF Traces
    <2>9. g[Len(log)] = OpenNow(o)
      BY <1>2, <2>2, <2>3 DEF OpenNow
    <2> QED BY <2>6, <2>7, <2>8, <2>9 DEF Nested
  <1> QED BY <1>3, <1>4, <1>5 DEF Nesting

\* In every run the open events are those of the frames.
LEMMA NestingInvariant == Spec => []Nesting
  <1>1. Init => Nesting
    BY InitNesting
  <1>2. Kept /\ Nesting /\ [Next]_vars => Nesting'
    BY NestingStep
  <1> QED BY <1>1, <1>2, KeptInvariant, PTL DEF Spec

-----------------------------------------------------------------------------
(* The recursive functions over a log.                                     *)

\* The least of some positions.
LEMMA LeastPosition ==
  ASSUME NEW S \in SUBSET Nat, S # {}
  PROVE  \E n \in S : \A m \in S : n <= m
  <1>1. IsWellFoundedOn(OpToRel(<, Nat), Nat)
    BY NatLessThanWellFounded
  <1>2. PICK n \in S : \A m \in S : <<m, n>> \notin OpToRel(<, Nat)
    BY <1>1, WFMin
  <1>3. \A m \in S : ~(m < n)
    BY <1>2 DEF OpToRel
  <1> QED BY <1>3

\* A trace is what is still open after each event.
LEMMA TraceIsOpen ==
  ASSUME log \in Seq(Events), NEW g, Traces(cut, log, g)
  PROVE  StillOpen = g[Len(log)]
  <1> DEFINE Opens(h) == h = [n \in 0..Len(log) |-> IF n = 0 THEN <<>> ELSE Opened(h[n - 1], log[n])]
  <1>1. PICK l \in Nat : l = Len(log)
    OBVIOUS
  <1>2. PICK f : f = CHOOSE h : Opens(h)
    OBVIOUS
  <1>3. StillOpen = f[Len(log)]
    BY <1>2 DEF StillOpen
  <1>4. PICK p : p = [n \in 0..l |-> g[n]]
    OBVIOUS
  <1>5. \A n \in 0..l : p[n] = g[n]
    BY <1>4
  <1>6. Opens(p)
    <2>1. \A n \in 0..l : p[n] = IF n = 0 THEN <<>> ELSE Opened(p[n - 1], log[n])
      <3> TAKE n \in 0..l
      <3>1. CASE n = 0
        BY <1>5, <3>1 DEF Traces
      <3>2. CASE n # 0
        <4>1. n \in 1..l /\ n - 1 \in 0..l
          BY <1>1, <3>2
        <4>2. g[n] = OpenedIn(cut, g[n - 1], log[n])
          BY <1>1, <4>1 DEF Traces
        <4> QED BY <1>5, <3>2, <4>1, <4>2, OpenedNow
      <3> QED BY <3>1, <3>2
    <2>2. p = [n \in 0..l |-> IF n = 0 THEN <<>> ELSE Opened(p[n - 1], log[n])]
      BY <1>4, <2>1, Zenon
    <2> QED BY <1>1, <2>2
  <1>7. Opens(f)
    <2> HIDE DEF Opens
    <2> QED BY <1>2, <1>6
  <1>8. \A n \in 0..l : f[n] = IF n = 0 THEN <<>> ELSE Opened(f[n - 1], log[n])
    <2>1. f = [n \in 0..l |-> IF n = 0 THEN <<>> ELSE Opened(f[n - 1], log[n])]
      BY <1>1, <1>7
    <2> HIDE DEF Opens
    <2> QED BY <2>1, Zenon
  <1> HIDE DEF Opens
  <1>9. \A n \in 0..l : f[n] = g[n]
    <2> DEFINE wrong == {n \in 0..l : f[n] # g[n]}
    <2> SUFFICES ASSUME wrong # {} PROVE FALSE
      OBVIOUS
    <2>1. wrong \in SUBSET Nat
      OBVIOUS
    <2>2. PICK n \in wrong : \A m \in wrong : n <= m
      BY <2>1, LeastPosition, Zenon
    <2>3. n \in 0..l /\ f[n] # g[n]
      OBVIOUS
    <2>4. n # 0
      BY <1>8, <2>3 DEF Traces
    <2>5. n \in 1..l /\ n - 1 \in 0..l /\ ~(n <= n - 1)
      BY <1>1, <2>3, <2>4
    <2>6. f[n - 1] = g[n - 1]
      BY <2>2, <2>5
    <2>7. g[n] = OpenedIn(cut, g[n - 1], log[n])
      BY <1>1, <2>5 DEF Traces
    <2>8. f[n] = Opened(f[n - 1], log[n])
      BY <1>8, <2>4, <2>3
    <2> QED BY <2>3, <2>6, <2>7, <2>8, OpenedNow
  <1>10. l \in 0..l
    OBVIOUS
  <1> QED BY <1>1, <1>3, <1>9, <1>10

Opening == {e \in Events : e.type \in {"started", "enter"}}

\* What opens is the beginning of a step or of a call.
LEMMA OpensTyped ==
  ASSUME NEW m, NEW cs, NEW open \in Seq(Opening), NEW step \in Nat, NEW kind
  PROVE  With(m, cs, open, step, kind) \in Seq(Opening)
  <1>1. Event("started", step) \in Opening /\ Event("enter", step) \in Opening
    BY DEF Event, Events, Steps, Opening
  <1>2. Append(open, Event("started", step)) \in Seq(Opening)
    BY <1>1, Grown
  <1>3. Append(Append(open, Event("started", step)), Event("enter", step)) \in Seq(Opening)
    BY <1>1, <1>2, Grown
  <1> QED BY <1>2, <1>3 DEF With

\* So do the events open in every frame.
LEMMA ChainTyped ==
  ASSUME NEW m, NEW s \in Seq(Frames), NEW cs, NEW k, NEW o, Chain(m, s, cs, k, o)
  PROVE  \A i \in 1..Len(s) : o[i] \in Seq(Opening)
  <1> DEFINE wrong == {i \in 1..Len(s) : o[i] \notin Seq(Opening)}
  <1> SUFFICES ASSUME wrong # {} PROVE FALSE
    OBVIOUS
  <1>1. wrong \in SUBSET Nat
    OBVIOUS
  <1>2. PICK i \in wrong : \A j \in wrong : i <= j
    BY <1>1, LeastPosition, Zenon
  <1>3. i \in 1..Len(s) /\ o[i] \notin Seq(Opening)
    OBVIOUS
  <1>4. i # 1
    <2>1. <<>> \in Seq(Opening)
      OBVIOUS
    <2> QED BY <1>3, <2>1 DEF Chain
  <1>5. i \in 2..Len(s) /\ i - 1 \in 1..Len(s) /\ ~(i <= i - 1)
    BY <1>3, <1>4
  <1>6. PICK open \in Seq(Opening) : open = o[i - 1]
    BY <1>2, <1>5
  <1>7. s[i].step \in Nat
    <2>1. s[i] \in Frames
      BY <1>3, ElementOfSeq
    <2> QED BY <2>1 DEF Frames, Steps
  <1>8. o[i] = With(m, k[i - 1], open, s[i].step, s[i].kind)
    BY <1>5, <1>6 DEF Chain
  <1> QED BY <1>3, <1>7, <1>8, OpensTyped

\* The events of a log nest, whatever way its steps and calls were left.
THEOREM EventsAreNested == Spec => []EventsNest
  <1>1. Kept /\ Nesting => EventsNest
    <2> SUFFICES ASSUME Kept, Nesting PROVE EventsNest
      OBVIOUS
    <2>1. PICK k, o, g :
            /\ Chain(mode, stack, contexts, k, o) /\ Based(stack, log, k, o, g)
            /\ Traces(cut, log, g) /\ g[Len(log)] = OpenNow(o)
      BY DEF Nesting, Nested
    <2>2. /\ log \in Seq(Events) /\ stack \in Seq(Frames) /\ at \in Nat /\ Len(stack) \in 1..Len(stack)
          /\ (Top.kind = "handler" => Len(stack) = 1)
      BY Innermost DEF Kept, Framed, Flow, Logs
    <2>3. StillOpen = OpenNow(o)
      BY <2>1, <2>2, TraceIsOpen
    <2>4. PICK open \in Seq(Opening) : open = o[Len(stack)]
      BY <2>1, <2>2, ChainTyped
    <2>5. OpenNow(o) \in Seq(Opening)
      BY <2>2, <2>4, OpensTyped DEF OpenNow
    <2>6. \A i \in DOMAIN StillOpen : StillOpen[i].type \in {"started", "enter"}
      <3>1. PICK q \in Seq(Opening) : q = StillOpen
        BY <2>3, <2>5
      <3>2. \A i \in DOMAIN q : q[i] \in Opening
        BY ElementOfSeq
      <3> QED BY <3>1, <3>2 DEF Opening
    <2>7. ASSUME status \in {"finished", "failed"}
          PROVE  StillOpen = <<>>
      <3>1. pc = "body" /\ Top.kind = "handler"
        BY <2>7 DEF Kept, Flow
      <3>2. OpenNow(o) = o[1]
        BY <2>2, <3>1 DEF OpenNow, InStep
      <3> QED BY <2>1, <2>3, <3>2 DEF Chain
    <2> QED BY <2>6, <2>7 DEF EventsNest
  <1> QED BY <1>1, KeptInvariant, NestingInvariant, PTL

-----------------------------------------------------------------------------
(* What a sequence has at some places.                                     *)

\* What each beginning of a sequence has there.
KeepsUpTo(s, places, n, g) ==
  /\ g[0] = <<>>
  /\ \A i \in 1..n : g[i] = IF i \in places THEN Append(g[i - 1], s[i]) ELSE g[i - 1]

\* There is such a function.
LEMMA SomeKeeps ==
  ASSUME NEW s, NEW places, NEW l \in Nat
  PROVE  \E g : KeepsUpTo(s, places, l, g)
  <1> DEFINE wrong == {n \in Nat : ~\E g : KeepsUpTo(s, places, n, g)}
  <1> SUFFICES ASSUME wrong # {} PROVE FALSE
    OBVIOUS
  <1>1. wrong \in SUBSET Nat
    OBVIOUS
  <1>2. PICK n \in wrong : \A m \in wrong : n <= m
    BY <1>1, LeastPosition, Zenon
  <1>3. n \in Nat /\ ~\E g : KeepsUpTo(s, places, n, g)
    OBVIOUS
  <1>4. n # 0
    <2>1. [i \in {0} |-> <<>>][0] = <<>>
      OBVIOUS
    <2>2. KeepsUpTo(s, places, 0, [i \in {0} |-> <<>>])
      BY <2>1 DEF KeepsUpTo
    <2> QED BY <1>3, <2>2
  <1>5. n - 1 \in Nat /\ ~(n <= n - 1)
    BY <1>3, <1>4
  <1>6. PICK g : KeepsUpTo(s, places, n - 1, g)
    BY <1>2, <1>5
  <1>7. PICK last : last = IF n \in places THEN Append(g[n - 1], s[n]) ELSE g[n - 1]
    OBVIOUS
  <1>8. PICK h : h = [i \in 0..n |-> IF i = n THEN last ELSE g[i]]
    OBVIOUS
  <1>9. h[n] = last /\ \A i \in 0..(n - 1) : h[i] = g[i]
    BY <1>3, <1>8
  <1>10. \A i \in 1..n : h[i] = IF i \in places THEN Append(h[i - 1], s[i]) ELSE h[i - 1]
    <2> TAKE i \in 1..n
    <2>1. i - 1 \in 0..(n - 1) /\ h[i - 1] = g[i - 1]
      BY <1>3, <1>9
    <2>2. CASE i = n
      BY <1>7, <1>9, <2>1, <2>2
    <2>3. CASE i # n
      <3>1. i \in 1..(n - 1) /\ i \in 0..(n - 1)
        BY <1>3, <2>3
      <3>2. g[i] = IF i \in places THEN Append(g[i - 1], s[i]) ELSE g[i - 1]
        BY <1>6, <3>1 DEF KeepsUpTo
      <3> QED BY <1>9, <2>1, <3>1, <3>2
    <2> QED BY <2>2, <2>3
  <1>11. h[0] = <<>>
    <2>1. 0 \in 0..(n - 1)
      BY <1>5
    <2> QED BY <1>6, <1>9, <2>1 DEF KeepsUpTo
  <1>12. KeepsUpTo(s, places, n, h)
    BY <1>10, <1>11 DEF KeepsUpTo
  <1> QED BY <1>3, <1>12

\* And it gives what Those does.
LEMMA ThoseKeeps ==
  ASSUME NEW S, NEW s \in Seq(S), NEW places, NEW g, KeepsUpTo(s, places, Len(s), g)
  PROVE  Those(s, places) = g[Len(s)]
  <1> DEFINE Keeps(h) ==
        h = [n \in 0..Len(s) |->
               IF n = 0 THEN <<>>
               ELSE IF n \in places THEN Append(h[n - 1], s[n]) ELSE h[n - 1]]
  <1>1. PICK l \in Nat : l = Len(s)
    OBVIOUS
  <1>2. PICK f : f = CHOOSE h : Keeps(h)
    OBVIOUS
  <1>3. Those(s, places) = f[Len(s)]
    BY <1>2 DEF Those
  <1>4. PICK p : p = [n \in 0..l |-> g[n]]
    OBVIOUS
  <1>5. \A n \in 0..l : p[n] = g[n]
    BY <1>4
  <1>6. Keeps(p)
    <2>1. \A n \in 0..l : p[n] = IF n = 0 THEN <<>>
                                 ELSE IF n \in places THEN Append(p[n - 1], s[n]) ELSE p[n - 1]
      <3> TAKE n \in 0..l
      <3>1. CASE n = 0
        BY <1>5, <3>1 DEF KeepsUpTo
      <3>2. CASE n # 0
        <4>1. n \in 1..l /\ n - 1 \in 0..l
          BY <1>1, <3>2
        <4>2. g[n] = IF n \in places THEN Append(g[n - 1], s[n]) ELSE g[n - 1]
          BY <1>1, <4>1 DEF KeepsUpTo
        <4> QED BY <1>5, <3>2, <4>1, <4>2
      <3> QED BY <3>1, <3>2
    <2>2. p = [n \in 0..l |-> IF n = 0 THEN <<>>
                              ELSE IF n \in places THEN Append(p[n - 1], s[n]) ELSE p[n - 1]]
      BY <1>4, <2>1, Zenon
    <2> QED BY <1>1, <2>2
  <1>7. Keeps(f)
    <2> HIDE DEF Keeps
    <2> QED BY <1>2, <1>6
  <1>8. \A n \in 0..l : f[n] = IF n = 0 THEN <<>>
                               ELSE IF n \in places THEN Append(f[n - 1], s[n]) ELSE f[n - 1]
    <2>1. f = [n \in 0..l |-> IF n = 0 THEN <<>>
                              ELSE IF n \in places THEN Append(f[n - 1], s[n]) ELSE f[n - 1]]
      BY <1>1, <1>7
    <2> HIDE DEF Keeps
    <2> QED BY <2>1, Zenon
  <1> HIDE DEF Keeps
  <1>9. \A n \in 0..l : f[n] = g[n]
    <2> DEFINE wrong == {n \in 0..l : f[n] # g[n]}
    <2> SUFFICES ASSUME wrong # {} PROVE FALSE
      OBVIOUS
    <2>1. wrong \in SUBSET Nat
      OBVIOUS
    <2>2. PICK n \in wrong : \A m \in wrong : n <= m
      BY <2>1, LeastPosition, Zenon
    <2>3. n \in 0..l /\ f[n] # g[n]
      OBVIOUS
    <2>4. n # 0
      BY <1>8, <2>3 DEF KeepsUpTo
    <2>5. n \in 1..l /\ n - 1 \in 0..l /\ ~(n <= n - 1)
      BY <1>1, <2>3, <2>4
    <2>6. f[n - 1] = g[n - 1]
      BY <2>2, <2>5
    <2>7. g[n] = IF n \in places THEN Append(g[n - 1], s[n]) ELSE g[n - 1]
      BY <1>1, <2>5 DEF KeepsUpTo
    <2>8. f[n] = IF n \in places THEN Append(f[n - 1], s[n]) ELSE f[n - 1]
      BY <1>8, <2>4, <2>3
    <2> QED BY <2>3, <2>6, <2>7, <2>8
  <1>10. l \in 0..l
    OBVIOUS
  <1> QED BY <1>1, <1>3, <1>9, <1>10

\* One more member: what the sequence had at these places, and it.
LEMMA ThoseOfGrown ==
  ASSUME NEW S, NEW s \in Seq(S), NEW e \in S, NEW places, NEW before,
         \A i \in 1..Len(s) : i \in places <=> i \in before
  PROVE  Those(Append(s, e), places) =
           IF Len(s) + 1 \in places THEN Append(Those(s, before), e) ELSE Those(s, before)
  <1>1. PICK n \in Nat : n = Len(s)
    OBVIOUS
  <1>2. PICK m \in Seq(S) : /\ m = Append(s, e) /\ Len(m) = n + 1 /\ m[n + 1] = e
                            /\ \A i \in 1..n : m[i] = s[i]
    <2>1. /\ Append(s, e) \in Seq(S) /\ Len(Append(s, e)) = n + 1
          /\ Append(s, e)[n + 1] = e /\ \A i \in 1..n : Append(s, e)[i] = s[i]
      BY <1>1, Grown
    <2> QED BY <2>1
  <1>3. PICK g : KeepsUpTo(m, places, n + 1, g)
    <2>1. n + 1 \in Nat
      OBVIOUS
    <2> QED BY <2>1, SomeKeeps
  <1>4. /\ g[0] = <<>>
        /\ \A i \in 1..(n + 1) : g[i] = IF i \in places THEN Append(g[i - 1], m[i]) ELSE g[i - 1]
    BY <1>3 DEF KeepsUpTo
  <1>5. Those(m, places) = g[n + 1]
    BY <1>2, <1>3, ThoseKeeps
  <1>6. Those(s, before) = g[n]
    <2>1. \A i \in 1..n : i \in 1..(n + 1) /\ m[i] = s[i] /\ (i \in places <=> i \in before)
      BY <1>1, <1>2
    <2>2. KeepsUpTo(s, before, n, g)
      BY <1>4, <2>1 DEF KeepsUpTo
    <2> QED BY <1>1, <2>2, ThoseKeeps
  <1>7. g[n + 1] = IF n + 1 \in places THEN Append(g[n], e) ELSE g[n]
    <2>1. n + 1 \in 1..(n + 1) /\ n + 1 - 1 = n
      OBVIOUS
    <2> QED BY <1>2, <1>4, <2>1
  <1> QED BY <1>1, <1>2, <1>5, <1>6, <1>7

\* None has nothing anywhere.
LEMMA ThoseOfNone == \A places : Those(<<>>, places) = <<>>
  <1> TAKE places
  <1>1. PICK none \in Seq(Nat) : none = <<>> /\ Len(none) = 0
    <2>1. <<>> \in Seq(Nat) /\ Len(<<>>) = 0
      OBVIOUS
    <2> QED BY <2>1
  <1>2. PICK g : KeepsUpTo(none, places, 0, g)
    <2>1. 0 \in Nat
      OBVIOUS
    <2> QED BY <2>1, SomeKeeps
  <1>3. Those(none, places) = g[0]
    BY <1>1, <1>2, ThoseKeeps
  <1> QED BY <1>1, <1>2, <1>3 DEF KeepsUpTo

\* What a sequence has depends on the places in it.
LEMMA ThoseInIt ==
  ASSUME NEW S, NEW s \in Seq(S), NEW places, NEW others,
         \A i \in 1..Len(s) : i \in places <=> i \in others
  PROVE  Those(s, places) = Those(s, others)
  <1>1. PICK n \in Nat : n = Len(s)
    OBVIOUS
  <1>2. PICK g : KeepsUpTo(s, places, n, g)
    BY SomeKeeps
  <1>3. KeepsUpTo(s, others, n, g)
    BY <1>1, <1>2 DEF KeepsUpTo
  <1> QED BY <1>1, <1>2, <1>3, ThoseKeeps

-----------------------------------------------------------------------------
(* What the debugger has received.                                         *)

EventsOf(r) == Those(r, {i \in DOMAIN r : r[i] \in Events})

\* Such a report is of such a log, but for so many messages.
Received(r, l, d) ==
  \E lost \in [1..d -> 0..Len(l)] :
    EventsOf(r) = Those(l, DOMAIN l \ {lost[i] : i \in 1..d})

\* The events of a report are events.
LEMMA ReportGrows ==
  ASSUME NEW r \in Seq(Reports), NEW e \in Reports
  PROVE  EventsOf(Append(r, e)) = IF e \in Events THEN Append(EventsOf(r), e) ELSE EventsOf(r)
  <1>1. PICK n \in Nat : n = Len(r) /\ DOMAIN r = 1..n
    <2>1. Len(r) \in Nat /\ DOMAIN r = 1..Len(r)
      OBVIOUS
    <2> QED BY <2>1
  <1>2. PICK q \in Seq(Reports) : /\ q = Append(r, e) /\ DOMAIN q = 1..(n + 1) /\ q[n + 1] = e
                                  /\ \A i \in 1..n : q[i] = r[i]
    <2>1. /\ Append(r, e) \in Seq(Reports) /\ Len(Append(r, e)) = n + 1
          /\ Append(r, e)[n + 1] = e /\ \A i \in 1..n : Append(r, e)[i] = r[i]
      BY <1>1, Grown
    <2>2. DOMAIN Append(r, e) = 1..(n + 1)
      BY <2>1
    <2> QED BY <2>1, <2>2
  <1>3. PICK before : before = {i \in DOMAIN r : r[i] \in Events}
    OBVIOUS
  <1>4. PICK places : places = {i \in DOMAIN q : q[i] \in Events}
    OBVIOUS
  <1>5. \A i \in 1..n : i \in places <=> i \in before
    BY <1>1, <1>2, <1>3, <1>4
  <1>6. n + 1 \in places <=> e \in Events
    BY <1>2, <1>4
  <1>7. Those(q, places) = IF n + 1 \in places THEN Append(Those(r, before), e) ELSE Those(r, before)
    BY <1>1, <1>2, <1>5, ThoseOfGrown
  <1>8. EventsOf(q) = Those(q, places) /\ EventsOf(r) = Those(r, before)
    BY <1>3, <1>4 DEF EventsOf
  <1> QED BY <1>2, <1>6, <1>7, <1>8

\* One more event, and the debugger takes it, or not.
LEMMA ReceivesEvent ==
  ASSUME NEW r \in Seq(Reports), NEW l \in Seq(Events), NEW d \in Nat, NEW e \in Events,
         Received(r, l, d)
  PROVE  /\ Append(r, e) \in Seq(Reports) /\ Append(l, e) \in Seq(Events)
         /\ Received(Append(r, e), Append(l, e), d)
         /\ Received(r, Append(l, e), d + 1)
  <1>1. e \in Reports
    BY DEF Reports
  <1>2. Append(r, e) \in Seq(Reports)
    BY <1>1, Grown
  <1>3. PICK n \in Nat : n = Len(l) /\ DOMAIN l = 1..n
    <2>1. Len(l) \in Nat /\ DOMAIN l = 1..Len(l)
      OBVIOUS
    <2> QED BY <2>1
  <1>4. PICK m \in Seq(Events) : m = Append(l, e) /\ Len(m) = n + 1 /\ DOMAIN m = 1..(n + 1)
    <2>1. Append(l, e) \in Seq(Events) /\ Len(Append(l, e)) = n + 1
      BY <1>3, Grown
    <2>2. DOMAIN Append(l, e) = 1..(n + 1)
      BY <2>1
    <2> QED BY <2>1, <2>2
  <1>5. PICK lost \in [1..d -> 0..n] : EventsOf(r) = Those(l, 1..n \ {lost[i] : i \in 1..d})
    BY <1>3 DEF Received
  <1>6. PICK gone : gone = {lost[i] : i \in 1..d}
    OBVIOUS
  <1>7. gone \subseteq 0..n
    BY <1>6
  <1>8. PICK here : here = Those(l, 1..n \ gone) /\ EventsOf(r) = here
    BY <1>5, <1>6
  <1>9. ASSUME NEW places, \A i \in 1..n : i \in places <=> i \in 1..n \ gone
        PROVE  Those(m, places) = IF n + 1 \in places THEN Append(here, e) ELSE here
    <2>1. PICK before : before = 1..n \ gone
      OBVIOUS
    <2>2. \A i \in 1..Len(l) : i \in places <=> i \in before
      BY <1>3, <1>9, <2>1
    <2>3. Those(Append(l, e), places) =
            IF Len(l) + 1 \in places THEN Append(Those(l, before), e) ELSE Those(l, before)
      BY <2>2, ThoseOfGrown
    <2> QED BY <1>3, <1>4, <1>8, <2>1, <2>3
  <1>10. Received(Append(r, e), m, d)
    <2>1. lost \in [1..d -> 0..(n + 1)]
      <3>1. \A i \in 1..d : lost[i] \in 0..(n + 1)
        OBVIOUS
      <3> QED BY <3>1
    <2>2. PICK places : places = 1..(n + 1) \ gone
      OBVIOUS
    <2>3. n + 1 \in places /\ \A i \in 1..n : i \in places <=> i \in 1..n \ gone
      BY <1>7, <2>2
    <2>4. Those(m, places) = Append(here, e)
      BY <1>9, <2>3
    <2>5. EventsOf(Append(r, e)) = Append(here, e)
      BY <1>1, <1>8, ReportGrows
    <2> QED BY <1>4, <1>6, <2>1, <2>2, <2>4, <2>5 DEF Received
  <1>11. Received(r, m, d + 1)
    <2>1. PICK more : more = [i \in 1..(d + 1) |-> IF i = d + 1 THEN n + 1 ELSE lost[i]]
      OBVIOUS
    <2>2. more[d + 1] = n + 1 /\ \A i \in 1..d : more[i] = lost[i]
      BY <2>1
    <2>3. more \in [1..(d + 1) -> 0..(n + 1)]
      <3>1. \A i \in 1..(d + 1) : (IF i = d + 1 THEN n + 1 ELSE lost[i]) \in 0..(n + 1)
        OBVIOUS
      <3> QED BY <2>1, <3>1
    <2>4. PICK away : away = {more[i] : i \in 1..(d + 1)}
      OBVIOUS
    <2>5. away = gone \cup {n + 1}
      <3>1. \A i \in 1..(d + 1) : i \in 1..d \/ i = d + 1
        OBVIOUS
      <3>2. \A i \in 1..d : i \in 1..(d + 1)
        OBVIOUS
      <3>3. d + 1 \in 1..(d + 1)
        OBVIOUS
      <3> QED BY <1>6, <2>2, <2>4, <3>1, <3>2, <3>3, Zenon
    <2>6. PICK places : places = 1..(n + 1) \ away
      OBVIOUS
    <2>7. n + 1 \notin places /\ \A i \in 1..n : i \in places <=> i \in 1..n \ gone
      BY <2>5, <2>6
    <2>8. Those(m, places) = here
      BY <1>9, <2>7
    <2> QED BY <1>4, <1>8, <2>3, <2>4, <2>6, <2>8 DEF Received
  <1> QED BY <1>2, <1>4, <1>10, <1>11

\* And a message that is no event.
LEMMA ReceivesOther ==
  ASSUME NEW r \in Seq(Reports), NEW l \in Seq(Events), NEW d \in Nat, NEW e \in Reports,
         e \notin Events, Received(r, l, d)
  PROVE  /\ Append(r, e) \in Seq(Reports)
         /\ Received(Append(r, e), l, d) /\ Received(r, l, d + 1)
  <1>1. EventsOf(Append(r, e)) = EventsOf(r) /\ Append(r, e) \in Seq(Reports)
    BY ReportGrows, Grown
  <1>2. PICK n \in Nat : n = Len(l) /\ DOMAIN l = 1..n
    <2>1. Len(l) \in Nat /\ DOMAIN l = 1..Len(l)
      OBVIOUS
    <2> QED BY <2>1
  <1>3. PICK lost \in [1..d -> 0..n] : EventsOf(r) = Those(l, 1..n \ {lost[i] : i \in 1..d})
    BY <1>2 DEF Received
  <1>4. Received(Append(r, e), l, d)
    BY <1>1, <1>2, <1>3 DEF Received
  <1>5. Received(r, l, d + 1)
    <2>1. PICK more : more = [i \in 1..(d + 1) |-> IF i = d + 1 THEN 0 ELSE lost[i]]
      OBVIOUS
    <2>2. more[d + 1] = 0 /\ \A i \in 1..d : more[i] = lost[i]
      BY <2>1
    <2>3. more \in [1..(d + 1) -> 0..n]
      <3>1. \A i \in 1..(d + 1) : (IF i = d + 1 THEN 0 ELSE lost[i]) \in 0..n
        OBVIOUS
      <3> QED BY <2>1, <3>1
    <2>4. PICK away, gone : away = {more[i] : i \in 1..(d + 1)} /\ gone = {lost[i] : i \in 1..d}
      OBVIOUS
    <2>5. away = gone \cup {0}
      <3>1. \A i \in 1..(d + 1) : i \in 1..d \/ i = d + 1
        OBVIOUS
      <3>2. \A i \in 1..d : i \in 1..(d + 1)
        OBVIOUS
      <3>3. d + 1 \in 1..(d + 1)
        OBVIOUS
      <3> QED BY <2>2, <2>4, <3>1, <3>2, <3>3, Zenon
    <2>6. PICK places, others : places = 1..n \ away /\ others = 1..n \ gone
      OBVIOUS
    <2>7. \A i \in 1..n : i \in places <=> i \in others
      BY <2>5, <2>6
    <2>8. Those(l, places) = Those(l, others)
      BY <1>2, <2>7, ThoseInIt
    <2> QED BY <1>2, <1>3, <2>3, <2>4, <2>6, <2>8 DEF Received
  <1> QED BY <1>1, <1>4, <1>5

\* One message, or two.
LEMMA ThoseOfShort ==
  ASSUME NEW S, NEW a \in S, NEW b \in S, NEW places
  PROVE  /\ Those(<<a>>, places) = IF 1 \in places THEN <<a>> ELSE <<>>
         /\ Those(<<a, b>>, places) = IF 1 \in places THEN IF 2 \in places THEN <<a, b>> ELSE <<a>>
                                      ELSE IF 2 \in places THEN <<b>> ELSE <<>>
  <1>1. PICK none \in Seq(S) : none = <<>> /\ Len(none) = 0
    <2>1. <<>> \in Seq(S) /\ Len(<<>>) = 0
      OBVIOUS
    <2> QED BY <2>1
  <1>2. PICK u, v, w \in Seq(S) : u = <<a>> /\ v = <<b>> /\ w = <<a, b>> /\ Len(u) = 1
    <2>1. <<a>> \in Seq(S) /\ <<b>> \in Seq(S) /\ <<a, b>> \in Seq(S) /\ Len(<<a>>) = 1
      OBVIOUS
    <2> QED BY <2>1
  <1>3. Append(none, a) = u /\ Append(none, b) = v
    BY <1>1, <1>2
  <1>4. Append(u, b) = w
    <2>1. none \o <<a, b>> = Append(Append(none, a), b)
      BY OneOrTwoMore
    <2>2. none \o <<a, b>> = w
      BY <1>1, <1>2
    <2> QED BY <1>3, <2>1, <2>2
  <1>5. Those(none, places) = none
    BY <1>1, ThoseOfNone
  <1>6. Those(u, places) = IF 1 \in places THEN u ELSE none
    <2>1. Those(Append(none, a), places) =
            IF Len(none) + 1 \in places THEN Append(Those(none, places), a) ELSE Those(none, places)
      BY ThoseOfGrown
    <2>2. Len(none) + 1 = 1
      BY <1>1
    <2> QED BY <1>3, <1>5, <2>1, <2>2
  <1>7. Those(w, places) = IF 2 \in places THEN Append(Those(u, places), b) ELSE Those(u, places)
    <2>1. Those(Append(u, b), places) =
            IF Len(u) + 1 \in places THEN Append(Those(u, places), b) ELSE Those(u, places)
      BY ThoseOfGrown
    <2>2. Len(u) + 1 = 2
      BY <1>2
    <2> QED BY <1>4, <2>1, <2>2
  <1>8. Those(w, places) = IF 1 \in places THEN IF 2 \in places THEN w ELSE u
                           ELSE IF 2 \in places THEN v ELSE none
    BY <1>3, <1>4, <1>6, <1>7
  <1> QED BY <1>1, <1>2, <1>6, <1>8

\* One message is told.
LEMMA TellsOne ==
  ASSUME mode = "Debug", report \in Seq(Reports), dropped \in Nat, NEW a \in Reports, Tell(<<a>>)
  PROVE  \/ report' = Append(report, a) /\ dropped' = dropped
         \/ report' = report /\ dropped' = dropped + 1
  <1>1. PICK rep \in Seq(Reports), lost \in Nat : rep = report /\ lost = dropped
    OBVIOUS
  <1>2. PICK taken \in SUBSET {1} :
          report' = rep \o Those(<<a>>, taken) /\ dropped' = lost + 1 - Cardinality(taken)
    <2>1. DOMAIN <<a>> = {1} /\ Len(<<a>>) = 1
      OBVIOUS
    <2> QED BY <1>1, <2>1 DEF Tell
  <1>3. Those(<<a>>, taken) = IF 1 \in taken THEN <<a>> ELSE <<>>
    <2>1. a \in Reports
      OBVIOUS
    <2>2. /\ Those(<<a>>, taken) = IF 1 \in taken THEN <<a>> ELSE <<>>
          /\ Those(<<a, a>>, taken) = IF 1 \in taken THEN IF 2 \in taken THEN <<a, a>> ELSE <<a>>
                                      ELSE IF 2 \in taken THEN <<a>> ELSE <<>>
      BY <2>1, ThoseOfShort
    <2> QED BY <2>2
  <1>4. rep \o <<>> = rep /\ rep \o <<a>> = Append(rep, a)
    BY OneOrTwoMore
  <1>5. taken = {} \/ taken = {1}
    OBVIOUS
  <1>6. Cardinality({}) = 0 /\ Cardinality({1}) = 1
    BY FS_EmptySet, FS_Singleton
  <1>7. CASE taken = {}
    <2>1. report' = rep
      BY <1>2, <1>3, <1>4, <1>7
    <2>2. Cardinality(taken) = 0
      BY <1>6, <1>7
    <2>3. dropped' = lost + 1
      BY <1>2, <2>2
    <2> QED BY <1>1, <2>1, <2>3
  <1>8. CASE taken = {1}
    <2>1. report' = Append(rep, a)
      BY <1>2, <1>3, <1>4, <1>8
    <2>2. Cardinality(taken) = 1
      BY <1>6, <1>8
    <2>3. dropped' = lost
      BY <1>2, <2>2
    <2> QED BY <1>1, <2>1, <2>3
  <1> QED BY <1>5, <1>7, <1>8

\* Two.
LEMMA TellsTwo ==
  ASSUME mode = "Debug", report \in Seq(Reports), dropped \in Nat,
         NEW a \in Reports, NEW b \in Reports, Tell(<<a, b>>)
  PROVE  \E r, lost :
           /\ \/ r = Append(report, a) /\ lost = dropped
              \/ r = report /\ lost = dropped + 1
           /\ \/ report' = Append(r, b) /\ dropped' = lost
              \/ report' = r /\ dropped' = lost + 1
  <1>1. PICK rep \in Seq(Reports), lost \in Nat : rep = report /\ lost = dropped
    OBVIOUS
  <1>2. PICK taken \in SUBSET {1, 2} :
          report' = rep \o Those(<<a, b>>, taken) /\ dropped' = lost + 2 - Cardinality(taken)
    <2>1. DOMAIN <<a, b>> = {1, 2} /\ Len(<<a, b>>) = 2
      OBVIOUS
    <2> QED BY <1>1, <2>1 DEF Tell
  <1>3. Those(<<a, b>>, taken) = IF 1 \in taken THEN IF 2 \in taken THEN <<a, b>> ELSE <<a>>
                                 ELSE IF 2 \in taken THEN <<b>> ELSE <<>>
    BY ThoseOfShort
  <1>4. /\ rep \o <<>> = rep /\ rep \o <<a>> = Append(rep, a)
        /\ rep \o <<b>> = Append(rep, b) /\ rep \o <<a, b>> = Append(Append(rep, a), b)
    BY OneOrTwoMore
  <1>5. taken = {} \/ taken = {1} \/ taken = {2} \/ taken = {1, 2}
    OBVIOUS
  <1>6. Cardinality({}) = 0 /\ Cardinality({1}) = 1 /\ Cardinality({2}) = 1 /\ Cardinality({1, 2}) = 2
    <2>1. Cardinality({}) = 0 /\ Cardinality({1}) = 1 /\ Cardinality({2}) = 1
          /\ IsFiniteSet({1})
      BY FS_EmptySet, FS_Singleton
    <2>2. PICK one : one = {1} /\ IsFiniteSet(one) /\ Cardinality(one) = 1 /\ 2 \notin one
      BY <2>1
    <2>3. Cardinality(one \cup {2}) = Cardinality(one) + 1
      BY <2>2, FS_AddElement
    <2>4. one \cup {2} = {1, 2}
      BY <2>2
    <2>5. Cardinality({1, 2}) = Cardinality(one) + 1
      BY <2>3, <2>4, Zenon
    <2>6. Cardinality({1, 2}) = 2
      BY <2>2, <2>5
    <2> QED BY <2>1, <2>6
  <1>7. CASE taken = {}
    <2>1. report' = rep
      BY <1>2, <1>3, <1>4, <1>7
    <2>2. Cardinality(taken) = 0
      BY <1>6, <1>7
    <2>3. dropped' = lost + 1 + 1
      BY <1>2, <2>2
    <2> QED BY <1>1, <2>1, <2>3
  <1>8. CASE taken = {1}
    <2>1. report' = Append(rep, a)
      <3>1. 1 \in taken /\ 2 \notin taken
        BY <1>8
      <3> QED BY <1>2, <1>3, <1>4, <3>1, Zenon
    <2>2. Cardinality(taken) = 1
      BY <1>6, <1>8
    <2>3. dropped' = lost + 1
      BY <1>2, <2>2
    <2> QED BY <1>1, <2>1, <2>3
  <1>9. CASE taken = {2}
    <2>1. report' = Append(rep, b)
      <3>1. 2 \in taken /\ 1 \notin taken
        BY <1>9
      <3> QED BY <1>2, <1>3, <1>4, <3>1, Zenon
    <2>2. Cardinality(taken) = 1
      BY <1>6, <1>9
    <2>3. dropped' = lost + 1
      BY <1>2, <2>2
    <2> QED BY <1>1, <2>1, <2>3
  <1>10. CASE taken = {1, 2}
    <2>1. report' = Append(Append(rep, a), b)
      BY <1>2, <1>3, <1>4, <1>10
    <2>2. Cardinality(taken) = 2
      BY <1>6, <1>10
    <2>3. dropped' = lost
      BY <1>2, <2>2
    <2> QED BY <1>1, <2>1, <2>3
  <1> QED BY <1>5, <1>7, <1>8, <1>9, <1>10

\* The debugger has received the log of a run that has lost none of it.
Reported ==
  mode = "Debug" =>
    /\ report \in Seq(Reports) /\ dropped \in Nat
    /\ cut = {} => Received(report, log, dropped)

\* What a step records: nothing, an event, or two of them.
RecordsSome ==
  \/ Record(<<>>)
  \/ \E a \in Events : Record(<<a>>)
  \/ \E a, b \in Events : Record(<<a, b>>)

\* Whatever it records, the debugger is told of.
LEMMA RecordingReports ==
  ASSUME Kept, Reported, RecordsSome, UNCHANGED <<mode, cut>>
  PROVE  Reported'
  <1>1. CASE mode # "Debug"
    BY <1>1 DEF Reported
  <1>2. CASE mode = "Debug"
    <2>1. PICK l \in Seq(Events), rep \in Seq(Reports), lost \in Nat :
            /\ l = log /\ rep = report /\ lost = dropped
            /\ cut = {} => Received(rep, l, lost)
      BY <1>2 DEF Reported, Kept, Logs
    <2>2. ASSUME NEW r, NEW p, NEW d, report' = r, log' = p, dropped' = d,
                 r \in Seq(Reports), d \in Nat, cut = {} => Received(r, p, d)
          PROVE  Reported'
      BY <2>2 DEF Reported
    <2>3. CASE Record(<<>>)
      <3>1. log' = l
        BY <2>1, <2>3 DEF Record
      <3>2. PICK taken \in SUBSET DOMAIN <<>> :
              report' = rep \o Those(<<>>, taken) /\ dropped' = lost + Len(<<>>) - Cardinality(taken)
        BY <1>2, <2>1, <2>3 DEF Record, Tell
      <3>3. taken = {} /\ Cardinality(taken) = 0 /\ Len(<<>>) = 0
        <4>1. DOMAIN <<>> = {} /\ Len(<<>>) = 0
          OBVIOUS
        <4>2. taken = {}
          BY <3>2, <4>1
        <4> QED BY <4>1, <4>2, FS_EmptySet
      <3>4. Those(<<>>, taken) = <<>>
        BY ThoseOfNone
      <3>5. report' = rep
        BY <3>2, <3>4
      <3>6. dropped' = lost
        BY <3>2, <3>3
      <3> QED BY <2>1, <2>2, <3>1, <3>5, <3>6
    <2>4. ASSUME NEW a \in Events, Record(<<a>>)
          PROVE  Reported'
      <3>1. log' = Append(l, a)
        <4>1. l \o <<a>> = Append(l, a)
          BY OneOrTwoMore
        <4> QED BY <2>1, <2>4, <4>1 DEF Record
      <3>2. \/ report' = Append(rep, a) /\ dropped' = lost
            \/ report' = rep /\ dropped' = lost + 1
        <4>1. a \in Reports
          BY DEF Reports
        <4>2. Tell(<<a>>)
          BY <2>4 DEF Record
        <4>3. \/ report' = Append(report, a) /\ dropped' = dropped
              \/ report' = report /\ dropped' = dropped + 1
          BY <1>2, <2>1, <4>1, <4>2, TellsOne
        <4> QED BY <2>1, <4>3
      <3>3. /\ Append(rep, a) \in Seq(Reports) /\ lost + 1 \in Nat
            /\ cut = {} => /\ Received(Append(rep, a), Append(l, a), lost)
                           /\ Received(rep, Append(l, a), lost + 1)
        <4>1. a \in Reports
          BY DEF Reports
        <4> QED BY <2>1, <4>1, ReceivesEvent, Grown
      <3> QED BY <2>2, <3>1, <3>2, <3>3
    <2>5. ASSUME NEW a \in Events, NEW b \in Events, Record(<<a, b>>)
          PROVE  Reported'
      <3>1. log' = Append(Append(l, a), b)
        <4>1. l \o <<a, b>> = Append(Append(l, a), b)
          BY OneOrTwoMore
        <4> QED BY <2>1, <2>5, <4>1 DEF Record
      <3>2. PICK r, d :
              /\ \/ r = Append(rep, a) /\ d = lost
                 \/ r = rep /\ d = lost + 1
              /\ \/ report' = Append(r, b) /\ dropped' = d
                 \/ report' = r /\ dropped' = d + 1
        <4>1. a \in Reports /\ b \in Reports
          BY DEF Reports
        <4>2. Tell(<<a, b>>)
          BY <2>5 DEF Record
        <4>3. \E r, d :
                /\ \/ r = Append(report, a) /\ d = dropped
                   \/ r = report /\ d = dropped + 1
                /\ \/ report' = Append(r, b) /\ dropped' = d
                   \/ report' = r /\ dropped' = d + 1
          BY <1>2, <2>1, <2>5, <4>1, <4>2, TellsTwo
        <4> QED BY <2>1, <4>3
      <3>3. /\ r \in Seq(Reports) /\ d \in Nat
            /\ cut = {} => Received(r, Append(l, a), d)
        <4>1. a \in Reports
          BY DEF Reports
        <4>2. /\ Append(rep, a) \in Seq(Reports) /\ lost + 1 \in Nat
              /\ cut = {} => /\ Received(Append(rep, a), Append(l, a), lost)
                             /\ Received(rep, Append(l, a), lost + 1)
          BY <2>1, <4>1, ReceivesEvent, Grown
        <4> QED BY <3>2, <4>2
      <3>4. PICK q \in Seq(Events) : q = Append(l, a)
        <4>1. Append(l, a) \in Seq(Events)
          BY Grown
        <4> QED BY <4>1
      <3>5. /\ Append(r, b) \in Seq(Reports) /\ d + 1 \in Nat
            /\ cut = {} => /\ Received(Append(r, b), Append(q, b), d)
                           /\ Received(r, Append(q, b), d + 1)
        <4>1. b \in Reports /\ r \in Seq(Reports) /\ d \in Nat
          BY <3>3 DEF Reports
        <4>2. cut = {} => Received(r, q, d)
          BY <3>3, <3>4
        <4> QED BY <4>1, <4>2, ReceivesEvent, Grown
      <3> QED BY <2>2, <3>1, <3>2, <3>3, <3>4, <3>5
    <2> QED BY <2>3, <2>4, <2>5, Zenon DEF RecordsSome
  <1> QED BY <1>1, <1>2

\* The messages about the run itself are none of its log's.
LEMMA TellingReports ==
  ASSUME Kept, Reported, NEW type \in {"start", "end"}, Tell(<<Event(type, 0)>>),
         UNCHANGED <<mode, cut, log>>
  PROVE  Reported'
  <1>1. CASE mode # "Debug"
    BY <1>1 DEF Reported
  <1>2. CASE mode = "Debug"
    <2>1. PICK l \in Seq(Events), rep \in Seq(Reports), lost \in Nat :
            /\ l = log /\ rep = report /\ lost = dropped
            /\ cut = {} => Received(rep, l, lost)
      BY <1>2 DEF Reported, Kept, Logs
    <2>2. PICK e \in Reports : e = Event(type, 0) /\ e \notin Events
      <3>1. Event(type, 0) \in Reports /\ Event(type, 0) \notin Events
        BY DEF Event, Reports, Events
      <3> QED BY <3>1
    <2>3. \/ report' = Append(rep, e) /\ dropped' = lost
          \/ report' = rep /\ dropped' = lost + 1
      <3>1. \/ report' = Append(report, e) /\ dropped' = dropped
            \/ report' = report /\ dropped' = dropped + 1
        BY <1>2, <2>1, <2>2, TellsOne
      <3> QED BY <2>1, <3>1
    <2>4. /\ Append(rep, e) \in Seq(Reports) /\ lost + 1 \in Nat
          /\ cut = {} => Received(Append(rep, e), l, lost) /\ Received(rep, l, lost + 1)
      BY <2>1, <2>2, ReceivesOther, Grown
    <2>5. mode' = mode /\ cut' = cut /\ log' = l
      BY <2>1
    <2> QED BY <2>1, <2>3, <2>4, <2>5 DEF Reported
  <1> QED BY <1>1, <1>2

\* What one event or two make of the log.
LEMMA VerboseSome ==
  ASSUME NEW a \in Events, NEW b \in Events, NEW loops
  PROVE  /\ Record(Verbose(<<a>>, loops)) => RecordsSome
         /\ Record(Verbose(<<a, b>>, loops)) => RecordsSome
  BY DEF Verbose, RecordsSome

\* Every step tells the debugger what it records, or records nothing.
LEMMA ReportedStep ==
  ASSUME Kept, Reported, [Next]_vars
  PROVE  Reported'
  <1>1. at \in Nat /\ begun \in Nat /\ Top.step \in Nat
    BY Innermost DEF Kept, Flow
  <1>2. \A type \in {"started", "finished", "error", "noted", "enter", "leave"} : \A step \in Nat :
          /\ Event(type, step) \in Events /\ Event(type, step).type = type
    BY DEF Event, Events, Steps
  <1>3. \A type \in {"started", "finished", "error", "noted", "enter", "leave"} : \A step \in Nat :
          Note(type, step) => RecordsSome
    <2> TAKE type \in {"started", "finished", "error", "noted", "enter", "leave"}
    <2> TAKE step \in Nat
    <2>1. PICK a \in Events : a = Event(type, step)
      BY <1>2
    <2>2. Note(type, step) => Record(<<a>>) \/ Record(<<>>)
      BY <2>1 DEF Note, Verbose
    <2> QED BY <2>2 DEF RecordsSome
  <1>4. CASE Refuse \/ EndSteps \/ Pass \/ Jump \/ NextElement \/ LeaveBlock \/ EnterLoop \/ EndLoop
             \/ FailLoop \/ AgainLoop \/ BreakLoop \/ AbortLoop \/ EnterTry \/ LeaveTry \/ EnterInner
             \/ UNCHANGED vars
    <2>1. UNCHANGED <<mode, cut, log, report, dropped>>
      BY <1>4 DEF Refuse, EndSteps, Pass, Jump, NextElement, LeaveBlock, EnterLoop, EndLoop,
                  FailLoop, AgainLoop, BreakLoop, AbortLoop, EnterTry, LeaveTry, EnterInner,
                  vars, running, logs
    <2> QED BY <2>1 DEF Reported
  <1>5. CASE Start \/ Finish
    BY <1>5, TellingReports DEF Start, Finish
  <1>6. CASE Fail \/ Branch \/ DropElement
    <2>1. RecordsSome \/ UNCHANGED logs
      BY <1>1, <1>3, <1>6 DEF Fail, Branch, DropElement, MayNote
    <2>2. UNCHANGED <<mode, cut>>
      BY <1>6 DEF Fail, Branch, DropElement, running
    <2>3. CASE RecordsSome
      BY <2>2, <2>3, RecordingReports
    <2>4. CASE UNCHANGED logs
      BY <2>2, <2>4 DEF Reported, logs
    <2> QED BY <2>1, <2>3, <2>4
  <1>7. CASE BeginStep \/ Store \/ Catch \/ EnterCall
    <2>1. RecordsSome
      <3>1. begun + 1 \in Nat
        BY <1>1
      <3> QED BY <1>1, <1>3, <1>7, <3>1 DEF BeginStep, Store, Catch, EnterCall
    <2>2. UNCHANGED <<mode, cut>>
      BY <1>7 DEF BeginStep, Store, Catch, EnterCall, running, StoresInto
    <2> QED BY <2>1, <2>2, RecordingReports
  <1>8. CASE NextIteration
    <2>1. PICK counted : Iterate(counted)
      BY <1>8 DEF NextIteration
    <2>2. PICK a \in Events : a = Event("noted", Top.step)
      BY <1>1, <1>2
    <2>3. Record(<<a>>) \/ Record(<<>>) \/ UNCHANGED logs
      BY <2>1, <2>2 DEF Iterate, Verbose
    <2>4. UNCHANGED <<mode, cut>>
      BY <1>8, <2>1 DEF NextIteration, Iterate, running, StoresInto
    <2>5. CASE RecordsSome
      BY <2>4, <2>5, RecordingReports
    <2>6. CASE UNCHANGED logs
      BY <2>4, <2>6 DEF Reported, logs
    <2> QED BY <2>3, <2>5, <2>6 DEF RecordsSome
  <1>9. CASE FinishStep
    <2>1. PICK a, b \in Events : a = Event("error", at) /\ b = Event("finished", at)
      BY <1>1, <1>2
    <2>2. PICK s, t : /\ s \in {<<>>, <<a>>} /\ t \in {<<>>, <<b>>} /\ Record(s \o t)
      BY <1>9, <2>1 DEF FinishStep, Verbose
    <2>3. /\ <<>> \o <<>> = <<>> /\ <<>> \o <<b>> = <<b>>
          /\ <<a>> \o <<>> = <<a>> /\ <<a>> \o <<b>> = <<a, b>>
      <3>1. <<>> \o <<>> = <<>> /\ <<>> \o <<b>> = <<b>> /\ <<a>> \o <<>> = <<a>>
        OBVIOUS
      <3>2. <<a>> \o <<b>> = <<a, b>>
        <4>1. PICK none, u \in Seq(Events) : none = <<>> /\ u = <<a>>
          <5>1. <<>> \in Seq(Events) /\ <<a>> \in Seq(Events)
            OBVIOUS
          <5> QED BY <5>1
        <4>2. u \o <<b>> = Append(u, b) /\ none \o <<a, b>> = Append(Append(none, a), b)
          BY OneOrTwoMore
        <4>3. Append(none, a) = u /\ none \o <<a, b>> = <<a, b>>
          BY <4>1
        <4> QED BY <4>1, <4>2, <4>3
      <3> QED BY <3>1, <3>2
    <2>4. RecordsSome
      <3>1. Record(<<>>) \/ Record(<<a>>) \/ Record(<<b>>) \/ Record(<<a, b>>)
        BY <2>2, <2>3
      <3> QED BY <2>1, <3>1, Zenon DEF RecordsSome
    <2>5. UNCHANGED <<mode, cut>>
      BY <1>9 DEF FinishStep, running
    <2> QED BY <2>4, <2>5, RecordingReports
  <1>10. CASE LeaveCall \/ AbortCall
    <2>1. PICK a, b \in Events : a = Left /\ b = Event("noted", Top.step)
      BY <1>1, <1>2 DEF Left
    <2>2. PICK loops : Record(Verbose(<<a>>, loops)) \/ Record(Verbose(<<a, b>>, loops))
      BY <1>10, <2>1 DEF LeaveCall, AbortCall, Join
    <2>3. RecordsSome
      BY <2>1, <2>2, VerboseSome
    <2>4. UNCHANGED <<mode, cut>>
      BY <1>10 DEF LeaveCall, AbortCall, running, StoresInto
    <2> QED BY <2>3, <2>4, RecordingReports
  <1>11. CASE AbortInner
    <2>1. UNCHANGED <<mode, report, dropped>> /\ cut' # {}
      BY <1>11 DEF AbortInner, running
    <2> QED BY <2>1 DEF Reported
  <1> QED BY <1>4, <1>5, <1>6, <1>7, <1>8, <1>9, <1>10, <1>11 DEF Next

\* Nothing is logged, and nothing told.
LEMMA InitReported ==
  ASSUME Init
  PROVE  Reported
  <1>1. PICK none \in Seq(Events) : none = <<>>
    <2>1. <<>> \in Seq(Events)
      OBVIOUS
    <2> QED BY <2>1
  <1>2. none \in Seq(Reports)
    BY <1>1
  <1>3. \A places : Those(none, places) = none
    BY <1>1, ThoseOfNone
  <1>4. PICK lost : lost = [i \in 1..0 |-> 0]
    OBVIOUS
  <1>5. Received(none, none, 0)
    <2>1. lost \in [1..0 -> 0..Len(none)]
      BY <1>4
    <2>2. EventsOf(none) = Those(none, DOMAIN none \ {lost[i] : i \in 1..0})
      BY <1>3, Zenon DEF EventsOf
    <2> QED BY <2>1, <2>2 DEF Received
  <1>6. report = none /\ log = none /\ dropped = 0
    BY <1>1 DEF Init
  <1> QED BY <1>2, <1>5, <1>6 DEF Reported

\* Whatever way steps, calls and decorators are left, the events of a log nest and
\* the debugger has received it, in order, but for what it did not take in time
\* (ExecutionContext::report_events, handle_logging_error).
THEOREM LogsAreWhole == Spec => []LogIsWhole
  <1>1. Reported => ReportIsLog
    BY Zenon DEF Reported, ReportIsLog, Received, EventsOf, Told
  <1>2. Init => Reported
    BY InitReported
  <1>3. Kept /\ Reported /\ [Next]_vars => Reported'
    BY ReportedStep
  <1>4. EventsNest /\ ReportIsLog => LogIsWhole
    BY DEF LogIsWhole
  <1> QED BY <1>1, <1>2, <1>3, <1>4, KeptInvariant, EventsAreNested, PTL DEF Spec
====
