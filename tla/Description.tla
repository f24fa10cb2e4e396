---------------------------- MODULE Description ----------------------------
(***************************************************************************)
(* Descriptions of values (src/tel/src/description.rs), by which the       *)
(* editor's analysis predicts what expressions yield and what storages     *)
(* hold, and by which a Parse step judges values at run time.              *)
(*                                                                         *)
(* A description is a record whose fields name its kind.  The name of a    *)
(* base type, as in "string.uuid", is split at its dot.                    *)
(* Where the arms of a CASE overlap, the first one that applies is meant,  *)
(* as in the matches of the code; TLC takes them in that order.            *)
(***************************************************************************)
EXTENDS Tel
LOCAL INSTANCE SequencesExt

CONSTANTS
    ExactItems,     \* an array with more items is described by one item type
    UnionItems      \* an item type of more descriptions is reduced to base types

DNull == [dNull |-> TRUE]
DString(s) == [dString |-> s]
DNumber(n) == [dNumber |-> n]
DBoolean(b) == [dBoolean |-> b]
DObject(fields) == [dObject |-> fields]
DExact(items) == [dExact |-> items]
DArray(item, length) == [dArray |-> item, length |-> length]
DBase(base, sub) == [dBase |-> base, sub |-> sub]
DUnion(of) == [dUnion |-> of]
DError(kind) == [dError |-> kind]
DAny == [dAny |-> TRUE]

Base(type) == DBase(type, "")
AnyLength == 0 - 1

Is(d, kind) == kind \in DOMAIN d

\* A panic of the analysis, shown as an error.
Unreachable == DError("unreachable")

-----------------------------------------------------------------------------
(* Unions. *)

AddToUnion(of, d) == IF \E i \in DOMAIN of : of[i] = d THEN of ELSE Append(of, d)

RECURSIVE AddAll(_, _)
AddAll(of, more) ==
    IF more = <<>> THEN of ELSE AddAll(AddToUnion(of, Head(more)), Tail(more))

Merge(a, b) ==
    CASE Is(a, "dUnion") /\ Is(b, "dUnion") -> DUnion(AddAll(b.dUnion, a.dUnion))
      [] Is(a, "dUnion") -> DUnion(AddToUnion(a.dUnion, b))
      [] Is(b, "dUnion") -> DUnion(AddToUnion(b.dUnion, a))
      [] a = b -> a
      [] OTHER -> DUnion(<<a, b>>)

RECURSIVE Reduce(_, _)
Reduce(d, rest) == IF rest = <<>> THEN d ELSE Reduce(Merge(d, Head(rest)), Tail(rest))

NewUnion(ds) == IF ds = <<>> THEN DAny ELSE Reduce(Head(ds), Tail(ds))

\* Mutant: what a slice yields is not made optional.
Present(d) == d

Optional(d) == IF d = DNull THEN d ELSE NewUnion(<<d, DNull>>)

\* Applies F to each member of a union, but not to the members of its members.
Members(d) == IF Is(d, "dUnion") THEN d.dUnion ELSE <<d>>

Map(d, F(_)) ==
    IF Is(d, "dError") THEN d ELSE NewUnion([i \in DOMAIN Members(d) |-> F(Members(d)[i])])

-----------------------------------------------------------------------------
(* Describing a value, exactly up to a size. *)

RECURSIVE ToBase(_)
ToBase(d) ==
    CASE Is(d, "dString") ->
            DBase("string", IF d.dString \in Digits THEN "number"
                            ELSE IF d.dString \in {"true", "false"} THEN "boolean"
                            ELSE "alphanumeric")
      [] Is(d, "dBoolean") -> Base("boolean")
      [] Is(d, "dNumber") -> DBase("number", "integer")
      [] Is(d, "dObject") -> DObject([k \in DOMAIN d.dObject |-> ToBase(d.dObject[k])])
      [] Is(d, "dExact") ->
            LET items == d.dExact
                RECURSIVE Unified(_)
                Unified(n) == IF n = 1 THEN items[1]
                              ELSE Merge(ToBase(Unified(n - 1)), ToBase(items[n]))
            IN IF items = <<>> THEN DBase("array", "empty")
               ELSE DArray(Unified(Len(items)), Len(items))
      [] OTHER -> d

RECURSIVE Describe(_)
Describe(v) ==
    CASE TypeOf(v) = "string" -> DString(v.string)
      [] TypeOf(v) = "number" -> DNumber(v.number)
      [] TypeOf(v) = "boolean" -> DBoolean(v.boolean)
      [] TypeOf(v) = "null" -> DNull
      [] TypeOf(v) = "object" -> DObject([k \in DOMAIN v.object |-> Describe(v.object[k])])
      [] TypeOf(v) = "array" ->
            LET items == [i \in DOMAIN v.array |-> Describe(v.array[i])]
                gathered == Reduce(DUnion(<<>>), items)
                based == [i \in DOMAIN gathered.dUnion |-> ToBase(gathered.dUnion[i])]
            IN IF Len(items) <= ExactItems THEN DExact(items)
               ELSE DArray(IF Len(gathered.dUnion) > UnionItems
                           THEN Reduce(DUnion(<<>>), based) ELSE gathered,
                           Len(items))

-----------------------------------------------------------------------------
(* What a description means: the values it is a description of.  This is   *)
(* the reference the analysis is held against, not code.                    *)

RECURSIVE Describes(_, _)
Describes(d, v) ==
    CASE Is(d, "dAny") \/ d = Base("any") -> TRUE
      [] Is(d, "dError") -> FALSE
      [] Is(d, "dUnion") -> \E i \in DOMAIN d.dUnion : Describes(d.dUnion[i], v)
      [] Is(d, "dNull") -> v = Null
      [] Is(d, "dString") -> v = String(d.dString)
      [] Is(d, "dNumber") -> v = Number(d.dNumber)
      [] Is(d, "dBoolean") -> v = Boolean(d.dBoolean)
      [] Is(d, "dBase") -> TypeOf(v) = d.dBase
      [] Is(d, "dObject") ->
            /\ TypeOf(v) = "object"
            /\ \A k \in DOMAIN d.dObject : Describes(d.dObject[k], Lookup(v.object, k))
      [] Is(d, "dExact") ->
            /\ TypeOf(v) = "array" /\ Len(v.array) = Len(d.dExact)
            /\ \A i \in DOMAIN d.dExact : Describes(d.dExact[i], v.array[i])
      [] Is(d, "dArray") ->
            /\ TypeOf(v) = "array" /\ d.length \in {AnyLength, Len(v.array)}
            /\ \A i \in DOMAIN v.array : Describes(d.dArray, v.array[i])

-----------------------------------------------------------------------------
(* Compatibility, by which the analysis judges parameters and results, and *)
(* parsing, by which the executor judges values.                            *)

LiteralBase(d) ==
    CASE Is(d, "dNull") -> "null"
      [] Is(d, "dString") -> "string"
      [] Is(d, "dNumber") -> "number"
      [] Is(d, "dBoolean") -> "boolean"
      [] Is(d, "dObject") -> "object"
      [] Is(d, "dExact") \/ Is(d, "dArray") -> "array"

\* An exact array that is longer than the other one makes the code panic.
RECURSIVE IsCompatible(_, _)
IsCompatible(a, b) ==
    CASE a = b \/ Is(b, "dAny") \/ b = Base("any") -> TRUE
      [] Is(a, "dError") \/ Is(b, "dError") -> FALSE
      [] Is(a, "dAny") -> TRUE
      [] Is(a, "dUnion") -> \A i \in DOMAIN a.dUnion : IsCompatible(a.dUnion[i], b)
      [] Is(a, "dBase") -> Is(b, "dBase") /\ a.dBase = b.dBase
      [] Is(b, "dBase") -> LiteralBase(a) = b.dBase
      [] Is(b, "dUnion") -> \E i \in DOMAIN b.dUnion : IsCompatible(a, b.dUnion[i])
      [] Is(a, "dObject") /\ Is(b, "dObject") ->
            \A k \in DOMAIN b.dObject :
                IsCompatible(IF k \in DOMAIN a.dObject THEN a.dObject[k] ELSE DNull, b.dObject[k])
      [] Is(a, "dExact") /\ Is(b, "dExact") ->
            \A i \in DOMAIN a.dExact : i \in DOMAIN b.dExact /\ IsCompatible(a.dExact[i], b.dExact[i])
      [] Is(a, "dExact") /\ Is(b, "dArray") ->
            /\ b.length \in {AnyLength, Len(a.dExact)}
            /\ \A i \in DOMAIN a.dExact : IsCompatible(a.dExact[i], b.dArray)
      [] Is(a, "dArray") /\ Is(b, "dArray") -> IsCompatible(a.dArray, b.dArray)
      [] Is(a, "dArray") /\ Is(b, "dExact") ->
            \A i \in DOMAIN b.dExact : IsCompatible(b.dExact[i], a.dArray)
      [] OTHER -> FALSE

Mismatch == Error("DescriptionParseError")

\* An object loses the keys it is not asked for; of a union, the last member
\* that fits decides.
RECURSIVE Parse(_, _)
Parse(v, d) ==
    CASE Is(d, "dAny") -> v
      [] Is(d, "dUnion") ->
            LET fits == {i \in DOMAIN d.dUnion : ~Failed(Parse(v, d.dUnion[i]))}
                last == CHOOSE i \in fits : \A j \in fits : j <= i
            IN IF fits = {} THEN Mismatch ELSE Parse(v, d.dUnion[last])
      [] Is(d, "dBase") ->
            IF TypeOf(v) = d.dBase /\ d.dBase # "null" THEN v ELSE Mismatch
      [] LiteralBase(d) # TypeOf(v) -> Mismatch
      [] Is(d, "dObject") ->
            Gather([k \in DOMAIN d.dObject |-> Parse(Lookup(v.object, k), d.dObject[k])], Object)
      [] Is(d, "dExact") ->
            IF Len(v.array) # Len(d.dExact) THEN Mismatch
            ELSE Gather([i \in DOMAIN d.dExact |-> Parse(v.array[i], d.dExact[i])], Array)
      [] Is(d, "dArray") ->
            IF d.length \notin {AnyLength, Len(v.array)} THEN Mismatch
            ELSE Gather([i \in DOMAIN v.array |-> Parse(v.array[i], d.dArray)], Array)
      [] OTHER -> IF Describe(v) = d THEN v ELSE Mismatch

-----------------------------------------------------------------------------
(* Conversions of descriptions. *)

Types == {"string", "number", "boolean", "object", "array", "null", "any"}

\* The name under which operators and methods are listed; a base type with a
\* suffix and a union have none that is listed.
Key(d) ==
    CASE Is(d, "dAny") -> "any"
      [] Is(d, "dBase") -> IF d.sub = "" THEN d.dBase ELSE "listed nowhere"
      [] Is(d, "dUnion") \/ Is(d, "dError") -> "listed nowhere"
      [] OTHER -> LiteralBase(d)

\* An index, an error, or no more than that it could be one.
Undecided == [undecided |-> TRUE]
IndexOf(d) ==
    CASE Is(d, "dNumber") \/ Is(d, "dString") ->
            AsIndex(IF Is(d, "dNumber") THEN Number(d.dNumber) ELSE String(d.dString))
      [] d \in {Base("string"), Base("number")} \/ Is(d, "dUnion") \/ Is(d, "dAny") -> Undecided
      [] OTHER -> Error("InvalidIndex")

\* The key a description stands for, if it stands for one.
TextOf(d) ==
    CASE Is(d, "dNull") -> String("null")
      [] Is(d, "dString") -> String(d.dString)
      [] Is(d, "dNumber") -> AsText(Number(d.dNumber))
      [] Is(d, "dBoolean") -> AsText(Boolean(d.dBoolean))
      [] OTHER -> Undecided

RECURSIVE DToBoolean(_)
DToBoolean(d) ==
    CASE Is(d, "dNull") -> DBoolean(FALSE)
      [] Is(d, "dString") -> DBoolean(d.dString # "")
      [] Is(d, "dNumber") -> DBoolean(d.dNumber # 0)
      [] Is(d, "dBoolean") \/ Is(d, "dError") \/ Is(d, "dAny") -> d
      [] Is(d, "dUnion") -> NewUnion([i \in DOMAIN d.dUnion |-> DToBoolean(d.dUnion[i])])
      [] Is(d, "dBase") ->
            (CASE d.dBase \in {"string", "number", "boolean"} -> Base("boolean")
               [] d.dBase \in {"object", "array"} -> DBoolean(TRUE)
               [] OTHER -> DAny)
      [] OTHER -> DBoolean(TRUE)

\* What an iteration finds in a value.
GetPart(d) ==
    CASE Is(d, "dArray") -> d.dArray
      [] Is(d, "dExact") -> DUnion(d.dExact)
      [] Is(d, "dString") \/ (Is(d, "dBase") /\ d.dBase = "string") -> DBase("string", "char")
      [] d = DBase("array", "bytes") -> DBase("number", "bytes")
      [] OTHER -> DAny

-----------------------------------------------------------------------------
(* Prediction. *)

Unsupported == DError("UnsupportedOperation")

Either(a, b, types) == a \in types /\ b \in types /\ ~(a = "any" /\ b = "any")

PredictSum(a, b) ==
    CASE "string" \in {a, b} /\ {a, b} \subseteq Summable \cup {"string", "any"} -> Base("string")
      [] Either(a, b, {"array", "any"}) -> Base("array")
      [] Either(a, b, {"object", "any"}) -> Base("object")
      [] Either(a, b, {"number", "any"}) -> Base("number")
      [] OTHER -> Unsupported

PredictBinary(op, a, b) ==
    CASE op = "+" -> PredictSum(a, b)
      [] op \in {"-", "*", "/"} /\ Either(a, b, {"number", "any"}) -> Base("number")
      [] op \in Comparisons /\ {a, b} \subseteq Types -> Base("boolean")
      [] op = "&&" /\ {a, b} \subseteq Types -> Base(b)
      [] op = "||" /\ {a, b} \subseteq Types ->
            NewUnion(IF a = "null" THEN <<Base(b)>> ELSE <<Base(a), Base(b)>>)
      [] OTHER -> Unsupported

PredictUnary(op, a) ==
    CASE op \in {"+", "-"} /\ a \in {"number", "any"} -> Base("number")
      [] op = "!" /\ a \in {"boolean", "any"} -> Base("boolean")
      [] OTHER -> Unsupported

\* The list of methods has its own view of two decoders, and does not find
\* replaceExtension.
PredictMethod(a, m) ==
    CASE a \notin DOMAIN Methods \/ m = "replaceExtension" -> DNull
      [] m \notin DOMAIN Methods[a] -> DNull
      [] m = "type" -> DString(a)
      [] m \in {"fromHexString", "fromBase64String"} -> Base("string")
      [] OTHER -> Base(Methods[a][m])

\* Attributes are names, so none is an index.
PredictAttribute(d, a) ==
    CASE Is(d, "dObject") -> IF a \in DOMAIN d.dObject THEN d.dObject[a] ELSE DNull
      [] Is(d, "dString") /\ a = "length" -> DNumber(Len(d.dString))
      [] Is(d, "dNumber") /\ a = "isInteger" -> DBoolean(TRUE)
      [] Is(d, "dAny") -> DAny
      [] OTHER -> DNull

\* At an index known, undecided, or wrong.
AtIndex(index, At(_)) ==
    CASE index = Undecided -> DAny
      [] Failed(index) -> DError(index.error)
      [] OTHER -> At(index.number)

PredictSlice(d, index) ==
    CASE Is(d, "dUnion") \/ Is(d, "dError") -> Unreachable
      [] Is(d, "dString") -> AtIndex(IndexOf(index), LAMBDA n : Describe(CharAt(d.dString, n)))
      [] Is(d, "dExact") ->
            AtIndex(IndexOf(index), LAMBDA n : IF n < Len(d.dExact) THEN d.dExact[n + 1] ELSE DNull)
      [] Is(d, "dObject") ->
            LET key == TextOf(index)
            IN IF key = Undecided THEN DAny
               ELSE IF key.string \in DOMAIN d.dObject THEN d.dObject[key.string] ELSE DNull
      [] Is(d, "dArray") -> Optional(d.dArray)
      [] d = Base("string") -> Optional(d)
      [] d \in {Base("object"), Base("array"), DAny} -> DAny
      [] OTHER -> DError("InvalidIndex")

PredictIf(c, then, otherwise) ==
    CASE Is(c, "dBoolean") -> IF c.dBoolean THEN then ELSE otherwise
      [] c \in {DAny, Base("boolean")} -> DUnion(<<then, otherwise>>)
      [] OTHER -> Unsupported

RECURSIVE Predict(_, _)
Predict(e, storage) ==
    LET P(x) == Predict(x, storage)
    IN CASE e.is = "literal" -> Describe(e.literal)
         [] e.is = "name" -> IF e.name \in DOMAIN storage THEN storage[e.name] ELSE DNull
         [] e.is = "environment" -> Base("string")
         [] e.is = "list" -> DExact([i \in DOMAIN e.items |-> P(e.items[i])])
         [] e.is = "fields" -> DObject([k \in DOMAIN e.fields |-> P(e.fields[k])])
         [] e.is = "attribute" -> Map(P(e.of), LAMBDA d : PredictAttribute(d, e.attribute))
         [] e.is = "slice" ->
                LET index == P(e.index)
                IN Map(P(e.of), LAMBDA d : Map(index, LAMBDA i : PredictSlice(d, i)))
         [] e.is = "unary" -> Map(P(e.of), LAMBDA d : PredictUnary(e.op, Key(d)))
         [] e.is = "call" -> Map(P(e.of), LAMBDA d : PredictMethod(Key(d), e.method))
         [] e.is = "binary" ->
                LET l == P(e.left)
                IN Map(P(e.right), LAMBDA r : Map(l, LAMBDA d : PredictBinary(e.op, Key(d), Key(r))))
         [] e.is = "if" -> PredictIf(P(e.condition), P(e.then), P(e.otherwise))

-----------------------------------------------------------------------------
(* Where a selector may lead: a sequence of selectors, errors and unknowns. *)

UnknownSelector == [unknown |-> TRUE]
IsStatic(selector) == "parts" \in DOMAIN selector

RECURSIVE AsSlice(_)
AsSlice(d) ==
    CASE Is(d, "dNull") -> <<Parts(<<SlicePart(Null)>>)>>
      [] Is(d, "dString") -> <<Parts(<<SlicePart(String(d.dString))>>)>>
      [] Is(d, "dNumber") -> <<Parts(<<SlicePart(Number(d.dNumber))>>)>>
      [] Is(d, "dBoolean") -> <<Parts(<<SlicePart(Boolean(d.dBoolean))>>)>>
      [] Is(d, "dBase") \/ Is(d, "dAny") -> <<UnknownSelector>>
      [] Is(d, "dUnion") ->
            IF d.dUnion = <<>> THEN <<>>
            ELSE AsSlice(Head(d.dUnion)) \o AsSlice(DUnion(Tail(d.dUnion)))
      [] OTHER -> <<Error("InvalidSelector")>>

\* Each place before a slice, followed by each key the slice may stand for.
Combined(selectors, branches) ==
    LET statics == SelectSeq(selectors, IsStatic)
        Followed(branch) ==
            IF ~IsStatic(branch) THEN <<branch>>
            ELSE [i \in DOMAIN statics |-> Parts(statics[i].parts \o branch.parts)]
    IN FlattenSeq([i \in DOMAIN branches |-> Followed(branches[i])])

ExtendedAll(selectors, part) ==
    [i \in DOMAIN selectors |->
        IF IsStatic(selectors[i]) THEN Extended(selectors[i], part) ELSE selectors[i]]

SelectorsIf(c, then, otherwise) ==
    CASE Is(c, "dBoolean") -> IF c.dBoolean THEN then ELSE otherwise
      [] c \in {DAny, Base("boolean")} -> then \o otherwise
      [] OTHER -> <<Error("InvalidSelector")>>

RECURSIVE Selectors(_, _)
Selectors(e, storage) ==
    CASE e = Literal(Null) -> <<Parts(<<NowherePart>>)>>
      [] e.is = "name" -> <<Parts(<<NamePart(e.name)>>)>>
      [] e.is = "attribute" ->
            ExtendedAll(Selectors(e.of, storage), AttributePart(e.attribute))
      [] e.is = "slice" ->
            Combined(Selectors(e.of, storage), AsSlice(Predict(e.index, storage)))
      [] e.is = "if" ->
            SelectorsIf(Predict(e.condition, storage),
                        Selectors(e.then, storage), Selectors(e.otherwise, storage))
      [] OTHER -> <<Error("InvalidSelector")>>

DPlaceIn(d, part) ==
    CASE Is(d, "dObject") -> PlaceIn(Object(<<>>), part)
      [] "slice" \in DOMAIN part -> AsIndex(part.slice)
      [] OTHER -> Error("NoAttribute")

\* Whether a selector may go on through d, found at this place.  What lies in
\* an array of one item type must not be any, and the length of an array within
\* an array is compared with the index that leads to it.
Enters(container, place, d) ==
    CASE Is(d, "dObject") \/ Is(d, "dExact") -> TRUE
      [] Is(d, "dAny") -> ~Is(container, "dArray")
      [] Is(d, "dArray") ->
            Is(container, "dObject") \/ d.length = AnyLength \/ place.number < d.length
      [] OTHER -> FALSE

RECURSIVE StoreInDescription(_, _, _)
StoreInDescription(d, parts, v) ==
    LET place == DPlaceIn(d, parts[1])
        last == Len(parts) = 1
        old == CASE Is(d, "dObject") ->
                        IF place.string \in DOMAIN d.dObject THEN d.dObject[place.string] ELSE DNull
                 [] Is(d, "dExact") -> d.dExact[place.number + 1]
                 [] Is(d, "dArray") -> d.dArray
        new == StoreInDescription(old, Tail(parts), v)
    IN CASE "nowhere" \in DOMAIN parts[1] \/ Is(d, "dAny") -> d
         [] Is(d, "dArray") /\ last /\ "slice" \in DOMAIN parts[1] ->
                DArray(Merge(v, d.dArray), d.length)
         [] Failed(place) -> DError(place.error)
         [] Is(d, "dExact") /\ place.number >= Len(d.dExact) -> DError("IndexOutOfBounds")
         [] last /\ Is(d, "dObject") -> DObject(With(d.dObject, place.string, v))
         [] last /\ Is(d, "dExact") -> DExact([d.dExact EXCEPT ![place.number + 1] = v])
         [] ~Enters(d, place, old) -> DError("InvalidSelector")
         [] Is(new, "dError") -> new
         [] Is(d, "dObject") -> DObject(With(d.dObject, place.string, new))
         [] Is(d, "dExact") -> DExact([d.dExact EXCEPT ![place.number + 1] = new])
         [] Is(d, "dArray") -> DArray(new, d.length)

StoreDescription(storage, selector, v) ==
    StoreInDescription(DObject(storage), selector.parts, v)
=============================================================================
