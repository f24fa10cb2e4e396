------------------------------- MODULE Tel -------------------------------
(***************************************************************************)
(* The expression language of the handlers (src/tel): values, expressions, *)
(* their evaluation, and the selectors through which a step writes to the  *)
(* storage.  Everything here is a function; the module has no state.       *)
(*                                                                         *)
(* A value is a record with one field, named for its type.  Text is a      *)
(* TLA+ string; TLC takes its length, parts and concatenation.  Spans,     *)
(* wording of errors and parsing are left out; numbers are integers, and   *)
(* what a quotient, a remainder or a library method yields is one sample   *)
(* of the type it has.                                                     *)
(* Where the arms of a CASE overlap, the first one that applies is meant,  *)
(* as in the matches of the code; TLC takes them in that order.            *)
(***************************************************************************)
EXTENDS Integers, Sequences, TLC

CONSTANT Environment    \* the variables of the worker, by name

Null == [null |-> TRUE]
Boolean(b) == [boolean |-> b]
Number(n) == [number |-> n]
String(s) == [string |-> s]
Array(items) == [array |-> items]
Object(fields) == [object |-> fields]
Error(kind) == [error |-> kind]

\* The type of a value; "error" for what is no value.
TypeOf(v) == CHOOSE t \in DOMAIN v : TRUE
Failed(v) == TypeOf(v) = "error"

\* A key that is not there reads as null.
Lookup(fields, key) == IF key \in DOMAIN fields THEN fields[key] ELSE Null

\* The n-th of a sequence counted from 0, or null.
Nth(items, n) == IF n < Len(items) THEN items[n + 1] ELSE Null
CharAt(text, n) == IF n < Len(text) THEN String(SubSeq(text, n + 1, n + 1)) ELSE Null

With(fields, key, v) == (key :> v) @@ fields

-----------------------------------------------------------------------------
(* Conversions. *)

Digits == {ToString(n) : n \in 0 .. 9}

\* A negative number becomes index 0.
AsIndex(v) ==
    CASE TypeOf(v) = "number" -> Number(IF v.number < 0 THEN 0 ELSE v.number)
      [] TypeOf(v) = "string" /\ v.string \in Digits ->
            Number(CHOOSE n \in 0 .. 9 : ToString(n) = v.string)
      [] OTHER -> Error("InvalidIndex")

AsText(v) ==
    CASE TypeOf(v) = "string" -> v
      [] TypeOf(v) = "number" -> String(ToString(v.number))
      [] TypeOf(v) = "boolean" -> String(IF v.boolean THEN "true" ELSE "false")
      [] TypeOf(v) = "null" -> String("null")
      [] OTHER -> Error("UnsupportedOperation")


ToBoolean(v) ==
    CASE TypeOf(v) = "string" -> v.string # ""
      [] TypeOf(v) = "number" -> v.number # 0
      [] TypeOf(v) = "boolean" -> v.boolean
      [] OTHER -> TypeOf(v) # "null"

-----------------------------------------------------------------------------
(* Operators. *)

Summable == {"number", "boolean", "null"}

Add(a, b) ==
    LET ta == TypeOf(a)
        tb == TypeOf(b)
    IN CASE ta = "number" /\ tb = "number" -> Number(a.number + b.number)
         [] ta \in {"number", "string"} /\ tb = "string" -> String(AsText(a).string \o b.string)
         [] ta = "string" /\ tb \in Summable -> String(a.string \o AsText(b).string)
         [] ta = "array" /\ tb = "array" -> Array(a.array \o b.array)
         [] ta = "object" /\ tb = "object" -> Object(b.object @@ a.object)
         [] OTHER -> Error("UnsupportedOperation")

Calculate(op, a, b) ==
    IF TypeOf(a) = "number" /\ TypeOf(b) = "number"
    THEN Number(CASE op = "-" -> a.number - b.number
                  [] op = "*" -> a.number * b.number
                  [] OTHER -> 1)
    ELSE Error("UnsupportedOperation")

\* Texts are ordered by their length here.
Rank(v) ==
    CASE TypeOf(v) = "string" -> Len(v.string)
      [] TypeOf(v) = "number" -> v.number
      [] TypeOf(v) = "boolean" -> IF v.boolean THEN 1 ELSE 0
      [] OTHER -> 0

Ordered(a, b) == TypeOf(a) = TypeOf(b) /\ TypeOf(a) \notin {"array", "object"}

Compare(op, a, b) ==
    Boolean(CASE op = "==" -> a = b
              [] op = "!=" -> a # b
              [] op = "<" -> Ordered(a, b) /\ Rank(a) < Rank(b)
              [] op = "<=" -> Ordered(a, b) /\ Rank(a) <= Rank(b)
              [] op = ">" -> Ordered(a, b) /\ Rank(a) > Rank(b)
              [] op = ">=" -> Ordered(a, b) /\ Rank(a) >= Rank(b))

Comparisons == {"==", "!=", "<", "<=", ">", ">="}

Operate(op, a, b) ==
    CASE Failed(a) -> a
      [] Failed(b) -> b
      [] op = "+" -> Add(a, b)
      [] op \in Comparisons -> Compare(op, a, b)
      [] OTHER -> Calculate(op, a, b)

OperateUnary(op, v) ==
    CASE Failed(v) -> v
      [] op = "!" /\ TypeOf(v) = "boolean" -> Boolean(~v.boolean)
      [] op = "+" /\ TypeOf(v) = "number" -> v
      [] op = "-" /\ TypeOf(v) = "number" -> Number(-v.number)
      [] OTHER -> Error("UnsupportedOperation")

-----------------------------------------------------------------------------
(* Methods: what a method of a type yields, which of them take an argument, *)
(* and which fail on texts and arrays that are not what they decode.  At    *)
(* most one argument is given here.                                         *)

Yields(type, methods) == [m \in methods |-> type]

TextMethods ==
    Yields("array", {"toCodePoints", "fromHexString", "fromBase64String", "split"})
    @@ Yields("number", {"length", "toNumber"})
    @@ Yields("boolean", {"contains", "isEmpty", "startsWith", "endsWith"})
    @@ Yields("string", {"type", "toString", "toUpperCase", "toLowerCase", "trim", "replace",
                         "stripPrefix", "stripSuffix", "filename", "filestem", "replaceExtension"})

NumberMethods ==
    Yields("number", {"round", "floor", "ceil", "abs", "pow", "cos", "sin", "tan", "acos", "asin",
                      "atan", "sqrt", "exp", "ln", "log", "log10", "sign", "toNumber", "truncate"})
    @@ Yields("boolean", {"isInteger", "isNaN", "isFinite", "isInfinite", "isEven", "isOdd"})
    @@ Yields("string", {"type", "toString"})

ArrayMethods ==
    Yields("string", {"toHexString", "toBase64String", "fromCodePoints", "type", "join"})
    @@ Yields("boolean", {"contains", "isEmpty"})
    @@ Yields("number", {"length"})

ObjectMethods ==
    Yields("string", {"type"}) @@ Yields("array", {"values", "keys"})
    @@ Yields("boolean", {"isEmpty"})

Methods ==
    [string |-> TextMethods, number |-> NumberMethods, array |-> ArrayMethods,
     object |-> ObjectMethods, boolean |-> Yields("string", {"type", "toString"}),
     null |-> Yields("string", {"type", "toString"})]

TakesArgument ==
    [string |-> {"contains", "replace", "stripPrefix", "stripSuffix", "startsWith", "endsWith",
                 "replaceExtension", "split"},
     number |-> {"pow", "log"}, array |-> {"join", "contains"},
     object |-> {}, boolean |-> {}, null |-> {}]

MayGoWithout == {<<"string", "contains">>, <<"string", "stripPrefix">>, <<"string", "stripSuffix">>}

\* Texts take what converts to text, numbers take numbers.
Suits(t, m, argument) ==
    CASE Failed(argument) -> FALSE
      [] t = "number" -> TypeOf(argument) = "number"
      [] t = "string" \/ m = "join" -> ~Failed(AsText(argument))
      [] OTHER -> TRUE

\* Texts that are no digits decode to nothing, arrays of other things than
\* numbers are no bytes, and cannot be joined if they nest.
Decodes(v, m) ==
    CASE TypeOf(v) = "string" /\ m \in {"toNumber", "fromHexString", "fromBase64String"} ->
            v.string \in Digits
      [] TypeOf(v) = "array" /\ m \in {"toHexString", "toBase64String", "fromCodePoints"} ->
            \A i \in DOMAIN v.array : TypeOf(v.array[i]) = "number"
      [] TypeOf(v) = "array" /\ m = "join" ->
            \A i \in DOMAIN v.array : ~Failed(AsText(v.array[i]))
      [] OTHER -> TRUE

Sample(type) ==
    CASE type = "string" -> String("text")
      [] type = "number" -> Number(1)
      [] type = "boolean" -> Boolean(TRUE)
      [] type = "array" -> Array(<<Number(1)>>)

\* A method nobody knows is null; its arguments are not looked at.
Invoke(v, m, arguments) ==
    LET t == TypeOf(v)
    IN CASE Failed(v) -> v
         [] m \notin DOMAIN Methods[t] -> Null
         [] m \in TakesArgument[t] /\ arguments = <<>> /\ <<t, m>> \notin MayGoWithout ->
                Error("MissingArgument")
         [] m \in TakesArgument[t] /\ arguments # <<>> /\ ~Suits(t, m, arguments[1]) ->
                Error("InvalidArgument")
         [] ~Decodes(v, m) -> Error("ConversionError")
         [] m = "type" -> String(t)
         [] m = "toString" -> AsText(v)
         [] OTHER -> Sample(Methods[t][m])

-----------------------------------------------------------------------------
(* Expressions. *)

Literal(v) == [is |-> "literal", literal |-> v]
Name(x) == [is |-> "name", name |-> x]
Variable(x) == [is |-> "environment", variable |-> x]
ListOf(items) == [is |-> "list", items |-> items]
Fields(fields) == [is |-> "fields", fields |-> fields]
Attribute(e, a) == [is |-> "attribute", of |-> e, attribute |-> a]
Slice(e, i) == [is |-> "slice", of |-> e, index |-> i]
Unary(op, e) == [is |-> "unary", op |-> op, of |-> e]
Binary(l, op, r) == [is |-> "binary", op |-> op, left |-> l, right |-> r]
If(c, t, e) == [is |-> "if", condition |-> c, then |-> t, otherwise |-> e]
Call(e, m, arguments) == [is |-> "call", of |-> e, method |-> m, arguments |-> arguments]

\* The first failure among values, or the values wrapped up.
Gather(values, Wrap(_)) ==
    LET failed == {i \in DOMAIN values : Failed(values[i])}
    IN IF failed = {} THEN Wrap(values) ELSE values[CHOOSE i \in failed : TRUE]

AttributeOf(v, a) ==
    CASE TypeOf(v) = "object" -> Lookup(v.object, a)
      [] TypeOf(v) = "array" /\ a = "length" -> Number(Len(v.array))
      [] TypeOf(v) = "string" /\ a = "length" -> Number(Len(v.string))
      [] TypeOf(v) = "number" /\ a = "isInteger" -> Boolean(TRUE)
      [] Failed(v) -> v
      [] OTHER -> Null

SliceOf(v, index) ==
    LET at == AsIndex(index)
        key == AsText(index)
    IN CASE Failed(v) -> v
         [] Failed(index) -> index
         [] TypeOf(v) = "string" -> IF Failed(at) THEN at ELSE CharAt(v.string, at.number)
         [] TypeOf(v) = "array" -> IF Failed(at) THEN at ELSE Nth(v.array, at.number)
         [] TypeOf(v) = "object" -> IF Failed(key) THEN key ELSE Lookup(v.object, key.string)
         [] OTHER -> Null

Logic(op, l, r) ==
    CASE Failed(l) -> l
      [] op = "&&" -> IF ToBoolean(l) THEN r ELSE Boolean(FALSE)
      [] op = "||" -> IF ToBoolean(l) THEN l ELSE r

\* What is chosen between: values, or selectors.
Choice(c, then, otherwise) ==
    CASE Failed(c) -> c
      [] TypeOf(c) # "boolean" -> Error("UnsupportedOperation")
      [] OTHER -> IF c.boolean THEN then ELSE otherwise

RECURSIVE Evaluate(_, _)
Evaluate(e, storage) ==
    LET Value(x) == Evaluate(x, storage)
    IN CASE e.is = "literal" -> e.literal
         [] e.is = "name" -> Lookup(storage, e.name)
         [] e.is = "environment" -> Lookup(Environment, e.variable)
         [] e.is = "list" -> Gather([i \in DOMAIN e.items |-> Value(e.items[i])], Array)
         [] e.is = "fields" -> Gather([k \in DOMAIN e.fields |-> Value(e.fields[k])], Object)
         [] e.is = "attribute" -> AttributeOf(Value(e.of), e.attribute)
         [] e.is = "slice" -> SliceOf(Value(e.of), Value(e.index))
         [] e.is = "unary" -> OperateUnary(e.op, Value(e.of))
         [] e.is = "call" ->
                Invoke(Value(e.of), e.method, [i \in DOMAIN e.arguments |-> Value(e.arguments[i])])
         [] e.is = "binary" /\ e.op \in {"&&", "||"} ->
                Logic(e.op, Value(e.left), Value(e.right))
         [] e.is = "binary" -> Operate(e.op, Value(e.left), Value(e.right))
         [] e.is = "if" -> Choice(Value(e.condition), Value(e.then), Value(e.otherwise))

-----------------------------------------------------------------------------
(* Selectors: the parts that lead to a place in the storage.                *)

NamePart(x) == [name |-> x]
AttributePart(a) == [attribute |-> a]
SlicePart(v) == [slice |-> v]
NowherePart == [nowhere |-> TRUE]

Parts(parts) == [parts |-> parts]
Extended(selector, part) ==
    IF Failed(selector) THEN selector ELSE Parts(Append(selector.parts, part))

SlicedBy(selector, v) ==
    IF Failed(v) /\ ~Failed(selector) THEN v ELSE Extended(selector, SlicePart(v))

RECURSIVE EvaluateSelector(_, _)
EvaluateSelector(e, storage) ==
    CASE e = Literal(Null) -> Parts(<<NowherePart>>)
      [] e.is = "name" -> Parts(<<NamePart(e.name)>>)
      [] e.is = "attribute" ->
            Extended(EvaluateSelector(e.of, storage), AttributePart(e.attribute))
      [] e.is = "slice" ->
            SlicedBy(EvaluateSelector(e.of, storage), Evaluate(e.index, storage))
      [] e.is = "if" ->
            Choice(Evaluate(e.condition, storage),
                   EvaluateSelector(e.then, storage), EvaluateSelector(e.otherwise, storage))
      [] OTHER -> Error("InvalidSelector")

\* The key or index of a part within an object or an array.
PlaceIn(container, part) ==
    CASE TypeOf(container) = "object" ->
            (CASE "slice" \in DOMAIN part -> AsText(part.slice)
               [] "attribute" \in DOMAIN part -> String(part.attribute)
               [] OTHER -> String(part.name))
      [] "slice" \in DOMAIN part -> AsIndex(part.slice)
      [] OTHER -> Error("NoAttribute")

\* Writes v at the end of the parts; an error changes nothing.
RECURSIVE StoreIn(_, _, _)
StoreIn(container, parts, v) ==
    LET place == PlaceIn(container, parts[1])
        inside == TypeOf(container) = "object" \/ place.number < Len(container.array)
        old == IF TypeOf(container) = "object"
               THEN Lookup(container.object, place.string)
               ELSE container.array[place.number + 1]
        new == IF Len(parts) = 1 THEN v ELSE StoreIn(old, Tail(parts), v)
    IN CASE "nowhere" \in DOMAIN parts[1] -> container
         [] Failed(place) -> place
         [] ~inside -> Error("IndexOutOfBounds")
         [] Len(parts) > 1 /\ TypeOf(old) \notin {"object", "array"} -> Error("InvalidSelector")
         [] Failed(new) -> new
         [] TypeOf(container) = "object" -> Object(With(container.object, place.string, new))
         [] OTHER -> Array([container.array EXCEPT ![place.number + 1] = new])

\* The storage itself is an object.
StoreValue(storage, selector, v) ==
    IF Failed(selector) THEN selector ELSE StoreIn(Object(storage), selector.parts, v)
=============================================================================
