----------------------------- MODULE MCAnalysis -----------------------------
(* Small instances of Analysis.  Three kinds of text: one with many kinds of *)
(* expressions and places, one with nested blocks, one with resources.       *)
EXTENDS Analysis

MCEnvironment == "HOST" :> String("a")

x == Name("x")
y == Name("y")
Zero == Literal(Number(0))
One == Literal(Number(1))
Text == Literal(String("a"))
value == Name("value")

MCResults ==
    {Null, Boolean(TRUE), Number(0), String("a"), Array(<<>>), Array(<<Number(1)>>),
     Object("a" :> Number(1))}

Needs(name) == [is |-> "requirement", resource |-> name]
Takes(name) == [is |-> "consumption", resource |-> name]
Gives(name) == [is |-> "provision", resource |-> name]

Function(takes, gives, annotations) == [takes |-> takes, gives |-> gives, annotations |-> annotations]

Numbers(length) == DArray(Base("number"), length)

MCFunctions ==
    [any |-> Function(DAny, DUnion(<<Base("number"), DNull>>), <<>>),
     text |-> Function(Base("string"), Base("boolean"), <<>>),
     list |-> Function(Numbers(AnyLength), DObject("a" :> Base("number")), <<>>),
     union |-> Function(DUnion(<<Base("string"), DObject("a" :> Base("number"))>>), Base("string"), <<>>),
     pair |-> Function(Numbers(AnyLength), DExact(<<Base("number"), Base("number")>>), <<>>),
     single |-> Function(DExact(<<Base("number")>>), DExact(<<Base("number"), Base("number")>>), <<>>),
     boxed |-> Function(Numbers(AnyLength), DObject("a" :> Numbers(2)), <<>>),
     open |-> Function(Undeclared, Undeclared, <<Gives("file_handle"), Gives("http_client")>>),
     read |-> Function(Undeclared, Base("string"), <<Needs("streamable")>>),
     send |-> Function(Base("string"), Undeclared, <<Takes("streamable")>>)]

Many ==
    [functions |-> {"any", "text", "list", "union", "pair", "single", "boxed"}, calls |-> {},
     steps |-> 2, blocks |-> 2,
     expressions |->
        {One, Text, x, Variable("HOST"), ListOf(<<x, One>>), Fields("a" :> x),
         Attribute(x, "a"), Attribute(x, "length"), Slice(x, Zero), Slice(x, y),
         Unary("!", x), Unary("-", x), Binary(x, "+", y), Binary(x, "-", One), Binary(x, "==", y),
         Binary(x, "&&", y), Binary(x, "||", y), If(x, Text, One),
         Call(x, "length", <<>>), Call(x, "type", <<>>), Call(x, "split", <<Text>>)},
     conditions |-> {x, y, ListOf(<<x>>), Binary(x, "==", One), Unary("!", y)},
     descriptions |-> {MCFunctions[f].gives : f \in {"any", "text", "list"}},
     targets |-> {x, y, Attribute(x, "a"), Slice(x, Zero), If(y, x, y)},
     items |-> {value, Binary(value, "+", Text)}]

Nested ==
    [Many EXCEPT !.functions = {"any"}, !.steps = 4, !.blocks = 3,
                 !.expressions = {One, Text}, !.conditions = {x},
                 !.descriptions = {Base("string")}, !.targets = {x}, !.items = {}]

Resourceful ==
    [Nested EXCEPT !.functions = {"send", "read", "open"}, !.calls = {"open", "read", "send"},
                   !.expressions = {}, !.conditions = {Text}, !.descriptions = {}, !.targets = {y}]

MCTexts == [many |-> Many, nested |-> Nested, resourceful |-> Resourceful]
=============================================================================
