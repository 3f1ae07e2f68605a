----------------------------- MODULE MCPipeline -----------------------------
(***************************************************************************)
(* Small programs in families: expressions, pairs of statements from a     *)
(* list that has every kind nested in every other, uses of structures and  *)
(* choices, constructs in either spelling; functions with parameters and   *)
(* locals, at which the lowering stops; and programs of which the front    *)
(* end must refuse some: every expression in every place that expects a    *)
(* type, names used and bound in and out of blocks, declarations and       *)
(* signatures that do not fit.  Words have four bits, calls go four deep.  *)
(***************************************************************************)
EXTENDS Pipeline

Num(v)           == [kind |-> "int", value |-> v]
Flag(b)         == [kind |-> "bool", value |-> b]
Var(n)           == [kind |-> "name", name |-> n]
Neg(e)           == [kind |-> "negate", left |-> e]
Bin(op, l, r)     == [kind |-> "binary", op |-> op, left |-> l, right |-> r]
Ask(f, args)     == [kind |-> "call", name |-> f, args |-> args]
Field(e, n)      == [kind |-> "field", left |-> e, name |-> n]
Construct(t, ns, es) == [kind |-> "construct", type |-> t, names |-> ns, values |-> es]
Struct(t, inits) == Construct(t, [i \in DOMAIN inits |-> inits[i].name], [i \in DOMAIN inits |-> inits[i].value])
Choice(t, v, p)  == Construct(t, <<v>>, p)
Part(n, e)       == [name |-> n, value |-> e]

Binding(n, t, e, m) == [kind |-> "bind", name |-> n, type |-> t, expr |-> e, mutable |-> m]
Bind(n, e)       == Binding(n, "", e, FALSE)
BindAs(n, t, e)  == Binding(n, t, e, FALSE)
Mut(n, e)        == Binding(n, "", e, TRUE)
Set(n, e)        == [kind |-> "assign", name |-> n, expr |-> e]
Ret(e)           == [kind |-> "return", expr |-> e]
If(e, s, t)      == [kind |-> "if", expr |-> e, then |-> s, else |-> t]
While(e, s)      == [kind |-> "while", condition |-> e, body |-> s]
When(v, b, s)    == [variant |-> v, binding |-> b, body |-> s]
Match(e, cases)  == [kind |-> "match", expr |-> e, cases |-> cases]

Of(n, t) == [name |-> n, type |-> t]
Function(n, params, t, body) == [name |-> n, params |-> params, returns |-> t, body |-> body]
Structure(n, params, members) == [name |-> n, params |-> params, choice |-> FALSE, members |-> members]
ChoiceOf(n, params, members) == [name |-> n, params |-> params, choice |-> TRUE, members |-> members]

x == Var("x")
y == Var("y")

Minus == Function("minus", <<Of("l", "Int"), Of("r", "Int")>>, "Int",
                  <<Ret(Bin("sub", Var("l"), Var("r")))>>)
Count == Function("count", <<Of("n", "Int")>>, "Int",
    << If(Bin("eq", Var("n"), Num(0)), <<Ret(Num(0))>>, <<>>),
       Ret(Bin("add", Ask("count", <<Bin("sub", Var("n"), Num(1))>>), Num(1))) >>)
\* The same with a variable of its own, which a build with assertions refuses.
Counting == Function("count", <<Of("n", "Int")>>, "Int",
    << If(Bin("eq", Var("n"), Num(0)), <<Ret(Num(0))>>, <<>>),
       Bind("less", Ask("minus", <<Var("n"), Num(1)>>)),
       Ret(Bin("add", Ask("count", <<Var("less")>>), Num(1))) >>)
Main(t, body) == Function("main", <<>>, t, body)

Point  == Structure("Point", <<>>, <<Of("x", "Int"), Of("y", "Int")>>)
Option == ChoiceOf("Option", <<>>, <<Of("none", ""), Of("some", "Int")>>)
Spot   == ChoiceOf("Spot", <<>>, <<Of("some", "Option"), Of("off", ""), Of("at", "Point")>>)
Box    == Structure("Box", <<>>, <<Of("lid", "Option"), Of("p", "Point")>>)
Cell   == Structure("Cell", <<>>, <<Of("v", "Int")>>)
Tagged == ChoiceOf("Label", <<>>, <<Of("tag", "Int"), Of("none", "")>>)
Either == ChoiceOf("Either", <<>>, <<Of("num", "Int"), Of("yes", "Bool"), Of("off", "")>>)

Declared(types, functions) == [types |-> types, functions |-> functions]
Giving(t, body) == Declared(<<Point, Option, Spot, Box, Tagged, Either, Cell>>,
                            <<Minus, Count, Main(t, body)>>)
Program(body) == Giving("Int", body)
Alone(body)   == Declared(<<>>, <<Main("Int", body)>>)
-----------------------------------------------------------------------------
Leaves == {Num(2), x, y}
Ops == {"add", "sub", "mul", "div", "lt", "ge", "eq", "ne", "gt", "le"}

Shallow == {Bin(o, l, r) : o \in Ops, l, r \in Leaves} \cup {Neg(l) : l \in Leaves}
           \cup {Ask("minus", <<l, r>>) : l, r \in Leaves} \cup {Ask("count", <<l>>) : l \in Leaves}

Inner == {s \in Shallow : s.kind = "binary" => s.op \in {"sub", "div", "ge"}}

Deep == {Bin(o, s, l) : o \in {"sub", "div"}, s \in Inner, l \in Leaves}
        \cup {Bin(o, l, s) : o \in {"sub", "div"}, s \in Inner, l \in Leaves}
        \cup {Neg(s) : s \in Inner} \cup {Ask("minus", <<s, l>>) : s \in Inner, l \in Leaves}

Computations ==
    {Declared(<<>>, <<Minus, Counting, Main(t, <<Mut("x", Num(3)), Mut("y", Neg(Num(1))), Ret(e)>>)>>) :
        t \in {"Int", "Bool"}, e \in Shallow \cup Deep}
-----------------------------------------------------------------------------
Simple == {Set("y", x), Set("y", Bin("add", y, Num(1))), Set("x", Bin("sub", x, Num(1))), Ret(x)}

Loop(body) == While(Bin("lt", Num(0), x), <<Set("x", Bin("sub", x, Num(1)))>> \o body)
Less == Bin("lt", x, y)

Compound == {If(Less, <<s>>, <<>>) : s \in Simple} \cup {If(Less, <<s>>, <<t>>) : s, t \in Simple}
            \cup {Loop(<<s>>) : s \in Simple}

Deepened == {If(Flag(TRUE), <<c, s>>, <<>>) : c \in Compound, s \in Simple}
          \cup {Loop(<<c>>) : c \in Compound}
          \cup {Loop(<<Bind("t", Bin("add", x, y)), Set("y", Var("t"))>>)}

Statements ==
    {Alone(<<Mut("x", Num(2)), Mut("y", Num(1)), s, t>> \o end) :
        s \in Simple \cup Compound \cup Deepened, t \in Simple \cup {Loop(<<Ret(y)>>)},
        end \in {<<Ret(y)>>, <<>>}}
    \cup {Alone(<<Mut("y", Num(0)), While(Flag(TRUE), <<Set("y", Bin("add", y, Num(1)))>>)>>)}
-----------------------------------------------------------------------------
Scalars == {Num(2), Neg(Var("z")), Ask("minus", <<Var("z"), Num(1)>>)}
Points  == {Struct("Point", <<Part("y", e), Part("x", Var("z"))>>) : e \in Scalars}
Options == {Choice("Option", "none", <<>>)} \cup {Choice("Option", "some", <<e>>) : e \in Scalars}
Spots   == {Choice("Spot", "off", <<>>)} \cup {Choice("Spot", "some", <<o>>) : o \in Options}
           \cup {Choice("Spot", "at", <<p>>) : p \in Points}

Sum(p) == Bin("sub", Field(p, "x"), Field(p, "y"))

OptionCases ==
    { <<When("none", <<>>, <<Ret(Num(7))>>), When("some", <<"v">>, <<Ret(Var("v"))>>)>>,
      <<When("some", <<"v">>, <<Set("z", Bin("add", Var("v"), Num(1)))>>), When("none", <<>>, <<>>)>>,
      <<When("some", <<>>, <<Ret(Num(5))>>)>> }

SpotCases ==
    { <<When("off", <<>>, <<>>), When("at", <<"q">>, <<Ret(Sum(Var("q")))>>),
        When("some", <<"o">>, <<Match(Var("o"), cs), Ret(Num(4))>>)>> : cs \in OptionCases }

Data(body) == Program(<<Mut("z", Num(3))>> \o body \o <<Ret(Var("z"))>>)

Structures == {Data(<<Bind("p", e), Ret(Sum(Var("p")))>>) : e \in Points}
              \cup {Data(<<Ret(Sum(e))>>) : e \in Points}
              \cup {Data(<<Bind("b", Struct("Box", <<Part("p", p), Part("lid", o)>>)),
                           Ret(Sum(Field(Var("b"), "p")))>>) : p \in Points, o \in Options}

Alternatives == {Data(<<BindAs("o", "Option", o), Match(Var("o"), cs)>>) : o \in Options, cs \in OptionCases}
           \cup {Data(<<Match(o, cs)>>) : o \in Options, cs \in OptionCases}
           \cup {Data(<<Bind("s", s), Match(Var("s"), cs)>>) : s \in Spots, cs \in SpotCases}
           \cup {Data(<<While(Bin("lt", Num(0), Var("z")),
                     <<Set("z", Bin("sub", Var("z"), Num(1))), Bind("o", o), Match(Var("o"), cs)>>)>>)
                   : o \in Options, cs \in OptionCases}

\* A choice with a variant that is called tag.
Tags == <<{Data(<<Bind("l", Choice("Label", "tag", <<Num(1)>>)),
                Match(Var("l"), <<When("tag", <<"v">>, <<Ret(Var("v"))>>),
                                  When("none", <<>>, <<Ret(Num(0))>>)>>)>>)}>>
-----------------------------------------------------------------------------
(* An expression of every type and of none, in every place.                *)

Some(e) == Choice("Option", "some", e)
Atoms == {Num(1), Flag(TRUE), Var("i"), Var("p"), Var("o"), Var("nowhere")}

Typed == Atoms
    \cup UNION {{Neg(a), Field(a, "x"), Field(a, "z"), Some(<<a>>), Ask("count", <<a>>),
                 Choice("Option", "none", <<a>>), Choice("Cell", "v", <<a>>),
                 Field(Choice("Cell", "v", <<a>>), "v"),
                 Choice("Either", "num", <<a>>), Choice("Either", "yes", <<a>>),
                 Struct("Point", <<Part("x", a)>>),
                 Struct("Option", <<Part("some", a), Part("none", a)>>)} : a \in Atoms}
    \cup UNION {{Bin("add", a, b), Bin("eq", a, b), Ask("minus", <<a, b>>),
                 Struct("Point", <<Part("x", a), Part("y", b)>>),
                 Struct("Point", <<Part("x", a), Part("x", b)>>)} : a, b \in Atoms}
    \cup {Some(<<>>), Choice("Option", "none", <<>>), Choice("Option", "more", <<>>),
          Choice("Either", "off", <<>>), Choice("Nothing", "none", <<>>), Choice("Cell", "v", <<>>),
          Ask("minus", <<Num(1)>>), Ask("nowhere", <<>>)}

Yes == <<Ret(Num(1))>>
Uses(e) ==
    << <<Ret(e)>>, <<Ret(Neg(e))>>, <<Ret(Field(e, "y"))>>, <<Bind("n", e), Ret(Field(Var("n"), "v"))>>, <<Ret(Ask("minus", <<Num(3), e>>))>>,
       <<If(e, Yes, <<>>)>>, <<While(e, Yes)>>, <<Set("i", e)>>, <<Set("o", e)>>, <<Set("k", e)>>,
       <<Bind("n", e), Ret(Var("n"))>>, <<BindAs("n", "Int", e)>>, <<BindAs("n", "Option", e)>>,
       <<BindAs("n", "Nothing", e)>>, <<Bind("n", Struct("Box", <<Part("p", e), Part("lid", e)>>))>>,
       <<Match(e, <<When("some", <<"v">>, <<Ret(Var("v"))>>)>>)>>,
       <<Match(e, <<When("none", <<>>, Yes), When("some", <<>>, <<Ret(Num(2))>>)>>)>>,
       <<Bind("q", e), Match(Var("q"), <<When("some", <<"v">>, <<Ret(Var("v"))>>)>>)>>,
       <<Match(e, <<When("none", <<"v">>, Yes)>>)>>, <<Match(e, <<>>)>>,
       <<Match(e, <<When("none", <<>>, Yes), When("none", <<>>, <<>>)>>)>>,
       <<Match(e, <<When("num", <<"n">>, <<Ret(Var("n"))>>),
                    When("yes", <<"b">>, <<If(Var("b"), Yes, <<>>)>>)>>)>>,
       <<Match(e, <<When("off", <<>>, Yes), When("yes", <<"b">>, <<Ret(Var("b"))>>)>>)>> >>

Known == <<Mut("i", Num(3)), Bind("k", Num(2)),
           Bind("p", Struct("Point", <<Part("x", Num(1)), Part("y", Num(2))>>)), Mut("o", Some(<<Num(3)>>))>>

Refusable == {Program(Known \o Uses(e)[k] \o <<Ret(Var("i"))>>) : e \in Typed, k \in 1 .. 23}
-----------------------------------------------------------------------------
(* Names in and out of blocks.  A block does not bind a name that is       *)
(* visible where it starts: such programs are for slots_shadowing.         *)

t == Var("t")
BindT == {Bind("t", Num(1)), Mut("t", Flag(TRUE)), Mut("t", t)}
UseT  == {Set("y", t), Set("t", Num(2)), If(t, <<>>, <<>>), Ret(Bin("sub", y, t))}
InBlock(s) == {If(Flag(TRUE), s, <<>>), If(Flag(FALSE), <<>>, s), If(Flag(FALSE), <<>>, s \o s),
               While(Bin("lt", y, Num(2)), s \o <<Set("y", Num(2))>>),
               Match(Some(<<Num(3)>>), <<When("none", <<>>, s), When("some", <<>>, s)>>)}
Payloads == {Match(Some(<<Num(3)>>), <<When("some", <<"t">>, <<u>>), When("none", <<>>, <<u>>)>>) : u \in UseT}
       \cup {Match(Some(<<Num(3)>>), <<When("some", <<"t">>, <<u, b>>)>>) : u \in UseT, b \in BindT}
Own == Payloads \cup UNION {InBlock(<<b, u>>) : b \in BindT, u \in UseT}
Second == Payloads \cup {If(Flag(TRUE), <<b, u>>, <<>>) : b \in BindT, u \in UseT}
Using == UseT \cup UNION {InBlock(<<u>>) : u \in UseT}

Scoped == {Program(<<Mut("y", Num(0)), s, u, Ret(y)>>) :
              s \in BindT \cup Own \cup {Ret(y)}, u \in Using \cup BindT}
Siblings == {Program(<<Mut("y", Num(0)), s, r, Ret(y)>>) : s \in Own, r \in Second}
-----------------------------------------------------------------------------
(* Declarations and signatures that may not fit, and two of one name.      *)

Full == Structure("Pair", <<>>, <<Of("a", "Int"), Of("b", "Bool")>>)
Pairs == { Full,
           Structure("Pair", <<"T">>, <<Of("a", "T"), Of("b", "Bool")>>),
           Structure("Pair", <<"T", "T">>, <<Of("a", "Int"), Of("b", "Bool")>>),
           Structure("Pair", <<"Option">>, <<Of("a", "Int"), Of("b", "Option")>>),
           Structure("Pair", <<>>, <<Of("a", "Nothing"), Of("b", "Bool")>>),
           Structure("Pair", <<>>, <<Of("a", "Int"), Of("a", "Bool")>>),
           Structure("Pair", <<>>, <<Of("a", "Int"), Of("b", "Option")>>),
           Structure("Pair", <<>>, <<Of("a", "Int"), Of("b", "Pair")>>),
           ChoiceOf("Pair", <<>>, <<Of("a", "Int"), Of("b", "Bool")>>),
           ChoiceOf("Pair", <<"T">>, <<Of("a", "Int"), Of("b", "T")>>),
           ChoiceOf("Pair", <<>>, <<Of("a", ""), Of("a", "Int")>>),
           ChoiceOf("Pair", <<>>, <<Of("a", "Int"), Of("b", "Pair")>>) }
PairUses == { <<>>,
    <<Bind("p", Struct("Pair", <<Part("a", Num(2)), Part("b", Flag(TRUE))>>)), Ret(Field(Var("p"), "a"))>>,
    <<Bind("p", Struct("Pair", <<Part("a", Num(2)), Part("b", Choice("Option", "none", <<>>))>>)),
      Ret(Field(Var("p"), "a"))>>,
    <<Bind("p", Choice("Pair", "a", <<Num(2)>>)),
      Match(Var("p"), <<When("a", <<"v">>, <<Ret(Var("v"))>>), When("b", <<>>, Yes)>>)>>,
    <<Bind("p", Choice("Pair", "a", <<Num(2)>>)),
      Match(Var("p"), <<When("b", <<"v">>, <<Ret(Num(3))>>), When("a", <<>>, Yes)>>)>> }

TypeDecls == {Declared(ts, <<Main("Int", u \o Yes)>>) :
                 ts \in {<<d, Option>> : d \in Pairs} \cup {<<Option, d, Full>> : d \in {Full}} \cup {<<>>},
                 u \in PairUses}

Gives == {Function("f", ps, ty, <<Ret(e)>>) :
             ps \in {<<>>, <<Of("a", "Int")>>, <<Of("a", "Bool")>>, <<Of("a", "Int"), Of("a", "Int")>>,
                     <<Of("a", "Nothing")>>, <<Of("a", "Point")>>},
             ty \in {"Int", "Bool", "Point", "Nothing"}, e \in {Num(1), Flag(TRUE), Var("a")}}
Asking == {Main("Int", <<Ret(Ask("f", <<>>))>>), Main("Int", <<Ret(Ask("f", <<Num(2)>>))>>),
           Main("Bool", <<Ret(Ask("f", <<Flag(FALSE)>>))>>), Main("Int", <<Ret(Num(3))>>)}
Other == {<<>>, <<Function("f", <<Of("a", "Int")>>, "Int", <<Ret(Num(0))>>)>>, <<Main("Int", Yes)>>}

\* A function with and without parameters that binds a variable somewhere or not.
AVariable == <<Bind("v", Num(2))>>
Bodies == {<<>>, AVariable, <<Bind("v", Some(<<Num(2)>>))>>, <<If(Flag(FALSE), AVariable, <<>>)>>,
           <<If(Flag(TRUE), <<>>, AVariable)>>, <<If(Flag(TRUE), Yes, Yes)>>, <<While(Flag(FALSE), AVariable)>>,
           <<Match(Some(<<Num(2)>>), <<When("some", <<"v">>, Yes)>>)>>,
           <<Match(Some(<<Num(2)>>), <<When("some", <<>>, AVariable)>>)>>,
           <<Match(Some(<<Num(2)>>), <<When("some", <<>>, Yes)>>)>>}
Lowered == {Declared(<<Option>>, <<Function("f", ps, "Int", b \o <<Ret(Num(3))>>), m>>) :
               ps \in {<<>>, <<Of("a", "Int")>>}, b \in Bodies, m \in Asking}

Functions == {Declared(<<Point>>, <<g, m>> \o r) : g \in Gives, m \in Asking, r \in Other}
             \cup {Declared(<<>>, <<Minus>>)} \cup Lowered

MCMinInt == -8
MCSources == <<Computations, Statements, Structures, Alternatives, Refusable, Scoped, Siblings, TypeDecls, Functions>>
=============================================================================
