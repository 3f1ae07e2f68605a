----------------------------- MODULE MCFrontEnd ------------------------------
(***************************************************************************)
(* Texts: every string of up to three characters of any class, the         *)
(* keywords, and every string of up to five that may be an expression.     *)
(* Programs with every kind of expression in every other, every kind of    *)
(* statement in every other, and declarations; among them some that are    *)
(* too large by one.                                                       *)
(***************************************************************************)
EXTENDS FrontEnd

Longer(ss, cs) == {s \o c : s \in ss, c \in cs}

Mixed == {"i", "f", "s", "_", "0", " ", "\n", "=", "!", "<", ">", "}", "#", "~"}
Mixed2 == Longer(Mixed, Mixed)

Operand == {"a", "1", "-", "*", "+", "<", "(", ")"}
Operand2 == Longer(Operand, Operand)
Operand3 == Longer(Operand2, Operand)

Listed == {"a", "1", "=", ",", "(", ")", ".", "-"}
Listed2 == Longer(Listed, Listed)
Listed3 == Longer(Listed2, Listed)
Listed4 == Longer(Listed3, Listed)

Within(ss) == {"a(" \o s \o ")" : s \in ss}
After3 == {"a.a" \o s : s \in Listed3}
Words == {w \o e : w \in Keywords \cup {"true", "false", "iff", "returnss", "wile", "If"},
                   e \in {"", " ", "(", ".a", "s", "1", "~", "=true", "==1", " else", "-1*2-3", "_\ta"}}
MCTexts == <<Mixed, Mixed2, Longer(Mixed2, Mixed), Operand2, Operand3, Longer(Operand2, Operand3),
             Within(Listed), Within(Listed2), Within(Listed3), Within(Listed4), After3, Words>>
-----------------------------------------------------------------------------
Num(s)   == [kind |-> "int", text |-> s]
Truth    == [kind |-> "bool", text |-> "true"]
Var(n)   == [kind |-> "name", name |-> n]
Neg(e)   == [kind |-> "negate", left |-> e]
Bin(o, l, r) == [kind |-> "binary", op |-> o, left |-> l, right |-> r]
Dot(e)   == [kind |-> "field", left |-> e, name |-> "m"]
Call(es) == [kind |-> "call", name |-> "f", args |-> es]
Make(es) == [kind |-> "structure", type |-> "S",
             inits |-> [i \in DOMAIN es |-> [name |-> IF i = 1 THEN "m" ELSE "n", value |-> es[i]]]]
Pick(es) == [kind |-> "choice", type |-> "C", variant |-> "v", payload |-> es]

Bind(n, t, e, m) == [kind |-> "bind", name |-> n, type |-> t, expr |-> e, mutable |-> m]
Ret(e)      == [kind |-> "return", expr |-> e]
If(e, s, t) == [kind |-> "if", expr |-> e, then |-> s, else |-> t]
While(e, s) == [kind |-> "while", condition |-> e, body |-> s]
When(b, s)  == [variant |-> "v", binding |-> b, body |-> s]
Match(e, k) == [kind |-> "match", expr |-> e, cases |-> k]

Typed(n, t) == [name |-> n, type |-> t]
Function(n, ps, body) == [name |-> n, params |-> ps, returns |-> "Int", body |-> body]
Alone(body) == [types |-> <<>>, functions |-> <<Function("main", <<>>, body)>>]

Atoms == {Num("1"), Truth, Var("a")}
Over(es) == {Neg(e) : e \in es} \cup {Dot(e) : e \in es} \cup {Call(<<e>>) : e \in es}
            \cup {Make(<<e>>) : e \in es} \cup {Pick(<<e>>) : e \in es}
            \cup {Bin(o, e, Var("a")) : o \in {"sub", "div", "lt"}, e \in es}
            \cup {Bin(o, Var("a"), e) : o \in {"add", "mul", "eq"}, e \in es}
Once  == Over(Atoms) \cup {Call(<<>>), Pick(<<>>), Call(<<Var("a"), Num("12")>>), Make(<<Var("a"), Truth>>)}
         \cup {Bin(o, Var("a"), Num("1")) : o \in {"ne", "le", "gt", "ge"}}
Twice == Over(Once) \cup {Call(<<e, e>>) : e \in Once} \cup {Bin("sub", e, e) : e \in Once}
         \cup {Call(<<e, e, e>>) : e \in Atoms}

InExpr(es) == {Alone(<<Ret(e)>>) : e \in es}

Simple == {Bind("a", "", Num("1"), FALSE), Bind("a", "Int", Dot(Var("b")), TRUE),
           [kind |-> "assign", name |-> "a", expr |-> Var("b")], Ret(Bin("lt", Var("a"), Num("2")))}
Nest(ss) == {If(Var("a"), s, t) : s \in ss, t \in {<<>>, <<Ret(Truth)>>}}
            \cup {If(Truth, <<>>, s) : s \in ss}
            \cup {While(Bin("ge", Var("a"), Num("1")), s) : s \in ss}
            \cup {Match(Var("a"), <<When(<<"x">>, s)>>) : s \in ss}
            \cup {Match(Pick(<<>>), <<When(<<>>, <<Ret(Var("a"))>>), When(<<>>, s)>>) : s \in ss}
            \cup {Match(Var("a"), <<When(<<>>, <<>>), When(<<>>, <<>>), When(<<>>, s)>>) : s \in {s \in ss : Len(s) < 2}}
Shallow == {<<>>} \cup {<<s>> : s \in Simple} \cup {<<Ret(Truth), s>> : s \in Simple}
Nested1 == {<<n>> : n \in Nest(Shallow)}
Before1 == {n \o <<Ret(Var("a"))>> : n \in Nested1}
Nested2 == {<<n>> : n \in Nest(Nested1)}
Before2 == {<<n>> : n \in Nest(Before1)}
InBody(bs) == {Alone(b) : b \in bs}

Types == {[name |-> "S", params |-> ps, choice |-> c, members |-> ms] :
             ps \in {<<>>, <<"T">>, <<"T", "U">>, <<"T", "U", "V">>},
             c \in BOOLEAN,
             ms \in {<<>>, <<Typed("m", "Int")>>, <<Typed("m", "Int"), Typed("n", "S")>>,
                     <<Typed("m", "T"), Typed("n", "Int"), Typed("o", "Int")>>}}
         \cup {[name |-> "C", params |-> <<>>, choice |-> TRUE, members |-> <<Typed("v", ""), Typed("w", "Int")>>],
               [name |-> "C", params |-> <<>>, choice |-> TRUE, members |-> <<Typed("v", "Int"), Typed("w", "")>>]}
F == Function("f", <<Typed("a", "Int")>>, <<Ret(Var("a"))>>)
Heads == {[types |-> ts, functions |-> fs] :
             ts \in {<<>>} \cup {<<d>> : d \in Types} \cup {<<d, d>> : d \in Types} \cup {<<d, d, d>> : d \in Types},
             fs \in {<<>>, <<F>>, <<F, Function("g", <<Typed("a", "Int"), Typed("b", "S")>>, <<>>)>>,
                     <<F, F, F>>,
                     <<Function("g", <<Typed("a", "Int"), Typed("b", "S"), Typed("c", "S")>>, <<Ret(Truth)>>)>>,
                     <<Function("g", <<>>, <<Ret(Truth), Ret(Truth), Ret(Truth), Ret(Truth)>>)>>}}

MCPrograms == <<InExpr(Atoms \cup Once), InExpr(Twice), InBody(Shallow),
                InBody(Nested1), InBody(Before1), InBody(Nested2), InBody(Before2), Heads>>
=============================================================================
