------------------------------- MODULE Syntax -------------------------------
(***************************************************************************)
(* Syntax trees as the parser builds them (parser/ast.h), for the type     *)
(* checker and for the meaning of programs.                                *)
(*                                                                         *)
(* An expression is a record [kind, ...] with kind as in ast.h, a          *)
(* statement likewise; a block is a sequence of statements.  A function is *)
(* [name, params, returns, body]; a type declaration is [name, params,     *)
(* choice, members], where a member has a name and a type, "" if a variant *)
(* has no payload.  A program is [types, functions], both in the order of  *)
(* the text.                                                               *)
(*                                                                         *)
(* Trees are finite: the constant Depth bounds how deep they are nested,   *)
(* which makes recursion over them a function.                             *)
(***************************************************************************)
EXTENDS Ints, Sequences

CONSTANT Depth

DepthAssumption == Depth \in Nat

ASSUME DepthAssumption

\* The first element of that name, as a sequence of at most one.
Find(s, n) ==
    LET hits == {i \in DOMAIN s : s[i].name = n} IN
    IF hits = {} THEN <<>> ELSE <<s[CHOOSE i \in hits : \A j \in hits : i <= j]>>

\* The index of the last element of that name, where there is one.
LastOf(s, n) ==
    CHOOSE i \in DOMAIN s : s[i].name = n /\ \A j \in DOMAIN s : s[j].name = n => j <= i

\* The expressions that an expression is made of, in the order of the text.
Parts(e) ==
    CASE e.kind \in {"negate", "field"} -> <<e.left>>
      [] e.kind = "binary"    -> <<e.left, e.right>>
      [] e.kind = "call"      -> e.args
      [] e.kind = "construct" -> e.values
      [] OTHER -> <<>>

\* The expression that a statement begins with.
Subject(s) == IF s.kind = "while" THEN s.condition ELSE s.expr

Optional(S) == {s \in Seq(S) : Len(s) <= 1}

\* What `T(m = e, ...)` and `T.m(e)` build alike, for a structure or a choice:
\* the names of its initializers and their values, none for `T.m()`.
ConstructsOf(E) ==
    {e \in [kind : {"construct"}, type : STRING, names : Seq(STRING), values : Seq(E)] :
        Len(e.values) = Len(e.names) \/ (Len(e.names) = 1 /\ e.values = <<>>)}

\* The expressions that are made of those in E.
ExpressionsOf(E) ==
         [kind : {"int"}, value : Nat]
    \cup [kind : {"bool"}, value : BOOLEAN]
    \cup [kind : {"name"}, name : STRING]
    \cup [kind : {"negate"}, left : E]
    \cup [kind : {"field"}, left : E, name : STRING]
    \cup [kind : {"binary"}, op : Operators, left : E, right : E]
    \cup [kind : {"call"}, name : STRING, args : Seq(E)]
    \cup ConstructsOf(E)

\* The statements with expressions in E and blocks in B.
StatementsOf(E, B) ==
         [kind : {"bind"}, name : STRING, type : STRING, expr : E, mutable : BOOLEAN]
    \cup [kind : {"assign"}, name : STRING, expr : E]
    \cup [kind : {"return"}, expr : E]
    \cup [kind : {"if"}, expr : E, then : B, else : B]
    \cup [kind : {"while"}, condition : E, body : B]
    \cup [kind : {"match"}, expr : E,
          cases : Seq([variant : STRING, binding : Optional(STRING), body : B])]

NoTrees == [expressions |-> {}, blocks |-> {}]

Deeper(trees) ==
    [expressions |-> ExpressionsOf(trees.expressions),
     blocks      |-> Seq(StatementsOf(trees.expressions, trees.blocks))]

Trees[n \in Nat] == IF n = 0 THEN NoTrees ELSE Deeper(Trees[n - 1])

Expressions == Trees[Depth].expressions
Blocks      == Trees[Depth].blocks

\* A name of a type is never empty.
Member   == [name : STRING, type : STRING]
TypeDecl == [name : STRING \ {""}, params : Seq(STRING), choice : BOOLEAN, members : Seq(Member)]
FunctionDecl == [name : STRING, params : Seq(Member), returns : STRING, body : Blocks]
Tree == [types : Seq(TypeDecl), functions : Seq(FunctionDecl)]
=============================================================================
