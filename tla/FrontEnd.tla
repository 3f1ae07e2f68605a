------------------------------ MODULE FrontEnd -------------------------------
(***************************************************************************)
(* From a text to a syntax tree: the lexer's calls, then the parser on the *)
(* tokens they yield (the tokens do not depend on when the parser asks for *)
(* them).  The text is an expression, of which the grammar says what it    *)
(* means, or a program that is written out from its tree.                  *)
(***************************************************************************)
EXTENDS Lexer, TLC

CONSTANTS Expressions,   \* families of texts
          Programs,      \* families of trees
          MaxParams, MaxFields, MaxVariants, MaxBodyStmts, MaxStmtNodes, MaxExprNodes,
          MaxTypes, MaxFunctions

VARIABLES written,   \* a sequence of the tree that the text was written from, if it was
          parsed     \* a sequence of the parser's state, once it has run

frontEndVars == <<lexerVars, written, parsed>>

P == INSTANCE Parser
LOCAL INSTANCE SequencesExt
-----------------------------------------------------------------------------
(* The text of a tree, with the parentheses that it needs and no more.     *)

Sign(op) == CASE op = "eq" -> "==" [] op = "ne" -> "!=" [] op = "lt" -> "<" [] op = "le" -> "<="
              [] op = "gt" -> ">" [] op = "ge" -> ">=" [] op = "add" -> "+" [] op = "sub" -> "-"
              [] op = "mul" -> "*" [] op = "div" -> "/"

Binds(op) == IF op \in {"mul", "div"} THEN 3 ELSE IF op \in {"add", "sub"} THEN 2 ELSE 1

Paren(needed, s) == IF needed THEN "(" \o s \o ")" ELSE s
Concat(ss) == LET Join(l, r) == l \o r IN FoldLeft(Join, "", ss)
Commas(ss) == Concat([i \in DOMAIN ss |-> IF i = 1 THEN ss[i] ELSE ", " \o ss[i]])

\* As an operand of level n: 5 before a dot, 4 after a minus sign, 3, 2 and 1
\* beside an operator that binds that much.
RECURSIVE Show(_, _), ShowStmt(_)
Show(e, n) ==
    CASE e.kind \in {"int", "bool"} -> e.text
      [] e.kind = "name"      -> e.name
      [] e.kind = "negate"    -> Paren(n > 4, "-" \o Show(e.left, 4))
      [] e.kind = "binary"    -> Paren(n > Binds(e.op), Show(e.left, Binds(e.op)) \o Sign(e.op)
                                                        \o Show(e.right, Binds(e.op) + 1))
      [] e.kind = "field"     -> Show(e.left, 5) \o "." \o e.name
      [] e.kind = "call"      -> e.name \o "(" \o Commas([i \in DOMAIN e.args |-> Show(e.args[i], 1)]) \o ")"
      [] e.kind = "structure" ->
            e.type \o "(" \o Commas([i \in DOMAIN e.inits |->
                                        e.inits[i].name \o "=" \o Show(e.inits[i].value, 1)]) \o ")"
      [] e.kind = "choice"    -> e.type \o "." \o e.variant \o "("
                                 \o Concat([i \in DOMAIN e.payload |-> Show(e.payload[i], 1)]) \o ")"

ShowBlock(stmts) == "{" \o Concat([i \in DOMAIN stmts |-> ShowStmt(stmts[i])]) \o "}"

ShowCase(k) ==
    "case " \o k.variant \o Concat([i \in DOMAIN k.binding |-> "(" \o k.binding[i] \o ")"])
    \o ShowBlock(k.body)

ShowStmt(s) ==
    CASE s.kind = "bind"   -> (IF s.mutable THEN "mutable " ELSE "bind ") \o s.name
                              \o (IF s.type = "" THEN "" ELSE " is " \o s.type) \o "=" \o Show(s.expr, 1) \o "\n"
      [] s.kind = "assign" -> s.name \o " = " \o Show(s.expr, 1) \o "\n"
      [] s.kind = "return" -> "return " \o Show(s.expr, 1) \o "\n"
      [] s.kind = "if"     -> "if " \o Show(s.expr, 1) \o ShowBlock(s.then)
                              \o (IF s.else = <<>> THEN "" ELSE "else" \o ShowBlock(s.else))
      [] s.kind = "while"  -> "while " \o Show(s.condition, 1) \o ShowBlock(s.body)
      [] s.kind = "match"  -> "match " \o Show(s.expr, 1) \o "{"
                              \o Concat([i \in DOMAIN s.cases |-> ShowCase(s.cases[i])]) \o "}"

ShowTyped(m) == m.name \o " is " \o m.type
ShowFunction(f) ==
    "function " \o f.name \o "(" \o Commas([i \in DOMAIN f.params |-> ShowTyped(f.params[i])])
    \o ") returns " \o f.returns \o ShowBlock(f.body) \o "\n"

ShowVariant(m) == m.name \o (IF m.type = "" THEN " " ELSE "(" \o m.type \o ")")
ShowType(d) ==
    "type " \o d.name \o (IF d.params = <<>> THEN "" ELSE "(" \o Commas(d.params) \o ")")
    \o (IF d.choice THEN " = choice{" ELSE " = structure{")
    \o Concat([i \in DOMAIN d.members |-> IF d.choice THEN ShowVariant(d.members[i])
                                          ELSE ShowTyped(d.members[i]) \o " "]) \o "}\n"

ShowProgram(p) == Concat([i \in DOMAIN p.types |-> ShowType(p.types[i])])
                  \o Concat([i \in DOMAIN p.functions |-> ShowFunction(p.functions[i])])
-----------------------------------------------------------------------------
\* The characters of a string.  (<<>> makes of the function a tuple, which
\* TLC indexes faster.)
Characters(s) == <<>> \o [i \in 1 .. Len(s) |-> SubSeq(s, i, i)]

FrontEndInit ==
    /\ parsed = <<>>
    /\ \/ /\ written = <<>>
          /\ \E i \in DOMAIN Expressions : \E t \in Expressions[i] : LexerInit(Characters(t))
       \/ \E i \in DOMAIN Programs : \E p \in Programs[i] :
             /\ written = <<p>>
             /\ LexerInit(Characters(ShowProgram(p)))

Lex == LexerNext /\ UNCHANGED <<written, parsed>>

Parse ==
    /\ AtEnd /\ parsed = <<>>
    /\ parsed' = << IF written = <<>> THEN P!ParseExpr(P!ParserInit(tokens))
                                      ELSE P!ParseProgram(P!ParserInit(tokens)) >>
    /\ UNCHANGED <<lexerVars, written>>

FrontEndNext == Lex \/ Parse

\* The parser asks for tokens until it gives up or has the last.
FrontEndSpec == FrontEndInit /\ [][FrontEndNext]_frontEndVars /\ WF_frontEndVars(Lex)
-----------------------------------------------------------------------------
(* The grammar of expressions: the trees of a sequence of tokens.          *)

Word(t)   == t.kind = "identifier" /\ t.text \notin {"true", "false"}
Inside(ts, i) == SubSeq(ts, i + 1, Len(ts) - 1)
Closed(ts, i) == i < Len(ts) /\ ts[i].kind = "lparen" /\ ts[Len(ts)].kind = "rparen"
Before(ts, i) == SubSeq(ts, 1, i - 1)
After(ts, i)  == SubSeq(ts, i + 1, Len(ts))

RECURSIVE Trees(_, _), Members(_), Lists(_, _)

Trees(ts, n) ==
    CASE ts = <<>> -> {}
      [] n <= 3 ->
            Trees(ts, n + 1) \cup
            UNION { {[kind |-> "binary", op |-> P!Precedence[n][ts[i].kind], left |-> l, right |-> r] :
                        l \in Trees(Before(ts, i), n), r \in Trees(After(ts, i), n + 1)} :
                    i \in {i \in DOMAIN ts : ts[i].kind \in DOMAIN P!Precedence[n]} }
      [] OTHER ->
            IF ts[1].kind = "minus" THEN {[kind |-> "negate", left |-> e] : e \in Trees(Tail(ts), 4)}
            ELSE Members(ts)

Leaf(t) ==
    CASE t.kind = "int_literal" -> {[kind |-> "int", text |-> t.text]}
      [] Word(t)                -> {[kind |-> "name", name |-> t.text]}
      [] t.kind = "identifier"  -> {[kind |-> "bool", text |-> t.text]}
      [] OTHER                  -> {}

\* What may stand before a dot: a leaf, an expression in parentheses, a call, a
\* construct, a field.
Members(ts) ==
    CASE ts = <<>>     -> {}
      [] Len(ts) = 1   -> Leaf(ts[1])
      [] Closed(ts, 1) -> Trees(Inside(ts, 1), 1)
      [] OTHER ->
           (IF Word(ts[1]) /\ Closed(ts, 2)
            THEN {[kind |-> "call", name |-> ts[1].text, args |-> es] :
                     es \in {es \in Lists(Inside(ts, 2), FALSE) : Len(es) <= MaxParams}}
                 \cup {[kind |-> "structure", type |-> ts[1].text, inits |-> es] :
                     es \in {es \in Lists(Inside(ts, 2), TRUE) : Len(es) \in 1 .. MaxFields}}
            ELSE {})
           \cup
           (IF ts[Len(ts)].kind = "identifier" /\ ts[Len(ts) - 1].kind = "dot"
            THEN {[kind |-> "field", left |-> e, name |-> ts[Len(ts)].text] :
                     e \in Members(Before(ts, Len(ts) - 1))}
            ELSE {})
           \cup
           UNION { {[kind |-> "choice", type |-> e.name, variant |-> ts[i + 1].text, payload |-> v] :
                       e \in {e \in Members(Before(ts, i)) : e.kind = "name"},
                       v \in IF Inside(ts, i + 2) = <<>> THEN {<<>>}
                             ELSE {<<e>> : e \in Trees(Inside(ts, i + 2), 1)}} :
                   i \in {i \in 2 .. Len(ts) - 3 : /\ ts[i].kind = "dot" /\ ts[i + 1].kind = "identifier"
                                                   /\ Closed(ts, i + 2)} }

\* Arguments, or initializers, with commas between them and perhaps at the end.
Lists(ts, named) ==
    IF ts = <<>> THEN {<<>>}
    ELSE LET Item(s) ==
                 IF ~named THEN Trees(s, 1)
                 ELSE IF Len(s) < 3 \/ s[1].kind # "identifier" \/ s[2].kind # "equal" THEN {}
                 ELSE {[name |-> s[1].text, value |-> e] : e \in Trees(After(s, 2), 1)}
         IN {<<e>> : e \in Item(ts)}
            \cup UNION { {<<e>> \o es : e \in Item(Before(ts, i)), es \in Lists(After(ts, i), named)} :
                         i \in {i \in DOMAIN ts : ts[i].kind = "comma"} }
-----------------------------------------------------------------------------
(* How many nodes a tree takes.                                            *)

Total(ns) == FoldLeft(+, 0, ns)

RECURSIVE Nodes(_), Below(_), Nested(_), Flat(_), FitsExpr(_)

Children(e) ==
    CASE e.kind \in {"negate", "field"} -> <<e.left>>
      [] e.kind = "binary"    -> <<e.left, e.right>>
      [] e.kind = "call"      -> e.args
      [] e.kind = "structure" -> [i \in DOMAIN e.inits |-> e.inits[i].value]
      [] e.kind = "choice"    -> e.payload
      [] OTHER                -> <<>>

\* The root of an expression is not in the pool.
Nodes(e) == 1 + Below(e)
Below(e) == Total([i \in DOMAIN Children(e) |-> Nodes(Children(e)[i])])

Blocks(s) ==
    CASE s.kind = "if"    -> <<s.then, s.else>>
      [] s.kind = "while" -> <<s.body>>
      [] s.kind = "match" -> [i \in DOMAIN s.cases |-> s.cases[i].body]
      [] OTHER            -> <<>>

Root(s) == IF s.kind = "while" THEN s.condition ELSE s.expr

\* Those of the statements nested in these, innermost ones included.
Nested(stmts) ==
    FlattenSeq([i \in DOMAIN stmts |->
        FlattenSeq([b \in DOMAIN Blocks(stmts[i]) |->
                       Blocks(stmts[i])[b] \o Nested(Blocks(stmts[i])[b])])])

FitsExpr(e) ==
    /\ e.kind = "call" => Len(e.args) <= MaxParams
    /\ e.kind = "structure" => Len(e.inits) <= MaxFields
    /\ \A i \in DOMAIN Children(e) : FitsExpr(Children(e)[i])

FitsFunction(f) ==
    LET all == f.body \o Nested(f.body) IN
    /\ Len(f.params) <= MaxParams
    /\ Len(f.body) <= MaxBodyStmts
    /\ Len(Nested(f.body)) <= MaxStmtNodes
    /\ Total([i \in DOMAIN all |-> Below(Root(all[i]))]) <= MaxExprNodes
    /\ \A i \in DOMAIN all : /\ FitsExpr(Root(all[i]))
                             /\ all[i].kind = "match" => Len(all[i].cases) <= MaxVariants

FitsType(d) == Len(d.params) <= MaxParams /\ Len(d.members) <= IF d.choice THEN MaxVariants ELSE MaxFields

Fits(p) ==
    /\ Len(p.types) <= MaxTypes /\ Len(p.functions) \in 1 .. MaxFunctions
    /\ \A i \in DOMAIN p.types : FitsType(p.types[i])
    /\ \A i \in DOMAIN p.functions : FitsFunction(p.functions[i])

\* No statement but the last of a nested block has statements nested in it.
Flat(stmts) ==
    \A i \in DOMAIN stmts : \A b \in DOMAIN Blocks(stmts[i]) :
        LET inner == Blocks(stmts[i])[b] IN
        /\ \A k \in 1 .. Len(inner) - 1 : Nested(<<inner[k]>>) = <<>>
        /\ Flat(inner)
-----------------------------------------------------------------------------
(* Properties.                                                             *)

Accepted == parsed[1].ok /\ P!Kind(parsed[1]) = "eof"

\* An expression is accepted exactly if the grammar has a tree for it that the
\* pool has room for, and the tree is that: operators bind as their precedence
\* says and from the left.
ParsesAsGrammar ==
    parsed # <<>> /\ written = <<>> =>
        (IF Accepted THEN {parsed[1].out} ELSE {})
            = {e \in Trees(Before(tokens, Len(tokens)), 1) : Below(e) <= MaxExprNodes}

\* A program that is written out is accepted exactly if its trees fit in the
\* arrays and pools; what the later passes then read is that program, if its
\* blocks are flat (see module Blocks).
ProgramsRoundTrip ==
    parsed # <<>> /\ written # <<>> =>
        /\ Accepted <=> Fits(written[1])
        /\ Accepted /\ (\A i \in DOMAIN written[1].functions : Flat(written[1].functions[i].body))
              => P!ReadProgram(parsed[1].out) = written[1]

\* Whatever the text, the lexer comes to its end.
LexerEnds == <>AtEnd
=============================================================================
