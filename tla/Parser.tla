------------------------------- MODULE Parser --------------------------------
(***************************************************************************)
(* The recursive descent parser (parser/parser.c) over the tokens of a     *)
(* text.  Each operator takes the parser's state c and yields the next:    *)
(*    tokens   all tokens, the last one "eof"                              *)
(*    at       the current one                                             *)
(*    exprs    how many nodes of the function's expression pool are in use *)
(*    nodes    the function's nested statements, in the order of the pool  *)
(*    out      what was parsed last                                        *)
(*    ok       FALSE when the parser has given up                          *)
(*                                                                         *)
(* Trees are as in module Source, but for literals, which keep their text, *)
(* and blocks, which are [start, count] in `nodes` (see module Blocks).    *)
(***************************************************************************)
EXTENDS Integers, Sequences

CONSTANTS MaxParams,      \* BEET_AST_MAX_PARAMS
          MaxFields,      \* BEET_AST_MAX_FIELDS
          MaxVariants,    \* BEET_AST_MAX_VARIANTS
          MaxBodyStmts,   \* BEET_AST_MAX_BODY_STMTS
          MaxStmtNodes,   \* BEET_AST_MAX_STMT_NODES
          MaxExprNodes,   \* BEET_AST_MAX_EXPR_NODES
          MaxTypes, MaxFunctions    \* those of the driver

Kind(c) == c.tokens[c.at].kind
Text(c) == c.tokens[c.at].text
Out(c, tree) == [c EXCEPT !.out = tree]
Reject(c)  == [c EXCEPT !.ok = FALSE]
Advance(c) == IF c.at < Len(c.tokens) THEN [c EXCEPT !.at = @ + 1] ELSE c
At(c, kind) == c.ok /\ Kind(c) = kind
Expect(c, kind) == IF At(c, kind) THEN Advance(c) ELSE Reject(c)

\* What follows is parsed unless c has given up.
Then(c, F(_)) == IF c.ok THEN F(c) ELSE c

\* The identifier, and what follows it.
Name(c) == Out(Expect(c, "identifier"), Text(c))

\* A node for one more expression.
Alloc(c) == IF c.ok /\ c.exprs < MaxExprNodes THEN [c EXCEPT !.exprs = @ + 1] ELSE Reject(c)
-----------------------------------------------------------------------------
(* Expressions.                                                            *)

Precedence == << [equal_equal |-> "eq", bang_equal |-> "ne", less |-> "lt", less_equal |-> "le",
                  greater |-> "gt", greater_equal |-> "ge"],
                 [plus |-> "add", minus |-> "sub"],
                 [star |-> "mul", slash |-> "div"] >>

RECURSIVE ParseLevel(_, _), ParseMore(_, _), ParseUnary(_), ParseSelectors(_),
          ParseArgs(_, _), ParseInits(_, _)

ParseExpr(c) == ParseLevel(c, 1)

\* Operands of the next level, joined by operators of this one from the left.
\* The left operand moves into a node of its own before the right one has one.
ParseLevel(c, n) ==
    IF ~c.ok THEN c
    ELSE IF n > Len(Precedence) THEN ParseUnary(c)
    ELSE ParseMore(ParseLevel(c, n + 1), n)

\* Mutant: the right operand takes all that follows.
ParseMore_FromRight(c, n) ==
    IF ~c.ok \/ Kind(c) \notin DOMAIN Precedence[n] THEN c
    ELSE Then(ParseLevel(Alloc(Alloc(Advance(c))), n), LAMBDA r :
              Out(r, [kind |-> "binary", op |-> Precedence[n][Kind(c)], left |-> c.out, right |-> r.out]))

ParseMore(c, n) ==
    IF ~c.ok \/ Kind(c) \notin DOMAIN Precedence[n] THEN c
    ELSE Then(ParseLevel(Alloc(Alloc(Advance(c))), n + 1), LAMBDA r :
              ParseMore(Out(r, [kind |-> "binary", op |-> Precedence[n][Kind(c)],
                                left |-> c.out, right |-> r.out]), n))

\* Arguments up to the parenthesis, where a comma may stand before it too.
ParseArgs(c, args) ==
    IF ~c.ok \/ Kind(c) = "rparen" THEN Out(c, args)
    ELSE IF Len(args) >= MaxParams THEN Reject(c)
    ELSE Then(ParseExpr(Alloc(c)), LAMBDA a :
              IF At(a, "comma") THEN ParseArgs(Advance(a), Append(args, a.out))
              ELSE Out(a, Append(args, a.out)))

ParseInits(c, inits) ==
    IF ~c.ok \/ Kind(c) = "rparen" THEN Out(c, inits)
    ELSE IF Len(inits) >= MaxFields THEN Reject(c)
    ELSE Then(Name(c), LAMBDA n :
         Then(ParseExpr(Alloc(Expect(n, "equal"))), LAMBDA v :
              LET more == Append(inits, [name |-> n.out, value |-> v.out]) IN
              IF At(v, "comma") THEN ParseInits(Advance(v), more) ELSE Out(v, more)))

\* What the next two tokens of the lexer say: a name and an equals sign.
ParenStartsConstruct(c) ==
    Kind(Advance(c)) = "identifier" /\ Kind(Advance(Advance(c))) = "equal"

ParseCall(c, callee) ==
    Then(ParseArgs(Expect(c, "lparen"), <<>>), LAMBDA a :
         Out(Expect(a, "rparen"), [kind |-> "call", name |-> callee, args |-> a.out]))

ParseConstruct(c, type) ==
    Then(ParseInits(Expect(c, "lparen"), <<>>), LAMBDA i :
         Out(Expect(i, "rparen"), [kind |-> "structure", type |-> type, inits |-> i.out]))

\* At the parenthesis after a variant.
ParseChoiceConstruct(c, type, variant) ==
    LET in == Advance(c)
        choice(v, payload) ==
            Out(Expect(v, "rparen"), [kind |-> "choice", type |-> type, variant |-> variant, payload |-> payload])
    IN IF Kind(in) = "rparen" THEN choice(in, <<>>)
       ELSE Then(ParseExpr(Alloc(in)), LAMBDA v : choice(v, <<v.out>>))

\* What a word is depends on the token after it.
ParseNamed(c, word) ==
    IF word \in {"true", "false"} THEN Out(c, [kind |-> "bool", text |-> word])
    ELSE IF Kind(c) # "lparen" THEN Out(c, [kind |-> "name", name |-> word])
    ELSE IF ParenStartsConstruct(c) THEN ParseConstruct(c, word) ELSE ParseCall(c, word)

ParsePrimary(c) ==
    CASE Kind(c) = "int_literal" -> Out(Advance(c), [kind |-> "int", text |-> Text(c)])
      [] Kind(c) = "identifier"  -> ParseNamed(Advance(c), Text(c))
      [] Kind(c) = "lparen"      -> Expect(ParseExpr(Advance(c)), "rparen")
      [] OTHER                   -> Reject(c)

\* The names after dots.  One with a parenthesis after a name is a variant.
ParseSelectors(c) ==
    IF ~At(c, "dot") THEN c
    ELSE Then(Name(Advance(c)), LAMBDA m :
              ParseSelectors(IF c.out.kind = "name" /\ Kind(m) = "lparen"
                             THEN ParseChoiceConstruct(m, c.out.name, m.out)
                             ELSE Out(Alloc(m), [kind |-> "field", left |-> c.out, name |-> m.out])))

ParseUnary(c) ==
    IF ~At(c, "minus") THEN ParseSelectors(ParsePrimary(c))
    ELSE Then(Alloc(Advance(c)), LAMBDA d :
         Then(ParseUnary(d), LAMBDA e : Out(e, [kind |-> "negate", left |-> e.out])))
-----------------------------------------------------------------------------
(* Statements.                                                             *)

RECURSIVE ParseStmt(_), ParseStmts(_, _), ParseCases(_, _)

\* Mutant: the node of a nested statement is taken after it has been parsed.
ParseStmts_Late(c, count) ==
    IF ~c.ok \/ Kind(c) = "rbrace" THEN Out(c, count)
    ELSE IF Len(c.nodes) >= MaxStmtNodes THEN Reject(c)
    ELSE Then(ParseStmt(c), LAMBDA s : ParseStmts([s EXCEPT !.nodes = Append(@, s.out)], count + 1))

\* Each statement of a block takes a node and is parsed into it.
ParseStmts(c, count) ==
    IF ~c.ok \/ Kind(c) = "rbrace" THEN Out(c, count)
    ELSE IF Len(c.nodes) >= MaxStmtNodes THEN Reject(c)
    ELSE Then(ParseStmt([c EXCEPT !.nodes = Append(@, [kind |-> "invalid"])]), LAMBDA s :
              ParseStmts([s EXCEPT !.nodes[Len(c.nodes) + 1] = s.out], count + 1))

ParseBlock(c) ==
    Then(ParseStmts(Expect(c, "lbrace"), 0), LAMBDA b :
         Out(Expect(b, "rbrace"), [start |-> Len(c.nodes), count |-> b.out]))

\* The annotation after `is`, if there is one.
ParseAnnotation(c) == IF At(c, "kw_is") THEN Name(Advance(c)) ELSE Out(c, "")

ParseBinding(c) ==
    Then(Name(Advance(c)), LAMBDA n :
    Then(ParseAnnotation(n), LAMBDA t :
    Then(ParseExpr(Expect(t, "equal")), LAMBDA e :
         Out(e, [kind |-> "bind", name |-> n.out, type |-> t.out, expr |-> e.out,
                 mutable |-> Kind(c) = "kw_mutable"]))))

ParseAssignment(c) ==
    Then(ParseExpr(Expect(Name(c), "equal")), LAMBDA e :
         Out(e, [kind |-> "assign", name |-> Text(c), expr |-> e.out]))

ParseReturn(c) ==
    Then(ParseExpr(Advance(c)), LAMBDA e : Out(e, [kind |-> "return", expr |-> e.out]))

ParseWhile(c) ==
    Then(ParseExpr(Advance(c)), LAMBDA e :
    Then(ParseBlock(e), LAMBDA b :
         Out(b, [kind |-> "while", condition |-> e.out, body |-> b.out])))

ParseElse(c) ==
    IF At(c, "kw_else") THEN ParseBlock(Advance(c)) ELSE Out(c, [start |-> 0, count |-> 0])

ParseIf(c) ==
    Then(ParseExpr(Advance(c)), LAMBDA e :
    Then(ParseBlock(e), LAMBDA t :
    Then(ParseElse(t), LAMBDA f :
         Out(f, [kind |-> "if", expr |-> e.out, then |-> t.out, else |-> f.out]))))

\* The name in parentheses after a variant or a case, if there is one.
ParsePayload(c) ==
    IF ~At(c, "lparen") THEN Out(c, <<>>)
    ELSE Then(Name(Advance(c)), LAMBDA n : Out(Expect(n, "rparen"), <<n.out>>))

ParseCase(c) ==
    Then(Name(Expect(c, "kw_case")), LAMBDA v :
    Then(ParsePayload(v), LAMBDA p :
    Then(ParseBlock(p), LAMBDA b :
         Out(b, [variant |-> v.out, binding |-> p.out, body |-> b.out]))))

ParseCases(c, cases) ==
    IF ~c.ok \/ Kind(c) = "rbrace" THEN Out(c, cases)
    ELSE IF Len(cases) >= MaxVariants THEN Reject(c)
    ELSE Then(ParseCase(c), LAMBDA k : ParseCases(k, Append(cases, k.out)))

ParseMatch(c) ==
    Then(ParseExpr(Advance(c)), LAMBDA e :
    Then(ParseCases(Expect(e, "lbrace"), <<>>), LAMBDA k :
         Out(Expect(k, "rbrace"), [kind |-> "match", expr |-> e.out, cases |-> k.out])))

ParseStmt(c) ==
    CASE Kind(c) \in {"kw_bind", "kw_mutable"} -> ParseBinding(c)
      [] Kind(c) = "identifier" -> ParseAssignment(c)
      [] Kind(c) = "kw_return"  -> ParseReturn(c)
      [] Kind(c) = "kw_if"      -> ParseIf(c)
      [] Kind(c) = "kw_while"   -> ParseWhile(c)
      [] Kind(c) = "kw_match"   -> ParseMatch(c)
      [] OTHER                  -> Reject(c)
-----------------------------------------------------------------------------
(* Functions and type declarations.                                        *)

RECURSIVE ParseParams(_, _), ParseBody(_, _), ParseTypeParams(_, _),
          ParseFields(_, _), ParseVariants(_, _), ParseTypes(_, _), ParseFunctions(_, _)

\* A parameter or a field: name is type.
ParseTyped(c) ==
    Then(Name(c), LAMBDA n :
    Then(Name(Expect(n, "kw_is")), LAMBDA t : Out(t, [name |-> n.out, type |-> t.out])))

ParseParams(c, params) ==
    IF ~c.ok \/ Len(params) >= MaxParams THEN Reject(c)
    ELSE Then(ParseTyped(c), LAMBDA p :
              IF At(p, "comma") THEN ParseParams(Advance(p), Append(params, p.out))
              ELSE Out(p, Append(params, p.out)))

ParseBody(c, body) ==
    IF ~c.ok \/ Kind(c) = "rbrace" THEN Out(c, body)
    ELSE IF Len(body) >= MaxBodyStmts THEN Reject(c)
    ELSE Then(ParseStmt(c), LAMBDA s : ParseBody(s, Append(body, s.out)))

\* A function has pools of its own.
NewPools(c) == [c EXCEPT !.exprs = 0, !.nodes = <<>>]

ParseFunction(c) ==
    Then(Name(Expect(NewPools(c), "kw_function")), LAMBDA n :
    Then(Expect(n, "lparen"), LAMBDA in :
    Then(IF Kind(in) = "rparen" THEN Out(in, <<>>) ELSE ParseParams(in, <<>>), LAMBDA ps :
    Then(Name(Expect(Expect(ps, "rparen"), "kw_returns")), LAMBDA t :
    Then(ParseBody(Expect(t, "lbrace"), <<>>), LAMBDA b :
         Out(Expect(b, "rbrace"), [name |-> n.out, params |-> ps.out, returns |-> t.out,
                                   body |-> b.out, nodes |-> b.nodes]))))))

\* The names of a type's parameters, with or without commas between them.
ParseTypeParams(c, params) ==
    IF ~c.ok \/ Kind(c) = "rparen" THEN Out(c, params)
    ELSE IF Len(params) >= MaxParams THEN Reject(c)
    ELSE Then(Name(c), LAMBDA n :
              ParseTypeParams(IF At(n, "comma") THEN Advance(n) ELSE n, Append(params, n.out)))

ParseFields(c, fields) ==
    IF ~c.ok \/ Kind(c) = "rbrace" THEN Out(c, fields)
    ELSE IF Len(fields) >= MaxFields THEN Reject(c)
    ELSE Then(ParseTyped(c), LAMBDA f : ParseFields(f, Append(fields, f.out)))

ParseVariant(c) ==
    Then(Name(c), LAMBDA n :
    Then(ParsePayload(n), LAMBDA p :
         Out(p, [name |-> n.out, type |-> IF p.out = <<>> THEN "" ELSE p.out[1]])))

ParseVariants(c, variants) ==
    IF ~c.ok \/ Kind(c) = "rbrace" THEN Out(c, variants)
    ELSE IF Len(variants) >= MaxVariants THEN Reject(c)
    ELSE Then(ParseVariant(c), LAMBDA v : ParseVariants(v, Append(variants, v.out)))

ParseMembers(c) ==
    IF At(c, "kw_structure") THEN ParseFields(Expect(Advance(c), "lbrace"), <<>>)
    ELSE ParseVariants(Expect(Expect(c, "kw_choice"), "lbrace"), <<>>)

ParseTypeDecl(c) ==
    Then(Name(Expect(c, "kw_type")), LAMBDA n :
    Then(IF Kind(n) = "lparen"
         THEN Then(ParseTypeParams(Advance(n), <<>>), LAMBDA p : Expect(p, "rparen"))
         ELSE Out(n, <<>>), LAMBDA ps :
    Then(Expect(ps, "equal"), LAMBDA is :
    Then(ParseMembers(is), LAMBDA ms :
         Out(Expect(ms, "rbrace"), [name |-> n.out, params |-> ps.out, members |-> ms.out,
                                    choice |-> Kind(is) = "kw_choice"])))))
-----------------------------------------------------------------------------
(* The driver's loops (main.c): types, then functions, then the end.       *)

ParseTypes(c, types) ==
    IF ~At(c, "kw_type") THEN Out(c, types)
    ELSE IF Len(types) >= MaxTypes THEN Reject(c)
    ELSE Then(ParseTypeDecl(c), LAMBDA d : ParseTypes(d, Append(types, d.out)))

ParseFunctions(c, functions) ==
    IF ~At(c, "kw_function") THEN Out(c, functions)
    ELSE IF Len(functions) >= MaxFunctions THEN Reject(c)
    ELSE Then(ParseFunction(c), LAMBDA f : ParseFunctions(f, Append(functions, f.out)))

ParseProgram(c) ==
    Then(ParseTypes(c, <<>>), LAMBDA ts :
    Then(ParseFunctions(ts, <<>>), LAMBDA fs :
         IF At(fs, "eof") /\ fs.out # <<>>
         THEN Out(fs, [types |-> ts.out, functions |-> fs.out]) ELSE Reject(fs)))

ParserInit(ts) == [tokens |-> ts, at |-> 1, exprs |-> 0, nodes |-> <<>>, out |-> <<>>, ok |-> TRUE]
-----------------------------------------------------------------------------
(* The tree as the later passes read it: a block is `count` nodes from     *)
(* `start` on.                                                             *)

RECURSIVE ReadBlock(_, _)

ReadStmt(nodes, s) ==
    CASE s.kind = "if"    -> [s EXCEPT !.then = ReadBlock(nodes, @), !.else = ReadBlock(nodes, @)]
      [] s.kind = "while" -> [s EXCEPT !.body = ReadBlock(nodes, @)]
      [] s.kind = "match" ->
            [s EXCEPT !.cases = [i \in DOMAIN @ |-> [@[i] EXCEPT !.body = ReadBlock(nodes, @)]]]
      [] OTHER            -> s

ReadBlock(nodes, b) == [k \in 1 .. b.count |-> ReadStmt(nodes, nodes[b.start + k])]

ReadFunction(f) ==
    [name |-> f.name, params |-> f.params, returns |-> f.returns,
     body |-> [k \in DOMAIN f.body |-> ReadStmt(f.nodes, f.body[k])]]

ReadProgram(p) ==
    [p EXCEPT !.functions = [i \in DOMAIN @ |-> ReadFunction(@[i])]]
=============================================================================
