------------------------------ MODULE Resolve -------------------------------
(***************************************************************************)
(* Name resolution (resolve/scope.c): the walk over a function's syntax    *)
(* tree that makes the calls of module Scope, and the registry's lookup of *)
(* functions (semantics/registry.c).  It only says whether every name is   *)
(* known where it is used and new where it is bound; the depths that the   *)
(* walk writes into the tree are read by no later pass.                    *)
(*                                                                         *)
(* The context c is the scope stack: `names` are the ids of the symbols in *)
(* use, `starts` how many of them each open block found; ok is FALSE when  *)
(* the walk has failed.                                                    *)
(***************************************************************************)
EXTENDS Integers, Sequences

CONSTANTS MaxSymbols,   \* BEET_SCOPE_MAX_SYMBOLS
          MaxStack      \* BEET_SCOPE_MAX_STACK

LOCAL INSTANCE SequencesExt

Require(c, holds) == IF holds THEN c ELSE [c EXCEPT !.ok = FALSE]

EnterScope(c) ==
    IF c.ok /\ Len(c.starts) < MaxStack
    THEN [c EXCEPT !.starts = Append(@, Len(c.names))] ELSE Require(c, FALSE)

LeaveScope(c) ==
    [c EXCEPT !.names = SubSeq(@, 1, Last(c.starts)), !.starts = Front(@)]

InScope(c, n) == \E i \in DOMAIN c.names : c.names[i] = n

\* The name is not bound in the innermost block.
Unbound(c, n) == \A i \in Last(c.starts) + 1 .. Len(c.names) : c.names[i] # n

BindName(c, n) ==
    IF c.ok /\ Len(c.names) < MaxSymbols /\ Unbound(c, n)
    THEN [c EXCEPT !.names = Append(@, n)] ELSE Require(c, FALSE)

\* beet_decl_registry_find_function_index finds one.
Callable(p, n) == \E i \in DOMAIN p.functions : p.functions[i].name = n

\* Every name in the expression is bound, every callee is a function.
RECURSIVE Resolves(_, _, _)
Resolves(p, c, e) ==
    CASE e.kind \in {"int", "bool"} -> TRUE
      [] e.kind = "name"      -> InScope(c, e.name)
      [] e.kind = "call"      -> Callable(p, e.name) /\ \A i \in DOMAIN e.args : Resolves(p, c, e.args[i])
      [] e.kind = "construct" -> \A i \in DOMAIN e.values : Resolves(p, c, e.values[i])
      [] e.kind \in {"field", "negate"} -> Resolves(p, c, e.left)
      [] e.kind = "binary"    -> Resolves(p, c, e.left) /\ Resolves(p, c, e.right)

RECURSIVE ResolveStmts(_, _, _)

\* A block of its own; what is bound first is the payload of a case.
ResolveBlock(p, c, bound, stmts) ==
    LET in  == FoldLeft(BindName, EnterScope(c), bound)
        out == ResolveStmts(p, in, stmts)
    IN IF out.ok THEN LeaveScope(out) ELSE out

\* An else branch without statements opens no block.
ResolveElse(p, c, stmts) == IF stmts = <<>> THEN c ELSE ResolveBlock(p, c, <<>>, stmts)

ResolveBinding(p, c, s) == BindName(Require(c, Resolves(p, c, s.expr)), s.name)

ResolveStmt(p, c, s) ==
    CASE s.kind = "bind"   -> ResolveBinding(p, c, s)
      [] s.kind = "assign" -> Require(c, InScope(c, s.name) /\ Resolves(p, c, s.expr))
      [] s.kind = "return" -> Require(c, Resolves(p, c, s.expr))
      [] s.kind = "if"     ->
            ResolveElse(p, ResolveBlock(p, Require(c, Resolves(p, c, s.expr)), <<>>, s.then), s.else)
      [] s.kind = "while"  -> ResolveBlock(p, Require(c, Resolves(p, c, s.condition)), <<>>, s.body)
      [] s.kind = "match"  ->
            LET Case(d, k) == ResolveBlock(p, d, k.binding, k.body) IN
            FoldLeft(Case, Require(c, Resolves(p, c, s.expr)), s.cases)

ResolveStmts(p, c, stmts) ==
    LET Step(d, s) == IF d.ok THEN ResolveStmt(p, d, s) ELSE d IN FoldLeft(Step, c, stmts)

\* Parameters are bound in the block of the body.
ResolvesFunction(p, f) ==
    LET Param(c, q) == BindName(c, q.name)
        params == FoldLeft(Param, [ok |-> TRUE, names |-> <<>>, starts |-> <<0>>], f.params)
    IN ResolveStmts(p, params, f.body).ok

ResolvesProgram(p) == \A i \in DOMAIN p.functions : ResolvesFunction(p, p.functions[i])
=============================================================================
