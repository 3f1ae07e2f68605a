------------------------------- MODULE Lower --------------------------------
(***************************************************************************)
(* From the syntax tree to the middle representation (mir/mir.c): fresh    *)
(* temporaries for the values of expressions, fresh labels for branches,   *)
(* and a local for each scalar part of a variable, found by its name in    *)
(* one flat table for the whole function.  The name of a part is the path  *)
(* to it, a sequence of identifiers where the code joins them with dots.   *)
(*                                                                         *)
(* The checker (Check) has accepted the program and has left the declared  *)
(* types that it found in the tree.  Each operator takes the lowering      *)
(* context c and yields the next one:                                      *)
(*    name, param_count, instrs, locals   the MIR function being built     *)
(*    program  the program                                                 *)
(*    checked  the checker's locals, from which it had those types         *)
(*    temps, labels  how many of each it has                               *)
(*    types    the declared types of the variables in scope, latest last   *)
(*    temp     the temporary that holds the last value                     *)
(*    ok       FALSE when the lowering has failed                          *)
(*    asserts  FALSE when an assertion has failed, for builds that have    *)
(*             them; without them the lowering goes on                     *)
(***************************************************************************)
EXTENDS Check

CONSTANTS MaxInstrs,   \* BEET_MIR_MAX_INSTRS
          MirLocals,   \* BEET_MIR_MAX_LOCALS
          MaxParts     \* how many identifiers BEET_MIR_MAX_NAME_LEN leaves room for

LOCAL INSTANCE SequencesExt

Fail(c) == [c EXCEPT !.ok = FALSE]

Add(c, ins) ==
    IF c.ok /\ Len(c.instrs) < MaxInstrs
    THEN [c EXCEPT !.instrs = Append(@, ins)] ELSE Fail(c)

\* An instruction whose result goes to the next temporary.
AddTemp(c, ins) == [Add(c, ins) EXCEPT !.temp = c.temps, !.temps = @ + 1]

AddConst(c, v)        == AddTemp(c, [op |-> "const_int", dst |-> c.temps, value |-> v])
AddLoad(c, path)      == AddTemp(c, [op |-> "load_local", dst |-> c.temps, name |-> path])
AddCall(c, f, args)   == AddTemp(c, [op |-> "call", dst |-> c.temps, name |-> f, args |-> args])
\* Mutant: the operands are swapped.
AddBinary_Swapped(c, op, l, r) == AddTemp(c, [op |-> op, dst |-> c.temps, lhs |-> r, rhs |-> l])
AddBinary(c, op, l, r) == AddTemp(c, [op |-> op, dst |-> c.temps, lhs |-> l, rhs |-> r])

AddStore(c, path, t)  == Add(c, [op |-> "store_local", dst |-> t, name |-> path])
AddLabel(c, l)        == Add(c, [op |-> "label", value |-> l])
AddJump(c, l)         == Add(c, [op |-> "jump", value |-> l])
AddJumpIfFalse(c, t, l) == Add(c, [op |-> "jump_if_false", dst |-> t, value |-> l])

NextLabel(c) == [c EXCEPT !.labels = @ + 1]

\* The entries of parameters have no id and are not found.
HasLocal(c, path) == \E i \in c.param_count + 1 .. Len(c.locals) : c.locals[i] = path

\* A comparison with a missing id fails an assertion (intern.c).
Compared(c) == [c EXCEPT !.asserts = @ /\ (c.ok => c.param_count = 0)]

Reserve(c, path) ==
    IF HasLocal(c, path) THEN Compared(c)
    ELSE IF Len(c.locals) < MirLocals THEN [Compared(c) EXCEPT !.locals = Append(@, path)]
    ELSE Fail(Compared(c))

AddBind(c, path, t) ==
    IF Len(c.instrs) >= MaxInstrs THEN Fail(c)
    ELSE Add(Reserve(c, path), [op |-> "bind_local", dst |-> t, name |-> path])
-----------------------------------------------------------------------------
(* Variables with parts.  A choice has a tag and room for each payload.    *)
(* What is not declared, a builtin type or a parameter of a type, is       *)
(* taken for a scalar.                                                     *)

Tag == "tag"
Scalar(c, type) == FindType(c.program, type) = <<>>
Members(c, type) == FindType(c.program, type)[1].members
IsChoice(c, type) == ~Scalar(c, type) /\ FindType(c.program, type)[1].choice
Stored(c, type) == SelectSeq(Members(c, type), LAMBDA m : m.type # "")

\* The path of a part must fit in the buffer for names: this is what ends the
\* descent into a type that contains itself.
Fits(path) == Len(path) <= MaxParts

RECURSIVE ReserveTyped(_, _, _), Copy(_, _, _, _)

ReserveTyped(c, path, type) ==
    IF ~c.ok \/ ~Fits(path) THEN Fail(c)
    ELSE IF Scalar(c, type) THEN Reserve(c, path)
    ELSE LET Part(d, m) == ReserveTyped(d, Append(path, m.name), m.type) IN
         FoldLeft(Part, IF IsChoice(c, type) THEN ReserveTyped(c, Append(path, Tag), "") ELSE c,
                  Stored(c, type))

CopyScalar(c, dst, src) == LET d == AddLoad(c, src) IN AddBind(d, dst, d.temp)

Copy(c, dst, src, type) ==
    IF ~c.ok \/ ~Fits(dst) \/ ~Fits(src) THEN Fail(c)
    ELSE IF Scalar(c, type) THEN CopyScalar(c, dst, src)
    ELSE LET Part(d, m) == Copy(d, Append(dst, m.name), Append(src, m.name), m.type) IN
         FoldLeft(Part, IF IsChoice(c, type) THEN Copy(c, Append(dst, Tag), Append(src, Tag), "")
                        ELSE c,
                  Stored(c, type))

\* The index of a variant in the declaration of its type.
VariantIndex(c, type, v) ==
    (CHOOSE i \in DOMAIN Members(c, type) : Members(c, type)[i].name = v) - 1
-----------------------------------------------------------------------------
(* Expressions.                                                            *)

IsConstruct(e) == e.kind = "construct"

\* A field of a construct that is written out stands for its initializer, as a
\* sequence of at most one expression.
RECURSIVE Written(_)
Written(e) ==
    IF IsConstruct(e) THEN <<e>>
    ELSE IF e.kind # "field" THEN <<>>
    ELSE LET base == Written(e.left) IN
         IF base = <<>> \/ ~IsConstruct(base[1]) THEN <<>>
         ELSE LET hits == {i \in DOMAIN base[1].values : base[1].names[i] = e.name} IN
              IF hits = {} THEN <<>> ELSE <<base[1].values[CHOOSE i \in hits : \A j \in hits : i <= j]>>

\* The path of a field of a variable; empty if it is not one.
RECURSIVE Path(_)
Path(e) ==
    CASE e.kind = "name"  -> <<e.name>>
      [] e.kind = "field" -> IF Path(e.left) = <<>> THEN <<>> ELSE Append(Path(e.left), e.name)
      [] OTHER -> <<>>

RECURSIVE LowerExpr(_, _), LowerInto(_, _, _), LowerStmts(_, _)

LowerArgs(c, es) ==
    LET Arg(r, e) == LET d == LowerExpr(r.c, e) IN [c |-> d, args |-> Append(r.args, d.temp)]
    IN FoldLeft(Arg, [c |-> c, args |-> <<>>], es)

LowerField(c, e) ==
    IF Written(e) # <<>> THEN LowerExpr(c, Written(e)[1])
    ELSE IF Path(e) # <<>> /\ Fits(Path(e)) THEN AddLoad(c, Path(e)) ELSE Fail(c)

LowerExpr(c, e) ==
    CASE e.kind = "int"    -> AddConst(c, e.value)
      [] e.kind = "bool"   -> AddConst(c, IF e.value THEN 1 ELSE 0)
      [] e.kind = "name"   -> AddLoad(c, <<e.name>>)
      [] e.kind = "call"   -> LET r == LowerArgs(c, e.args) IN AddCall(r.c, e.name, r.args)
      [] e.kind = "field"  -> LowerField(c, e)
      [] e.kind = "negate" -> LET zero == AddConst(c, 0)
                                  d == LowerExpr(zero, e.left)
                              IN AddBinary(d, "sub", zero.temp, d.temp)
      [] e.kind = "binary" -> LET l == LowerExpr(c, e.left)
                                  r == LowerExpr(l, e.right)
                              IN AddBinary(r, e.op, l.temp, r.temp)
      [] OTHER -> Fail(c)

\* A value that is bound to a variable is lowered into its parts, that of a
\* choice behind its tag.
LowerInto(c, path, e) ==
    IF ~IsConstruct(e) THEN LET d == LowerExpr(c, e) IN AddBind(d, path, d.temp)
    ELSE LET Init(d, i) == LowerInto(d, Append(path, e.names[i]), e.values[i])
             room == ReserveTyped(c, path, e.type)
             tagged == AddConst(room, VariantIndex(c, e.type, e.names[1]))
         IN FoldLeft(Init, IF IsChoice(c, e.type)
                           THEN AddBind(tagged, Append(path, Tag), tagged.temp) ELSE room,
                     [i \in DOMAIN e.values |-> i])
-----------------------------------------------------------------------------
(* Statements.                                                             *)

BindType(c, n, type) ==
    IF Len(c.types) < MirLocals
    THEN [c EXCEPT !.types = Append(@, [name |-> n, type |-> type])] ELSE Fail(c)

\* Mutant: only annotated bindings are remembered.
RegisterBinding_Annotated(c, s) == IF s.type = "" THEN c ELSE BindType(c, s.name, s.type)

\* The declared type that the checker has left at the expression, "" if none.
ResolvedType(c, e) ==
    LET t == TypeOf(c.program, c.checked, e) IN IF t.kind = "named" THEN t.name ELSE ""

\* The type that the lowering knows of a binding: the annotation (`type`, ""
\* without one), a declared type of the expression, or that of a literal.
RegisterBinding(c, s) ==
    IF s.type # "" THEN BindType(c, s.name, s.type)
    ELSE IF ResolvedType(c, s.expr) # "" THEN BindType(c, s.name, ResolvedType(c, s.expr))
    ELSE IF s.expr.kind = "int" THEN BindType(c, s.name, "Int")
    ELSE IF s.expr.kind = "bool" THEN BindType(c, s.name, "Bool")
    ELSE c

\* What is known of types after a block is what was known before it.
Leave(c, outer) == [c EXCEPT !.types = outer.types, !.checked = outer.checked]

LowerBlock(c, stmts) == Leave(LowerStmts(c, stmts), c)

LowerReturn(c, e) ==
    CASE e.kind = "int"  -> Add(c, [op |-> "return_const_int", value |-> e.value])
      [] e.kind = "bool" -> Add(c, [op |-> "return_const_int",
                                    value |-> IF e.value THEN 1 ELSE 0])
      [] e.kind = "name" -> Add(c, [op |-> "return_local", name |-> <<e.name>>])
      [] OTHER -> LET d == LowerExpr(c, e) IN Add(d, [op |-> "return_temp", dst |-> d.temp])

\* The else branch, at its label; there is a jump over it only if it has statements.
LowerElse(c, else, stmts) ==
    IF stmts = <<>> THEN AddLabel(c, else)
    ELSE AddLabel(LowerBlock(AddLabel(AddJump(NextLabel(c), c.labels), else), stmts), c.labels)

LowerIf(c, s) ==
    LET cond == LowerExpr(c, s.expr)
        then == LowerBlock(AddJumpIfFalse(NextLabel(cond), cond.temp, cond.labels), s.then)
    IN LowerElse(then, cond.labels, s.else)

\* Mutant: the condition is evaluated once, before the loop.
LowerWhile_Once(c, s) ==
    LET start == c.labels
        end   == c.labels + 1
        cond  == AddLabel(LowerExpr(NextLabel(NextLabel(c)), s.condition), start)
        body  == LowerBlock(AddJumpIfFalse(cond, cond.temp, end), s.body)
    IN AddLabel(AddJump(body, start), end)

LowerWhile(c, s) ==
    LET start == c.labels
        end   == c.labels + 1
        cond  == LowerExpr(AddLabel(NextLabel(NextLabel(c)), start), s.condition)
        body  == LowerBlock(AddJumpIfFalse(cond, cond.temp, end), s.body)
    IN AddLabel(AddJump(body, start), end)

\* The type of the innermost variable of that name whose type is known.
KnownType(c, n) ==
    LET hits == SelectSeq(c.types, LAMBDA b : b.name = n) IN
    IF hits = <<>> THEN "" ELSE hits[Len(hits)].type

\* The payload that a case binds: copied from the parts of the variable that
\* is matched, or lowered from the construct that is.
BindPayload(c, e, type, case) ==
    LET payload == Members(c, type)[VariantIndex(c, type, case.variant) + 1].type
        n == case.binding[1]
        d == IF e.kind = "name" THEN Copy(c, <<n>>, <<e.name, case.variant>>, payload)
             ELSE IF e.values = <<>> THEN Fail(c)
             ELSE LowerInto(c, <<n>>, e.values[1])
        known == WithLocal(c.checked, n, TypeNamed(c.program, payload), FALSE)
    IN IF case.binding = <<>> THEN c
       ELSE IF payload = "" THEN Fail(c) ELSE [BindType(d, n, payload) EXCEPT !.checked = known]

\* The type of what is matched; "" if it is neither a construct nor a variable.
MatchedType(c, e) ==
    CASE IsConstruct(e)  -> e.type
      [] e.kind = "name" -> KnownType(c, e.name)
      [] OTHER -> ""

MatchedTag(c, e, type) ==
    IF IsConstruct(e) THEN AddConst(c, VariantIndex(c, type, e.names[1]))
    ELSE AddLoad(c, <<e.name, Tag>>)

\* A case: the temporary `tag` is compared, the body jumps to `end`.
LowerCase(c, e, type, tag, end, case) ==
    LET this == AddConst(c, VariantIndex(c, type, case.variant))
        same == AddBinary(this, "eq", tag, this.temp)
        in   == AddJumpIfFalse(NextLabel(same), same.temp, same.labels)
        body == LowerStmts(BindPayload(in, e, type, case), case.body)
    IN AddLabel(AddJump(Leave(body, c), end), same.labels)

LowerCases(tag, e, type, cases) ==
    LET Case(d, case) == LowerCase(d, e, type, tag.temp, tag.labels, case) IN
    AddLabel(FoldLeft(Case, NextLabel(tag), cases), tag.labels)

LowerMatch(c, s) ==
    LET type == MatchedType(c, s.expr) IN
    IF ~IsChoice(c, type) THEN Fail(c)
    ELSE LowerCases(MatchedTag(c, s.expr, type), s.expr, type, s.cases)

LowerStmt(c, s) ==
    CASE s.kind = "bind"   -> RegisterBinding(LowerInto(c, <<s.name>>, s.expr), s)
      [] s.kind = "assign" -> LET d == LowerExpr(c, s.expr) IN AddStore(d, <<s.name>>, d.temp)
      [] s.kind = "return" -> LowerReturn(c, s.expr)
      [] s.kind = "if"     -> LowerIf(c, s)
      [] s.kind = "while"  -> LowerWhile(c, s)
      [] s.kind = "match"  -> LowerMatch(c, s)

LowerStmts(c, stmts) ==
    LET Next(d, s) == [LowerStmt(d, s) EXCEPT !.checked = LocalsAfter(d.program, d.checked, s)] IN
    FoldLeft(Next, c, stmts)

\* A new function.  Parameters are entered in the table without asking whether
\* they are there.
RegisterParams(p, f) ==
    [program |-> p, checked |-> [i \in DOMAIN f.params |-> LocalOf(p, f.params[i])],
     name |-> f.name, param_count |-> Len(f.params),
     locals |-> [i \in DOMAIN f.params |-> <<f.params[i].name>>],
     instrs |-> <<>>, temps |-> 0, labels |-> 0, types |-> f.params, temp |-> 0,
     ok |-> Len(f.params) <= MirLocals, asserts |-> TRUE]

LowerFunction(p, f) == LowerStmts(RegisterParams(p, f), f.body)

LowerProgram(p) ==
    LET Lowered(mir, f) == Append(mir, LowerFunction(p, f)) IN
    FoldLeft(Lowered, <<>>, p.functions)
Lowers(mir) == \A i \in DOMAIN mir : mir[i].ok

\* A function whose lowering fails ends the compiler in good order before a
\* later one can fail an assertion.
Aborts(mir) == \E i \in DOMAIN mir : ~mir[i].asserts /\ \A j \in 1 .. i - 1 : mir[j].ok
=============================================================================
