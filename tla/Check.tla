------------------------------- MODULE Check --------------------------------
(***************************************************************************)
(* The type checker (types/check.c, types/types.c): declarations of types, *)
(* signatures of functions, and bodies, in which it keeps a list of typed  *)
(* locals of its own beside the resolver's scopes.                         *)
(*                                                                         *)
(* A type is a record [kind, name]: the builtin types differ in their      *)
(* kind, declared ones have the kind "named".  Names are looked up among   *)
(* the builtin types first.  The latest local is last in the list.         *)
(***************************************************************************)
EXTENDS Syntax

CONSTANT MaxLocalTypes   \* BEET_TYPE_CHECK_MAX_LOCALS

Builtins == {"Int", "Float", "Bool", "Unit"}
IntType  == [kind |-> "Int", name |-> "Int"]
BoolType == [kind |-> "Bool", name |-> "Bool"]
Invalid  == [kind |-> "invalid", name |-> ""]
Valid(t) == t # Invalid

\* The first declaration of the name, as a sequence of at most one.
FindType(p, n)     == Find(p.types, n)
FindFunction(p, n) == Find(p.functions, n)
FindMember(d, n)   == Find(d.members, n)

NamedType(n) == [kind |-> "named", name |-> n]

Type == {Invalid} \cup {[kind |-> n, name |-> n] : n \in Builtins} \cup [kind : {"named"}, name : STRING]

TypeNamed(p, n) ==
    IF n \in Builtins THEN [kind |-> n, name |-> n]
    ELSE IF FindType(p, n) # <<>> THEN NamedType(n) ELSE Invalid

\* The declaration behind a type; none behind a builtin one.
Declaration(p, t) == IF t.kind = "named" THEN FindType(p, t.name) ELSE <<>>

Distinct(s)      == \A i, j \in DOMAIN s : s[i] = s[j] => i = j
DistinctNames(s) == Distinct([i \in DOMAIN s |-> s[i].name])
-----------------------------------------------------------------------------
(* Declarations.                                                           *)

KnownIn(p, d, n) ==
    n \in Builtins \/ (\E i \in DOMAIN d.params : d.params[i] = n) \/ FindType(p, n) # <<>>

DeclarationOk(p, d) ==
    /\ Distinct(d.params)
    /\ DistinctNames(d.members)
    /\ \A i \in DOMAIN d.members :
          (d.choice /\ d.members[i].type = "") \/ KnownIn(p, d, d.members[i].type)

ChecksTypes(p) ==
    DistinctNames(p.types) /\ \A i \in DOMAIN p.types : DeclarationOk(p, p.types[i])

SignatureOk(p, f) ==
    Valid(TypeNamed(p, f.returns)) /\ \A i \in DOMAIN f.params : Valid(TypeNamed(p, f.params[i].type))

ChecksSignatures(p) == \A i \in DOMAIN p.functions : SignatureOk(p, p.functions[i])
-----------------------------------------------------------------------------
(* Expressions.  The function `types` gives the types of the parts.        *)

\* The search runs from the end of the list: the last local of that name.
FindLocal(locals, n) ==
    IF \E i \in DOMAIN locals : locals[i].name = n THEN <<locals[LastOf(locals, n)]>> ELSE <<>>

Arithmetic == {"add", "sub", "mul", "div"}

\* Mutant: arguments are not compared with the types of parameters.
CallType_AnyArguments(p, types, f, args) ==
    IF Len(args) = Len(f.params) /\ \A i \in DOMAIN args : Valid(types[args[i]])
    THEN TypeNamed(p, f.returns) ELSE Invalid

CallType(p, types, f, args) ==
    IF /\ Len(args) = Len(f.params)
       /\ \A i \in DOMAIN args : LET want == TypeNamed(p, f.params[i].type) IN
             Valid(want) /\ types[args[i]] = want
    THEN TypeNamed(p, f.returns) ELSE Invalid

\* The expression e is written for the member of declaration d of that name.
Suits(p, types, d, n, e) ==
    LET m == FindMember(d, n) IN
    m # <<>> /\ Valid(TypeNamed(p, m[1].type)) /\ types[e] = TypeNamed(p, m[1].type)

StructureType(p, types, d, names, values) ==
    IF /\ Len(names) = Len(d.members) /\ Len(values) = Len(names) /\ Distinct(names)
       /\ \A i \in DOMAIN names : Suits(p, types, d, names[i], values[i])
    THEN NamedType(d.name) ELSE Invalid

ChoiceType(p, types, d, names, values) ==
    LET v == FindMember(d, names[1]) IN
    IF /\ Len(names) = 1 /\ v # <<>>
       /\ IF v[1].type = "" THEN values = <<>>
          ELSE values # <<>> /\ Suits(p, types, d, names[1], values[1])
    THEN NamedType(d.name) ELSE Invalid

\* The declaration of the type decides what a construct is, not its spelling.
ConstructType(p, types, e) ==
    LET d == FindType(p, e.type) IN
    IF d = <<>> THEN Invalid
    ELSE IF d[1].choice THEN ChoiceType(p, types, d[1], e.names, e.values)
    ELSE StructureType(p, types, d[1], e.names, e.values)

FieldType(p, base, n) ==
    LET d == Declaration(p, base) IN
    IF d = <<>> \/ d[1].choice \/ FindMember(d[1], n) = <<>> THEN Invalid
    ELSE TypeNamed(p, FindMember(d[1], n)[1].type)

BinaryType(op, l, r) ==
    IF l.kind # "Int" \/ r.kind # "Int" THEN Invalid
    ELSE IF op \in Arithmetic THEN IntType ELSE BoolType

NegateType(t) == IF t.kind = "Int" THEN t ELSE Invalid

NameType(locals, n) ==
    IF FindLocal(locals, n) = <<>> THEN Invalid ELSE FindLocal(locals, n)[1].type

ExprType(p, locals, types, e) ==
    CASE e.kind = "int"    -> IntType
      [] e.kind = "bool"   -> BoolType
      [] e.kind = "name"   -> NameType(locals, e.name)
      [] e.kind = "call"   -> LET f == FindFunction(p, e.name) IN
                              IF f = <<>> THEN Invalid ELSE CallType(p, types, f[1], e.args)
      [] e.kind = "construct" -> ConstructType(p, types, e)
      [] e.kind = "field"  -> FieldType(p, types[e.left], e.name)
      [] e.kind = "negate" -> NegateType(types[e.left])
      [] e.kind = "binary" -> BinaryType(e.op, types[e.left], types[e.right])

TypeOf(p, locals, e) ==
    LET Types[x \in Expressions] == ExprType(p, locals, Types, x) IN Types[e]
-----------------------------------------------------------------------------
(* Statements.  The function `accepts` says of the blocks that a statement *)
(* contains whether they are accepted with a list of locals.  Each works   *)
(* on a copy of the list, which is dropped at its end.                     *)

TypedLocal == [name : STRING, type : Type, mutable : BOOLEAN]

WithLocal(locals, n, type, mutable) ==
    Append(locals, [name |-> n, type |-> type, mutable |-> mutable])

\* The annotation (`type`, "" without one) must name the type of the value.
BindingOk(p, locals, s) ==
    /\ Valid(TypeOf(p, locals, s.expr))
    /\ s.type = "" \/ TypeNamed(p, s.type) = TypeOf(p, locals, s.expr)
    /\ Len(locals) < MaxLocalTypes

AssignmentOk(p, locals, s) ==
    LET l == FindLocal(locals, s.name) IN
    l # <<>> /\ l[1].mutable /\ TypeOf(p, locals, s.expr) = l[1].type

\* A case of a match on the choice d.  A payload need not be bound.
CaseOk(p, accepts, locals, d, k) ==
    LET v == FindMember(d, k.variant) IN
    /\ v # <<>>
    /\ IF k.binding = <<>> THEN accepts[k.body][locals]
       ELSE LET payload == TypeNamed(p, v[1].type) IN
            /\ Valid(payload) /\ Len(locals) < MaxLocalTypes
            /\ accepts[k.body][WithLocal(locals, k.binding[1], payload, FALSE)]

\* The cases need not be exhaustive, but they must differ.
MatchOk(p, accepts, locals, s) ==
    LET d == Declaration(p, TypeOf(p, locals, s.expr)) IN
    /\ d # <<>> /\ d[1].choice /\ s.cases # <<>>
    /\ Distinct([i \in DOMAIN s.cases |-> s.cases[i].variant])
    /\ \A i \in DOMAIN s.cases : CaseOk(p, accepts, locals, d[1], s.cases[i])

StmtOk(p, returns, accepts, locals, s) ==
    CASE s.kind = "bind"   -> BindingOk(p, locals, s)
      [] s.kind = "assign" -> AssignmentOk(p, locals, s)
      [] s.kind = "return" -> TypeOf(p, locals, s.expr) = returns
      [] s.kind = "if"     -> /\ TypeOf(p, locals, s.expr).kind = "Bool"
                              /\ accepts[s.then][locals] /\ accepts[s.else][locals]
      [] s.kind = "while"  -> /\ TypeOf(p, locals, s.condition).kind = "Bool"
                              /\ accepts[s.body][locals]
      [] s.kind = "match"  -> MatchOk(p, accepts, locals, s)

LocalsAfter(p, locals, s) ==
    IF s.kind = "bind" THEN WithLocal(locals, s.name, TypeOf(p, locals, s.expr), s.mutable)
    ELSE locals

BlockOk(p, returns, accepts, locals, b) ==
    b # <<>> => /\ StmtOk(p, returns, accepts, locals, b[1])
                /\ accepts[Tail(b)][LocalsAfter(p, locals, b[1])]

CheckStmts(p, returns, locals, b) ==
    LET Accepts[x \in Blocks] ==
            [l \in Seq(TypedLocal) |-> BlockOk(p, returns, Accepts, l, x)]
    IN Accepts[b][locals]

LocalOf(p, q) == [name |-> q.name, type |-> TypeNamed(p, q.type), mutable |-> FALSE]

ChecksBody(p, f) ==
    /\ SignatureOk(p, f)
    /\ Len(f.params) <= MaxLocalTypes
    /\ CheckStmts(p, TypeNamed(p, f.returns), [i \in DOMAIN f.params |-> LocalOf(p, f.params[i])],
                  f.body)

ChecksBodies(p) == \A i \in DOMAIN p.functions : ChecksBody(p, p.functions[i])
=============================================================================
