------------------------------- MODULE Source -------------------------------
(***************************************************************************)
(* What a Beet program means, in terms of its syntax tree: names are those *)
(* of the innermost binding, a block's bindings end with it, structures    *)
(* and choices are values.  Every value carries its type, and whatever has *)
(* no meaning goes "wrong": the checker exists to refuse it.  The          *)
(* repository has no such evaluator; this is the reference for the whole   *)
(* compiler (Pipeline).                                                    *)
(*                                                                         *)
(* A call works on its blocks, the innermost last: the statements that are *)
(* left of each, and how much of the environment was there before it.  The *)
(* statement that is next begins with an expression.  Its parts are        *)
(* evaluated first, from left to right; an expression has no effect but    *)
(* its value, so that one that is written twice is evaluated once.         *)
(***************************************************************************)
EXTENDS Syntax

CONSTANT MaxDepth    \* the calls that may be active at once

VARIABLES source,    \* the program
          calls,     \* the calls that are active, the innermost last
          outcome    \* what has come of it

sourceVars == <<source, calls, outcome>>

Latest(s) == s[Len(s)]
Older(s)  == SubSeq(s, 1, Len(s) - 1)

Unknown == [how |-> "unknown"]
Runs    == [how |-> "runs"]
Wrong   == [how |-> "wrong"]
Failed  == [how |-> "failed"]
Returned(v) == [how |-> "returned", value |-> v]

Number(v) == [type |-> "Int", value |-> v]
Truth(v)  == [type |-> "Bool", value |-> v]
Bound(n, v, m) == [name |-> n, value |-> v, mutable |-> m]

Begins(b, n) == [rest |-> b, keep |-> n]
Nothing == [e \in {} |-> 0]

\* A call of f: `focus` are the expressions under evaluation, each a part of
\* the one before, `done` the values of those that have one.
Activation(f, args) ==
    [returns |-> f.returns,
     env     |-> [i \in DOMAIN args |-> Bound(f.params[i].name, args[i], FALSE)],
     blocks  |-> <<Begins(f.body, Len(args))>>,
     focus   |-> <<>>,
     done    |-> Nothing]

call  == Latest(calls)
block == Latest(call.blocks)
stmt  == block.rest[1]
expr  == Latest(call.focus)

Going == outcome = Runs
InExpression == Going /\ call.focus # <<>>

\* The expressions that come before the one in focus, or before the statement.
Before == IF call.focus # <<>> THEN Parts(expr) ELSE <<Subject(stmt)>>
Missing == {i \in DOMAIN Before : Before[i] \notin DOMAIN call.done}

GoesOn(c)  == calls' = [calls EXCEPT ![Len(calls)] = c] /\ UNCHANGED <<source, outcome>>
EndsAs(how) == outcome' = how /\ UNCHANGED <<source, calls>>
-----------------------------------------------------------------------------
(* Expressions.                                                            *)

\* The leftmost part that has no value yet.
Descend ==
    /\ Going
    /\ call.focus # <<>> \/ block.rest # <<>>
    /\ \E i \in Missing : /\ \A j \in Missing : i <= j
                          /\ GoesOn([call EXCEPT !.focus = Append(@, Before[i])])

\* The values that the call c has for these expressions.
ValuesOf(c, es) == [i \in DOMAIN es |-> c.done[es[i]]]

\* The call c, where the expression in focus has the value v.
Evaluated(c, v) ==
    [c EXCEPT !.focus = Older(@),
              !.done = [e \in DOMAIN @ \cup {Latest(c.focus)} |->
                           IF e = Latest(c.focus) THEN v ELSE @[e]]]

Compares(op) == op \in {"eq", "ne", "lt", "le", "gt", "ge"}

Operate(op, l, r) ==
    IF l.type # "Int" \/ r.type # "Int" THEN Wrong
    ELSE IF op = "div" /\ r.value = 0 THEN Failed
    ELSE LET w == Apply(op, l.value, r.value) IN
         Returned(IF Compares(op) THEN Truth(w) ELSE Number(w))

\* A structure has exactly the fields of its type, each with a value of its type.
Build(d, names, values) ==
    LET given  == {names[i] : i \in DOMAIN names}
        fields == [n \in given |-> values[CHOOSE i \in DOMAIN names : names[i] = n]]
    IN IF /\ Len(names) = Len(d.members) /\ Len(values) = Len(names)
          /\ given = {d.members[k].name : k \in DOMAIN d.members}
          /\ \A k \in DOMAIN d.members : fields[d.members[k].name].type = d.members[k].type
       THEN Returned([type |-> d.name, fields |-> fields]) ELSE Wrong

\* A choice is one of its variants, with a payload of its type if it has one.
Choose(d, names, payload) ==
    IF /\ Len(names) = 1
       /\ \E k \in DOMAIN d.members :
             /\ d.members[k].name = names[1]
             /\ IF payload = <<>> THEN d.members[k].type = ""
                ELSE payload[1].type = d.members[k].type
    THEN Returned([type |-> d.name, variant |-> names[1], payload |-> payload]) ELSE Wrong

Make(p, type, names, values) ==
    LET d == Find(p.types, type) IN
    IF d = <<>> THEN Wrong
    ELSE IF d[1].choice THEN Choose(d[1], names, values) ELSE Build(d[1], names, values)

Select(v, n) ==
    IF "fields" \in DOMAIN v /\ n \in DOMAIN v.fields THEN Returned(v.fields[n]) ELSE Wrong

Lookup(env, n) ==
    IF \E i \in DOMAIN env : env[i].name = n THEN Returned(env[LastOf(env, n)].value) ELSE Wrong

\* What the expression e comes to in the call c, given the values of its parts.
Value(p, c, e) ==
    CASE e.kind = "int"    -> Returned(Number(e.value))
      [] e.kind = "bool"   -> Returned(Truth(Bool(e.value)))
      [] e.kind = "name"   -> Lookup(c.env, e.name)
      [] e.kind = "negate" -> Operate("sub", Number(0), c.done[e.left])
      [] e.kind = "binary" -> Operate(e.op, c.done[e.left], c.done[e.right])
      [] e.kind = "field"  -> Select(c.done[e.left], e.name)
      [] e.kind = "construct" -> Make(p, e.type, e.names, ValuesOf(c, e.values))

Evaluate ==
    /\ InExpression /\ Missing = {} /\ expr.kind # "call"
    /\ LET came == Value(source, call, expr) IN
       \/ came.how = "returned" /\ GoesOn(Evaluated(call, came.value))
       \/ came.how # "returned" /\ EndsAs(came)

Takes(f, args) ==
    Len(args) = Len(f.params) /\ \A i \in DOMAIN args : args[i].type = f.params[i].type

\* A call too deep fails.
Enter ==
    /\ InExpression /\ Missing = {} /\ expr.kind = "call"
    /\ LET f == Find(source.functions, expr.name)
           args == ValuesOf(call, expr.args)
       IN \/ (f = <<>> \/ ~Takes(f[1], args)) /\ EndsAs(Wrong)
          \/ f # <<>> /\ Takes(f[1], args) /\ Len(calls) >= MaxDepth /\ EndsAs(Failed)
          \/ /\ f # <<>> /\ Takes(f[1], args) /\ Len(calls) < MaxDepth
             /\ calls' = Append(calls, Activation(f[1], args))
             /\ UNCHANGED <<source, outcome>>
-----------------------------------------------------------------------------
(* Statements.  The expression that the statement begins with has a value. *)

AtStatement(kind) ==
    /\ Going /\ call.focus = <<>> /\ block.rest # <<>> /\ Missing = {}
    /\ stmt.kind = kind

value == call.done[Subject(stmt)]

\* The call c with the statement behind it, and these bindings.
Past(c, env) ==
    [c EXCEPT !.env = env, !.done = Nothing,
                 !.blocks = Append(Older(@), Begins(Tail(Latest(@).rest), Latest(@).keep))]

\* The call c enters a block that begins with these bindings.
Into(c, own, b) ==
    [c EXCEPT !.env = @ \o own, !.done = Nothing,
              !.blocks = Append(@, Begins(b, Len(c.env)))]

Binds ==
    /\ AtStatement("bind")
    /\ \/ stmt.type \notin {"", value.type} /\ EndsAs(Wrong)
       \/ /\ stmt.type \in {"", value.type}
          /\ GoesOn(Past(call, Append(call.env, Bound(stmt.name, value, stmt.mutable))))

Assigns ==
    /\ AtStatement("assign")
    /\ LET bound == \E i \in DOMAIN call.env : call.env[i].name = stmt.name
           i == LastOf(call.env, stmt.name)
           fits == call.env[i].mutable /\ call.env[i].value.type = value.type
       IN \/ ~(bound /\ fits) /\ EndsAs(Wrong)
          \/ bound /\ fits /\ GoesOn(Past(call, [call.env EXCEPT ![i].value = value]))

Branches ==
    /\ AtStatement("if")
    /\ \/ value.type # "Bool" /\ EndsAs(Wrong)
       \/ /\ value.type = "Bool"
          /\ GoesOn(Into(Past(call, call.env), <<>>, IF value.value = 0 THEN stmt.else ELSE stmt.then))

\* The loop stays the next statement while its condition holds.
Loops ==
    /\ AtStatement("while")
    /\ \/ value.type # "Bool" /\ EndsAs(Wrong)
       \/ value.type = "Bool" /\ value.value = 0 /\ GoesOn(Past(call, call.env))
       \/ value.type = "Bool" /\ value.value # 0 /\ GoesOn(Into(call, <<>>, stmt.body))

\* The case of the variant runs; if there is none, the match does nothing.
Matches ==
    /\ AtStatement("match")
    /\ \/ "variant" \notin DOMAIN value /\ EndsAs(Wrong)
       \/ /\ "variant" \in DOMAIN value
          /\ \A i \in DOMAIN stmt.cases : stmt.cases[i].variant # value.variant
          /\ GoesOn(Past(call, call.env))
       \/ /\ "variant" \in DOMAIN value
          /\ \E i \in DOMAIN stmt.cases :
             LET k == stmt.cases[i] IN
             /\ k.variant = value.variant
             /\ \A j \in DOMAIN stmt.cases : stmt.cases[j].variant = k.variant => i <= j
             /\ \/ Len(k.binding) > Len(value.payload) /\ EndsAs(Wrong)
                \/ /\ Len(k.binding) <= Len(value.payload)
                   /\ GoesOn(Into(Past(call, call.env),
                                  [n \in DOMAIN k.binding |-> Bound(k.binding[n], value.payload[n], FALSE)],
                                  k.body))

\* The value goes to the call behind, which was waiting for it.
Replies ==
    /\ AtStatement("return")
    /\ \/ value.type # call.returns /\ EndsAs(Wrong)
       \/ value.type = call.returns /\ Len(calls) = 1 /\ EndsAs(Returned(value))
       \/ /\ value.type = call.returns /\ Len(calls) > 1
          /\ calls' = Append(Older(Older(calls)), Evaluated(Latest(Older(calls)), value))
          /\ UNCHANGED <<source, outcome>>

\* What a block binds is gone at its end.  A function that ends without a
\* return fails.
EndBlock ==
    /\ Going /\ call.focus = <<>> /\ block.rest = <<>>
    /\ \/ Len(call.blocks) = 1 /\ EndsAs(Failed)
       \/ /\ Len(call.blocks) > 1
          /\ GoesOn([call EXCEPT !.env = SubSeq(@, 1, block.keep), !.blocks = Older(@)])
-----------------------------------------------------------------------------
\* Nothing has come of the program yet.
AtRest == calls = <<>> /\ outcome = Unknown

\* The function main is called.
Begin ==
    /\ calls' = <<Activation(Find(source.functions, "main")[1], <<>>)>>
    /\ outcome' = Runs
    /\ UNCHANGED source

SourceNext ==
    \/ Descend \/ Evaluate \/ Enter
    \/ Binds \/ Assigns \/ Branches \/ Loops \/ Matches \/ Replies \/ EndBlock

Over == outcome.how \in {"returned", "failed", "wrong"}
=============================================================================
