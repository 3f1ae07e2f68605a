------------------------------- MODULE Slots --------------------------------
(***************************************************************************)
(* Where the values of names live.  The resolver (module Scope) gives each *)
(* use of a name the innermost binding; the lowering to MIR (mir.c) keeps  *)
(* one flat table of local names for the whole function, in which a        *)
(* binding finds or reserves an entry by name; code generation turns a     *)
(* name into the index of the first entry that has it; the machine keeps   *)
(* one value for each index.                                               *)
(*                                                                         *)
(* Between the two the type checker (check.c) walks the same statements    *)
(* with a list of locals of its own: each block gets a copy of the list    *)
(* around it, where the resolver cuts one array back.                      *)
(*                                                                         *)
(* The passes run one after the other over the whole function; here they   *)
(* walk it together, a statement at a time, along a path that executes     *)
(* each block it opens.  Nothing a later statement adds to the table       *)
(* changes the first entry of a name that an earlier one found.  A case    *)
(* that binds its payload is a block whose first statement binds it.       *)
(*                                                                         *)
(* `given` is an auxiliary variable: the value last given to the binding   *)
(* with that index in the array of symbols, which is what the source means.*)
(***************************************************************************)
EXTENDS Scope, Sequences

CONSTANTS MirLocals,    \* BEET_MIR_MAX_LOCALS
          Values,       \* what a local may hold
          MirName,      \* the name the table keeps: cut to 63 characters
          CheckLocals,  \* BEET_TYPE_CHECK_MAX_LOCALS
          NULL,         \* an id that is no name
          Shadowing     \* do programs bind a name that is still visible?

ASSUME SlotsAssumption ==
    MirLocals \in Nat /\ CheckLocals \in Nat /\ NULL \notin Names /\ Values # {}

VARIABLES locals,   \* the table: [id, name], in the order of the indexes
          store,    \* the machine's locals, by index
          typed,    \* the checker's lists of [id, is_mutable], one for each open block
          given,
          stage     \* "params", "body" or "failed"

slotVars == <<locals, store, typed, given, stage>>

\* A parameter's entry has no id: only its name is copied.
NoId == NULL

SlotIndexes == 1 .. MirLocals

SlotsInit ==
    /\ Init
    /\ locals = <<>>
    /\ store \in [SlotIndexes -> Values]
    /\ typed = << <<>> >>
    /\ given = [i \in Indexes |-> CHOOSE v \in Values : TRUE]
    /\ stage = "params"
-----------------------------------------------------------------------------
\* beet_find_local_index: the first entry of that name.
SlotOf(table, n) ==
    CHOOSE i \in DOMAIN table :
        /\ table[i].name = MirName[n]
        /\ \A j \in 1 .. i - 1 : table[j].name # MirName[n]

\* Mutant: the value goes to the newest entry of the table.
Put_Newest(n, v) == store' = [store EXCEPT ![Len(locals')] = v]

Put(n, v) == store' = [store EXCEPT ![SlotOf(locals', n)] = v]

\* beet_mir_function_has_local compares ids in order, until one is the same.
HasLocal(n) == \E i \in DOMAIN locals : locals[i].id = n

\* Mutant: the table has no limit.
CanReserve_Always(n) == TRUE

CanReserve(n) == HasLocal(n) \/ Len(locals) < MirLocals

\* Mutant: every binding reserves an entry of its own.
Reserve_Again(n) == locals' = Append(locals, [id |-> n, name |-> MirName[n]])

Reserve(n) ==
    locals' = IF HasLocal(n) THEN locals
              ELSE Append(locals, [id |-> n, name |-> MirName[n]])

\* The list of the block the checker is in.
Listed == typed[Len(typed)]

CanList == Len(Listed) < CheckLocals

List(n, is_mutable) ==
    typed' = [typed EXCEPT ![Len(typed)] =
                 Append(Listed, [id |-> n, is_mutable |-> is_mutable])]

\* beet_find_local_type: the last entry of that name.
ListedLast(n, k) ==
    /\ Listed[k].id = n
    /\ \A j \in k + 1 .. Len(Listed) : Listed[j].id # n

Stop == stage' = "failed" /\ UNCHANGED <<stackVars, returned, found, locals, store, typed, given>>
-----------------------------------------------------------------------------
\* A parameter: bound by the resolver in the block of the body, listed by the
\* checker, entered in the table unconditionally, and given its argument by the
\* call.
Param(n) ==
    /\ stage = "params"
    /\ IF CanBind(n) /\ CanList /\ Len(locals) < MirLocals
       THEN /\ Bind(n, FALSE)
            /\ List(n, FALSE)
            /\ locals' = Append(locals, [id |-> NoId, name |-> MirName[n]])
            /\ given' = [given EXCEPT ![symbol_count] = store[Len(locals')]]
            /\ UNCHANGED <<store, stage>>
       ELSE Stop

Body == /\ stage = "params" /\ stage' = "body"
        /\ UNCHANGED <<stackVars, returned, found, locals, store, typed, given>>

\* bind or mutable, with a value.
Declare(n, is_mutable, v) ==
    /\ stage = "body"
    /\ Shadowing \/ ~Known(n)
    /\ IF CanBind(n) /\ CanList /\ CanReserve(n)
       THEN /\ Bind(n, is_mutable)
            /\ List(n, is_mutable)
            /\ Reserve(n)
            /\ Put(n, v)
            /\ given' = [given EXCEPT ![symbol_count] = v]
            /\ UNCHANGED stage
       ELSE Stop

\* The resolver and the checker ask, each of its own list, whether the innermost
\* binding of the name is mutable.
CanAssign(n) ==
    /\ \E i \in InUse : Latest(n, i) /\ symbols[i].is_mutable
    /\ \E k \in DOMAIN Listed : ListedLast(n, k) /\ Listed[k].is_mutable

Assign(n, v) ==
    /\ stage = "body"
    /\ IF CanAssign(n)
       THEN /\ \E i \in InUse : Latest(n, i) /\ given' = [given EXCEPT ![i] = v]
            /\ UNCHANGED <<stackVars, returned, found, locals, typed, stage>>
            /\ Put(n, v)
       ELSE Stop

Open == /\ stage = "body"
        /\ Enter
        /\ typed' = Append(typed, Listed)
        /\ UNCHANGED <<locals, store, given, stage>>

\* Mutant: the block works on the list around it.
Close_OneList ==
    /\ stage = "body"
    /\ Leave
    /\ typed' = Append(SubSeq(typed, 1, Len(typed) - 2), Listed)
    /\ UNCHANGED <<locals, store, given, stage>>

Close == /\ stage = "body"
         /\ Leave
         /\ typed' = SubSeq(typed, 1, Len(typed) - 1)
         /\ UNCHANGED <<locals, store, given, stage>>

TooDeep == stage = "body" /\ ~CanEnter /\ Stop

SlotsNext ==
    \/ Body \/ Open \/ Close \/ TooDeep
    \/ \E n \in Names : Param(n)
    \/ \E n \in Names, v \in Values :
          Assign(n, v) \/ \E m \in BOOLEAN : Declare(n, m, v)

SlotsSpec == SlotsInit /\ [][SlotsNext]_<<vars, slotVars>>
-----------------------------------------------------------------------------
(* Properties.                                                             *)

SlotsTypeOK ==
    /\ TypeOK
    /\ locals \in Seq([id : Names \cup {NoId}, name : {MirName[n] : n \in Names}])
    /\ Len(locals) <= MirLocals
    /\ store \in [SlotIndexes -> Values]
    /\ typed \in Seq(Seq([id : Names, is_mutable : BOOLEAN]))
    /\ Len(typed) = scope_depth + 1
    /\ \A d \in DOMAIN typed : Len(typed[d]) <= CheckLocals
    /\ given \in [Indexes -> Values]
    /\ stage \in {"params", "body", "failed"}

\* The names that no other name of the function is cut to.
Distinct == {n \in Names : \A m \in Names \ {n} : MirName[m] # MirName[n]}

\* Each visible binding holds the value last given to it: no binding, of this
\* block, of a block already left or of a parameter, has overwritten it, not
\* even those of names that are too long and are cut to the same text.
VisibleValues ==
    \A i \in InUse : symbols[i].id \in Distinct /\ Latest(symbols[i].id, i) =>
        \E k \in DOMAIN locals : /\ locals[k].name = MirName[symbols[i].id]
                                 /\ k = SlotOf(locals, symbols[i].id)
                                 /\ store[k] = given[i]

\* The table of the lowering never gives one name to two entries, unless two
\* names of the program are cut to it: code generation, which searches by name,
\* would confuse them.
NamesUnambiguous ==
    \A j, k \in DOMAIN locals :
        locals[j].name = locals[k].name /\ (\E n \in Distinct : MirName[n] = locals[j].name)
            => j = k

\* The checker's copied list and the resolver's array that is cut back agree at
\* every statement on what a name means: whether it is bound, by which binding
\* (counted from the start of the function's open blocks) and whether that is
\* mutable.
CheckerAgrees ==
    stage # "failed" =>
        \A n \in Names :
            /\ Known(n) <=> \E k \in DOMAIN Listed : ListedLast(n, k)
            /\ \A k \in DOMAIN Listed : ListedLast(n, k) =>
                  /\ k - 1 \in InUse
                  /\ Latest(n, k - 1)
                  /\ symbols[k - 1].is_mutable = Listed[k].is_mutable
=============================================================================
