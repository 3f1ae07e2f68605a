----------------------------- MODULE SlotsProofs -----------------------------
(***************************************************************************)
(* The checker's list of locals and the lowering's table against the       *)
(* resolver's scopes, for every set of names, every cut of them and every  *)
(* size of the tables.                                                     *)
(***************************************************************************)
EXTENDS Slots, ScopeProofs, WellFoundedInduction

Types ==
    /\ IInv
    /\ locals \in Seq([id : Names \cup {NoId}, name : {MirName[n] : n \in Names}])
    /\ Len(locals) <= MirLocals
    /\ store \in [SlotIndexes -> Values]
    /\ given \in [Indexes -> Values]
    /\ stage \in {"params", "body", "failed"}

\* How many symbols were in use when the list of level d was left for an inner
\* one; all of them for the innermost.
Height(d) == IF d = Len(typed) THEN symbol_count ELSE scope_starts[d]

\* Each list is the array of symbols up to there.
Mirrors ==
    /\ typed \in Seq(Seq([id : Names, is_mutable : BOOLEAN]))
    /\ Len(typed) = scope_depth + 1
    /\ \A d \in DOMAIN typed :
          /\ Len(typed[d]) = Height(d)
          /\ Len(typed[d]) <= CheckLocals
          /\ \A k \in DOMAIN typed[d] : /\ typed[d][k].id = symbols[k - 1].id
                                        /\ typed[d][k].is_mutable = symbols[k - 1].is_mutable

vars_all == <<vars, slotVars>>
-----------------------------------------------------------------------------
(* Types.                                                                  *)

LEMMA InitTypes == SlotsInit => Types
BY InitInv, SlotsAssumption DEF SlotsInit, Types, NoId, Indexes, SlotIndexes

LEMMA PutTypes ==
    ASSUME store \in [SlotIndexes -> Values], NEW n, NEW v \in Values, Put(n, v)
    PROVE  store' \in [SlotIndexes -> Values]
BY DEF Put

LEMMA StopTypes == Types /\ Stop => Types'
<1> SUFFICES ASSUME Types, Stop PROVE Types'
  OBVIOUS
<1>1. IInv'
  BY SameStackInv DEF Types, Stop, IInv, TypeOK
<1> QED
  BY <1>1 DEF Types, Stop

LEMMA ReserveTypes ==
    ASSUME Types, NEW n \in Names, CanReserve(n), Reserve(n)
    PROVE  /\ locals' \in Seq([id : Names \cup {NoId}, name : {MirName[m] : m \in Names}])
           /\ Len(locals') <= MirLocals
<1>1. CASE HasLocal(n)
  BY <1>1 DEF Types, Reserve
<1>2. CASE ~HasLocal(n)
  <2>1. [id |-> n, name |-> MirName[n]] \in [id : Names \cup {NoId}, name : {MirName[m] : m \in Names}]
    OBVIOUS
  <2>2. locals' = Append(locals, [id |-> n, name |-> MirName[n]]) /\ Len(locals) < MirLocals
    BY <1>2 DEF Reserve, CanReserve
  <2> QED
    BY <2>1, <2>2, SlotsAssumption DEF Types
<1> QED
  BY <1>1, <1>2

LEMMA ParamTypes == ASSUME Types, NEW n \in Names, Param(n) PROVE Types'
<1>1. CASE CanBind(n) /\ CanList /\ Len(locals) < MirLocals
  <2>1. IInv'
    BY <1>1, BindInv DEF Types, Param
  <2>2. [id |-> NoId, name |-> MirName[n]] \in [id : Names \cup {NoId}, name : {MirName[m] : m \in Names}]
    OBVIOUS
  <2>3. locals' = Append(locals, [id |-> NoId, name |-> MirName[n]])
    BY <1>1 DEF Param
  <2>4. /\ locals' \in Seq([id : Names \cup {NoId}, name : {MirName[m] : m \in Names}])
        /\ Len(locals') = Len(locals) + 1 /\ Len(locals) \in Nat
    BY <2>2, <2>3 DEF Types
  <2>5. Len(locals') \in SlotIndexes
    BY <1>1, <2>4, SlotsAssumption DEF SlotIndexes
  <2>6. given' \in [Indexes -> Values]
    <3>1. store[Len(locals')] \in Values
      BY <2>5 DEF Types
    <3> QED
      BY <1>1, <3>1 DEF Types, Param
  <2>7. Len(locals') <= MirLocals
    BY <1>1, <2>4, SlotsAssumption
  <2> QED
    BY <1>1, <2>1, <2>4, <2>6, <2>7 DEF Types, Param
<1>2. CASE Stop
  BY <1>2, StopTypes
<1> QED
  BY <1>1, <1>2 DEF Param

LEMMA DeclareTypes ==
    ASSUME Types, NEW n \in Names, NEW m \in BOOLEAN, NEW v \in Values, Declare(n, m, v)
    PROVE  Types'
<1>1. CASE CanBind(n) /\ CanList /\ CanReserve(n)
  <2>1. IInv'
    BY <1>1, BindInv DEF Types, Declare
  <2>2. store' \in [SlotIndexes -> Values]
    BY <1>1, PutTypes DEF Types, Declare
  <2> QED
    BY <1>1, <2>1, <2>2, ReserveTypes DEF Types, Declare
<1>2. CASE Stop
  BY <1>2, StopTypes
<1> QED
  BY <1>1, <1>2 DEF Declare

LEMMA AssignTypes ==
    ASSUME Types, NEW n \in Names, NEW v \in Values, Assign(n, v) PROVE Types'
<1>1. CASE CanAssign(n)
  <2>1. IInv'
    BY <1>1, SameStackInv DEF Types, Assign, IInv, TypeOK
  <2>2. store' \in [SlotIndexes -> Values]
    BY <1>1, PutTypes DEF Types, Assign
  <2> QED
    BY <1>1, <2>1, <2>2 DEF Types, Assign
<1>2. CASE Stop
  BY <1>2, StopTypes
<1> QED
  BY <1>1, <1>2 DEF Assign

LEMMA StepTypes == Types /\ [SlotsNext]_vars_all => Types'
<1> SUFFICES ASSUME Types, [SlotsNext]_vars_all PROVE Types'
  OBVIOUS
<1>1. CASE Body
  <2>1. IInv'
    BY <1>1, SameStackInv DEF Types, Body, IInv, TypeOK
  <2> QED
    BY <1>1, <2>1 DEF Types, Body
<1>2. CASE Open
  BY <1>2, EnterInv DEF Types, Open
<1>3. CASE Close
  BY <1>3, LeaveInv DEF Types, Close
<1>4. CASE TooDeep
  BY <1>4, StopTypes DEF TooDeep
<1>5. CASE UNCHANGED vars_all
  <2>1. IInv'
    BY <1>5, SameStackInv DEF Types, vars_all, vars, IInv, TypeOK
  <2> QED
    BY <1>5, <2>1 DEF Types, vars_all, slotVars
<1> QED
  BY <1>1, <1>2, <1>3, <1>4, <1>5, ParamTypes, DeclareTypes, AssignTypes DEF SlotsNext
-----------------------------------------------------------------------------
(* The checker's lists.                                                    *)

LEMMA StartsFacts ==
    ASSUME IInv
    PROVE  /\ symbol_count \in Nat /\ scope_depth \in Nat
           /\ \A d \in 0 .. scope_depth : scope_starts[d] \in Nat /\ scope_starts[d] <= symbol_count
           /\ \A d, e \in 0 .. scope_depth : d <= e => scope_starts[d] <= scope_starts[e]
BY ScopeAssumption DEF IInv, TypeOK, Segments

LEMMA InitMirrors == SlotsInit => Mirrors
<1> SUFFICES ASSUME SlotsInit PROVE Mirrors
  OBVIOUS
<1>1. typed = << <<>> >> /\ scope_depth = 0 /\ symbol_count = 0
  BY DEF SlotsInit, Init
<1>2. DOMAIN typed = {1} /\ Len(typed) = 1 /\ typed[1] = <<>> /\ Len(typed[1]) = 0
      /\ DOMAIN typed[1] = {}
  BY <1>1
<1>3. typed \in Seq(Seq([id : Names, is_mutable : BOOLEAN]))
  BY <1>1
<1> QED
  BY <1>1, <1>2, <1>3, SlotsAssumption DEF Mirrors, Height

LEMMA SameMirrors ==
    ASSUME Mirrors, UNCHANGED <<typed, stackVars>> PROVE Mirrors'
BY DEF Mirrors, Height, stackVars

LEMMA BindMirrors ==
    ASSUME IInv, Mirrors, NEW n \in Names, NEW m \in BOOLEAN, Bind(n, m), CanList, List(n, m)
    PROVE  Mirrors'
<1> DEFINE new == [id |-> n, is_mutable |-> m]
           top == Len(typed)
<1>1. /\ top \in DOMAIN typed /\ top = scope_depth + 1 /\ top \in Nat
      /\ Listed = typed[top] /\ Listed \in Seq([id : Names, is_mutable : BOOLEAN])
      /\ Len(Listed) = symbol_count
  BY StartsFacts DEF Mirrors, Listed, Height
<1>2. /\ typed' = [typed EXCEPT ![top] = Append(Listed, new)]
      /\ symbol_count' = symbol_count + 1 /\ scope_depth' = scope_depth
      /\ scope_starts' = scope_starts
      /\ symbols' = [symbols EXCEPT ![symbol_count] =
                        [id |-> n, depth |-> scope_depth, is_mutable |-> m]]
      /\ symbol_count \in Indexes /\ symbol_count \in Nat
      /\ Len(Listed) < CheckLocals
  BY StartsFacts, ScopeAssumption DEF List, Bind, CanBind, CanList, Indexes, IInv, TypeOK
<1>3. /\ Append(Listed, new) \in Seq([id : Names, is_mutable : BOOLEAN])
      /\ Len(Append(Listed, new)) = symbol_count + 1
      /\ \A k \in 1 .. symbol_count : Append(Listed, new)[k] = Listed[k]
      /\ Append(Listed, new)[symbol_count + 1] = new
  BY <1>1
<1>4. /\ typed' \in Seq(Seq([id : Names, is_mutable : BOOLEAN])) /\ Len(typed') = Len(typed)
      /\ DOMAIN typed' = DOMAIN typed
      /\ typed'[top] = Append(Listed, new)
      /\ \A d \in DOMAIN typed : d # top => typed'[d] = typed[d]
  BY <1>1, <1>2, <1>3 DEF Mirrors
<1>5. symbols \in [Indexes -> Symbol] /\ \A i \in Indexes : i # symbol_count => symbols'[i] = symbols[i]
  BY <1>2 DEF IInv, TypeOK
<1>6. symbols'[symbol_count].id = n /\ symbols'[symbol_count].is_mutable = m
  BY <1>2, <1>5
<1>7. ASSUME NEW d \in DOMAIN typed'
      PROVE  /\ Len(typed'[d]) = Height(d)'
             /\ Len(typed'[d]) <= CheckLocals
             /\ \A k \in DOMAIN typed'[d] : /\ typed'[d][k].id = symbols'[k - 1].id
                                            /\ typed'[d][k].is_mutable = symbols'[k - 1].is_mutable
  <2>1. CASE d = top
    <3>1. Len(typed'[d]) = Height(d)' /\ Len(typed'[d]) <= CheckLocals
      BY <1>2, <1>3, <1>4, <1>1, <2>1, SlotsAssumption DEF Height
    <3>2. ASSUME NEW k \in DOMAIN typed'[d]
          PROVE  /\ typed'[d][k].id = symbols'[k - 1].id
                 /\ typed'[d][k].is_mutable = symbols'[k - 1].is_mutable
      <4>1. k \in 1 .. symbol_count + 1
        BY <1>3, <1>4, <2>1
      <4>2. CASE k = symbol_count + 1
        BY <1>2, <1>3, <1>4, <1>6, <2>1, <4>2
      <4>3. CASE k \in 1 .. symbol_count
        <5>1. k \in DOMAIN Listed /\ k - 1 \in Indexes /\ k - 1 # symbol_count
          BY <1>1, <1>2, <4>3, ScopeAssumption DEF Indexes
        <5>2. Listed[k].id = symbols[k - 1].id /\ Listed[k].is_mutable = symbols[k - 1].is_mutable
          BY <1>1, <5>1 DEF Mirrors
        <5> QED
          BY <1>3, <1>4, <1>5, <2>1, <4>3, <5>1, <5>2
      <4> QED
        BY <1>2, <4>1, <4>2, <4>3
    <3> QED
      BY <3>1, <3>2
  <2>2. CASE d # top
    <3>1. d \in DOMAIN typed /\ d \in 1 .. scope_depth /\ typed'[d] = typed[d]
      BY <1>1, <1>4, <2>2, StartsFacts
    <3>2. Len(typed[d]) = scope_starts[d] /\ scope_starts[d] \in Nat /\ scope_starts[d] <= symbol_count
      BY <1>1, <2>2, <3>1, StartsFacts DEF Mirrors, Height
    <3>3. \A k \in DOMAIN typed[d] : k - 1 \in Indexes /\ k - 1 # symbol_count
      <4>1. DOMAIN typed[d] = 1 .. scope_starts[d]
        BY <3>1, <3>2 DEF Mirrors
      <4> QED
        BY <1>2, <3>2, <4>1, ScopeAssumption DEF Indexes
    <3>4. Height(d)' = scope_starts[d]
      BY <1>1, <1>2, <1>4, <2>2 DEF Height
    <3> QED
      BY <1>5, <3>1, <3>2, <3>3, <3>4 DEF Mirrors
  <2> QED
    BY <2>1, <2>2
<1> QED
  BY <1>1, <1>2, <1>4, <1>7 DEF Mirrors

LEMMA OpenMirrors == ASSUME IInv, Mirrors, Open PROVE Mirrors'
<1> DEFINE top == Len(typed)
<1>1. /\ top \in DOMAIN typed /\ top = scope_depth + 1 /\ top \in Nat
      /\ Listed = typed[top] /\ Listed \in Seq([id : Names, is_mutable : BOOLEAN])
      /\ Len(Listed) = symbol_count
  BY StartsFacts DEF Mirrors, Listed, Height
<1>2. /\ typed' = Append(typed, Listed) /\ scope_depth' = scope_depth + 1
      /\ symbols' = symbols /\ symbol_count' = symbol_count
      /\ scope_starts' = [scope_starts EXCEPT ![scope_depth + 1] = symbol_count]
      /\ scope_depth + 1 \in 0 .. MaxStack - 1
  BY StartsFacts, ScopeAssumption DEF Open, Enter, CanEnter
<1>3. /\ typed' \in Seq(Seq([id : Names, is_mutable : BOOLEAN])) /\ Len(typed') = top + 1
      /\ DOMAIN typed' = 1 .. top + 1
      /\ typed'[top + 1] = Listed
      /\ \A d \in DOMAIN typed : typed'[d] = typed[d]
  BY <1>1, <1>2 DEF Mirrors
<1>4. scope_starts'[top] = symbol_count /\ \A d \in 1 .. scope_depth : scope_starts'[d] = scope_starts[d]
  BY <1>1, <1>2, StartsFacts DEF IInv, TypeOK
<1>5. ASSUME NEW d \in DOMAIN typed'
      PROVE  \E e \in DOMAIN typed : typed'[d] = typed[e] /\ Height(d)' = Height(e)
  <2>1. CASE d = top + 1
    BY <1>1, <1>2, <1>3, <2>1 DEF Height
  <2>2. CASE d = top
    BY <1>1, <1>2, <1>3, <1>4, <2>2 DEF Height
  <2>3. CASE d \in 1 .. scope_depth
    <3>1. d \in DOMAIN typed /\ d # top /\ d # top + 1
      BY <1>1, <2>3, StartsFacts DEF Mirrors
    <3> QED
      BY <1>2, <1>3, <1>4, <2>3, <3>1 DEF Height
  <2> QED
    BY <1>1, <1>3, <2>1, <2>2, <2>3, StartsFacts
<1>6. ASSUME NEW d \in DOMAIN typed'
      PROVE  /\ Len(typed'[d]) = Height(d)'
             /\ Len(typed'[d]) <= CheckLocals
             /\ \A k \in DOMAIN typed'[d] : /\ typed'[d][k].id = symbols'[k - 1].id
                                            /\ typed'[d][k].is_mutable = symbols'[k - 1].is_mutable
  <2>1. PICK e \in DOMAIN typed : typed'[d] = typed[e] /\ Height(d)' = Height(e)
    BY <1>5
  <2> QED
    BY <1>2, <2>1 DEF Mirrors
<1>7. Len(typed') = scope_depth' + 1
  BY <1>1, <1>2, <1>3
<1> QED
  BY <1>3, <1>6, <1>7 DEF Mirrors

LEMMA CloseMirrors == ASSUME IInv, Mirrors, Close PROVE Mirrors'
<1> DEFINE top == Len(typed)
<1>1. /\ top \in DOMAIN typed /\ top = scope_depth + 1 /\ scope_depth \in Nat /\ scope_depth > 0
  BY StartsFacts DEF Mirrors, Close, Leave
<1>2. /\ typed' = SubSeq(typed, 1, top - 1) /\ scope_depth' = scope_depth - 1
      /\ symbols' = symbols /\ symbol_count' = scope_starts[scope_depth]
      /\ scope_starts' = scope_starts
  BY DEF Close, Leave
<1>3. /\ typed' \in Seq(Seq([id : Names, is_mutable : BOOLEAN])) /\ Len(typed') = top - 1
      /\ DOMAIN typed' = 1 .. top - 1
      /\ \A d \in 1 .. top - 1 : typed'[d] = typed[d]
  BY <1>1, <1>2 DEF Mirrors
<1>4. ASSUME NEW d \in DOMAIN typed'
      PROVE  d \in DOMAIN typed /\ typed'[d] = typed[d] /\ Height(d)' = Height(d)
  <2>1. d \in DOMAIN typed /\ d # top /\ typed'[d] = typed[d]
    BY <1>1, <1>3 DEF Mirrors
  <2>2. CASE d = top - 1
    BY <1>1, <1>2, <1>3, <2>1, <2>2 DEF Height
  <2>3. CASE d # top - 1
    BY <1>2, <1>3, <2>1, <2>3 DEF Height
  <2> QED
    BY <2>1, <2>2, <2>3
<1> QED
  BY <1>1, <1>2, <1>3, <1>4 DEF Mirrors

LEMMA StepMirrors == Types /\ Mirrors /\ [SlotsNext]_vars_all => Mirrors'
<1> SUFFICES ASSUME Types, Mirrors, [SlotsNext]_vars_all PROVE Mirrors'
  OBVIOUS
<1>1. CASE Stop \/ Body \/ TooDeep \/ UNCHANGED vars_all
  BY <1>1, SameMirrors DEF Stop, Body, TooDeep, vars_all, vars, slotVars
<1>2. ASSUME NEW n \in Names, Param(n) PROVE Mirrors'
  BY <1>1, <1>2, BindMirrors DEF Param, Types
<1>3. ASSUME NEW n \in Names, NEW m \in BOOLEAN, NEW v \in Values, Declare(n, m, v) PROVE Mirrors'
  BY <1>1, <1>3, BindMirrors DEF Declare, Types
<1>4. ASSUME NEW n \in Names, NEW v \in Values, Assign(n, v) PROVE Mirrors'
  BY <1>1, <1>4, SameMirrors DEF Assign
<1> QED
  BY <1>1, <1>2, <1>3, <1>4, OpenMirrors, CloseMirrors DEF SlotsNext, Types

LEMMA LargestExists ==
    ASSUME NEW N \in Nat, NEW S, S \subseteq 1 .. N, S # {}
    PROVE  \E k \in S : \A j \in S : j <= k
<1> DEFINE T == {N - k : k \in S}
<1>1. T \subseteq Nat /\ T # {}
  <2>1. \A k \in S : N - k \in Nat
    OBVIOUS
  <2>2. PICK k \in S : TRUE
    OBVIOUS
  <2> QED
    BY <2>1, <2>2
<1> DEFINE R == OpToRel(<, Nat)
<1>2. IsWellFoundedOn(R, Nat)
  BY NatLessThanWellFounded
<1>3. \A x, y \in Nat : x < y => <<x, y>> \in R
  BY DEF OpToRel
<1>4. PICK t \in T : \A u \in T : <<u, t>> \notin R
  <2> HIDE DEF T, R
  <2> QED
    BY <1>1, <1>2, WFMin
<1>5. PICK k \in S : t = N - k
  BY <1>4
<1>6. ASSUME NEW j \in S PROVE j <= k
  <2>1. N - j \in T /\ ~(N - j < t)
    BY <1>1, <1>3, <1>4
  <2> QED
    BY <1>5, <2>1
<1> QED
  BY <1>6

LEMMA MirrorsAgree == IInv /\ Mirrors => CheckerAgrees
<1> SUFFICES ASSUME IInv, Mirrors, NEW n \in Names
             PROVE  /\ Known(n) <=> \E k \in DOMAIN Listed : ListedLast(n, k)
                    /\ \A k \in DOMAIN Listed : ListedLast(n, k) =>
                          /\ k - 1 \in InUse
                          /\ Latest(n, k - 1)
                          /\ symbols[k - 1].is_mutable = Listed[k].is_mutable
  BY DEF CheckerAgrees
<1>1. /\ Len(Listed) = symbol_count /\ DOMAIN Listed = 1 .. symbol_count /\ symbol_count \in Nat
      /\ \A k \in 1 .. symbol_count : /\ Listed[k].id = symbols[k - 1].id
                                      /\ Listed[k].is_mutable = symbols[k - 1].is_mutable
  <2>1. Len(typed) \in DOMAIN typed
    BY StartsFacts DEF Mirrors
  <2> QED
    BY <2>1, StartsFacts DEF Mirrors, Listed, Height
<1>2. \A i \in InUse : i + 1 \in 1 .. symbol_count /\ Listed[i + 1].id = symbols[i].id /\ i \in Nat
  BY <1>1 DEF InUse
<1>3. ASSUME NEW k \in 1 .. symbol_count, ListedLast(n, k)
      PROVE  /\ k - 1 \in InUse
             /\ Latest(n, k - 1)
             /\ symbols[k - 1].is_mutable = Listed[k].is_mutable
  <2>1. k - 1 \in InUse /\ symbols[k - 1].id = n
    BY <1>1, <1>3 DEF ListedLast, InUse
  <2>2. ASSUME NEW j \in (k - 1) + 1 .. symbol_count - 1 PROVE symbols[j].id # n
    <3>1. j + 1 \in k + 1 .. Len(Listed) /\ j \in InUse
      BY <1>1, <2>2 DEF InUse
    <3> QED
      BY <1>2, <1>3, <3>1 DEF ListedLast
  <2> QED
    BY <1>1, <2>1, <2>2 DEF Latest
<1>4. ASSUME NEW k \in DOMAIN Listed, ListedLast(n, k) PROVE Known(n)
  BY <1>1, <1>3, <1>4 DEF Known, Latest
<1>5. ASSUME Known(n) PROVE \E k \in DOMAIN Listed : ListedLast(n, k)
  <2>1. PICK i \in InUse : symbols[i].id = n
    BY <1>5 DEF Known
  <2> DEFINE S == {k \in 1 .. symbol_count : Listed[k].id = n}
  <2>2. i + 1 \in S
    BY <1>2, <2>1
  <2>3. PICK k \in S : \A j \in S : j <= k
    <3>1. S \subseteq 1 .. symbol_count /\ S # {}
      BY <2>2
    <3> HIDE DEF S
    <3> QED
      BY <1>1, <3>1, LargestExists
  <2>4. ListedLast(n, k)
    BY <1>1, <2>3 DEF ListedLast
  <2> QED
    BY <1>1, <2>3, <2>4
<1> QED
  BY <1>1, <1>3, <1>4, <1>5

\* The types, and that each of the checker's lists (beet_type_check_stmt_list) is
\* what the resolver's array held when the block inside it was opened.
THEOREM ListsAndTypes == SlotsSpec => [](Types /\ Mirrors)
<1>1. Types /\ Mirrors /\ [SlotsNext]_vars_all => (Types /\ Mirrors)'
  BY StepTypes, StepMirrors
<1> QED
  BY <1>1, InitTypes, InitMirrors, PTL DEF SlotsSpec, vars_all

\* At every statement the checker's copied lists and the resolver's array give
\* a name the same binding.
THEOREM CheckerAndResolverAgree == SlotsSpec => []CheckerAgrees
<1>1. Types /\ Mirrors => CheckerAgrees
  BY MirrorsAgree DEF Types
<1> QED
  BY <1>1, ListsAndTypes, PTL

\* The table, the lists and the machine's locals have their types and limits.
THEOREM SlotTypesHold == SlotsSpec => []SlotsTypeOK
<1>1. Types /\ Mirrors => SlotsTypeOK
  BY DEF Types, Mirrors, SlotsTypeOK, IInv
<1> QED
  BY <1>1, ListsAndTypes, PTL
-----------------------------------------------------------------------------
(* The table.  Without shadowing each entry has one owner for the whole    *)
(* function: the name it was reserved for, or the parameter.               *)

Owner(k) == IF locals[k].id = NoId THEN symbols[k - 1].id ELSE locals[k].id

Owned ==
    /\ \A k \in DOMAIN locals : locals[k].name = MirName[Owner(k)]
    /\ \A j, k \in DOMAIN locals : Owner(j) = Owner(k) => j = k
    /\ \A k \in DOMAIN locals : locals[k].id = NoId =>
          k - 1 \in InUse /\ symbols[k - 1].depth = 0
    /\ stage = "params" =>
          /\ scope_depth = 0 /\ Len(locals) = symbol_count
          /\ \A k \in DOMAIN locals : locals[k].id = NoId

Unhidden == \A i, j \in InUse : symbols[i].id = symbols[j].id => i = j

Held ==
    \A i \in InUse : \E k \in DOMAIN locals :
        /\ Owner(k) = symbols[i].id
        /\ symbols[i].id \in Distinct => store[k] = given[i]

Places == Owned /\ Unhidden /\ Held

LEMMA TableFacts ==
    ASSUME Types
    PROVE  /\ Len(locals) \in Nat /\ DOMAIN locals = 1 .. Len(locals)
           /\ \A k \in DOMAIN locals : locals[k].id \in Names \cup {NoId} /\ k \in Nat
           /\ DOMAIN locals \subseteq SlotIndexes
           /\ \A i \in InUse : symbols[i].id \in Names /\ i \in Indexes /\ i \in Nat
                               /\ i # symbol_count
           /\ symbol_count \in Nat /\ scope_depth \in Nat
<1>1. Len(locals) \in Nat /\ DOMAIN locals = 1 .. Len(locals)
      /\ \A k \in DOMAIN locals : locals[k].id \in Names \cup {NoId} /\ k \in Nat
  <2> DEFINE E == [id : Names \cup {NoId}, name : {MirName[m] : m \in Names}]
  <2>1. locals \in Seq(E)
    BY DEF Types
  <2>2. \A e \in E : e.id \in Names \cup {NoId}
    OBVIOUS
  <2> HIDE DEF E
  <2> QED
    BY <2>1, <2>2
<1>2. DOMAIN locals \subseteq SlotIndexes
  BY <1>1, SlotsAssumption DEF Types, SlotIndexes
<1>3. \A i \in InUse : symbols[i] \in Symbol /\ i \in Indexes /\ i \in Nat /\ i # symbol_count
  BY InUseFacts DEF Types
<1> QED
  BY <1>1, <1>2, <1>3, InUseFacts DEF Types, Symbol

\* A search by name finds an entry that has it.
LEMMA SlotFound ==
    ASSUME NEW t, DOMAIN t \subseteq Nat \ {0}, NEW n,
           \E k \in DOMAIN t : t[k].name = MirName[n], DOMAIN t = 1 .. Len(t), Len(t) \in Nat
    PROVE  SlotOf(t, n) \in DOMAIN t /\ t[SlotOf(t, n)].name = MirName[n]
<1> DEFINE S == {Len(t) + 1 - k : k \in {k \in DOMAIN t : t[k].name = MirName[n]}}
<1>1. S \subseteq 1 .. Len(t) /\ S # {}
  <2>1. \A k \in DOMAIN t : Len(t) + 1 - k \in 1 .. Len(t)
    OBVIOUS
  <2> QED
    BY <2>1
<1>2. PICK s \in S : \A u \in S : u <= s
  <2> HIDE DEF S
  <2> QED
    BY <1>1, LargestExists
<1>3. PICK k \in DOMAIN t : t[k].name = MirName[n] /\ s = Len(t) + 1 - k
  BY <1>2
<1>4. ASSUME NEW j \in 1 .. k - 1 PROVE t[j].name # MirName[n]
  <2>1. j \in DOMAIN t /\ ~(Len(t) + 1 - j <= s)
    BY <1>3
  <2> QED
    BY <1>2, <2>1
<1>5. \E i \in DOMAIN t : /\ t[i].name = MirName[n]
                          /\ \A j \in 1 .. i - 1 : t[j].name # MirName[n]
  BY <1>3, <1>4
<1> QED
  BY <1>5 DEF SlotOf

\* The entry of a name that no other name is cut to.
LEMMA OwnersSlot ==
    ASSUME Types, Owned, NEW k \in DOMAIN locals, NEW n \in Distinct,
           locals[k].name = MirName[n]
    PROVE  Owner(k) = n
<1>1. Owner(k) \in Names
  BY TableFacts DEF Owner, Owned
<1>2. MirName[Owner(k)] = MirName[n]
  BY DEF Owned
<1> QED
  BY <1>1, <1>2 DEF Distinct

SlotsOwned ==
    \A k \in DOMAIN locals, n \in Distinct : Owner(k) = n => SlotOf(locals, n) = k

LEMMA TheSlot == Types /\ Owned => SlotsOwned
<1> SUFFICES ASSUME Types, Owned, NEW k \in DOMAIN locals, NEW n \in Distinct, Owner(k) = n
             PROVE  SlotOf(locals, n) = k
  BY DEF SlotsOwned
<1>1. locals[k].name = MirName[n]
  BY DEF Owned
<1>2. SlotOf(locals, n) \in DOMAIN locals /\ locals[SlotOf(locals, n)].name = MirName[n]
  <2>1. DOMAIN locals \subseteq Nat \ {0}
    BY TableFacts
  <2> QED
    BY <1>1, <2>1, SlotFound, TableFacts
<1> QED
  BY <1>2, OwnersSlot DEF Owned

\* The two properties follow.
LEMMA PlacesUnambiguous == Types /\ Places => NamesUnambiguous
<1> SUFFICES ASSUME Types, Places, NEW j \in DOMAIN locals, NEW k \in DOMAIN locals,
                    locals[j].name = locals[k].name,
                    NEW n \in Distinct, MirName[n] = locals[j].name
             PROVE  j = k
  BY DEF NamesUnambiguous
<1>1. Owner(j) = n /\ Owner(k) = n
  BY OwnersSlot DEF Places
<1> QED
  BY <1>1 DEF Places, Owned

LEMMA PlacesHold == Types /\ Places => VisibleValues
<1> SUFFICES ASSUME Types, Places, NEW i \in InUse, symbols[i].id \in Distinct
             PROVE  \E k \in DOMAIN locals : /\ locals[k].name = MirName[symbols[i].id]
                                             /\ k = SlotOf(locals, symbols[i].id)
                                             /\ store[k] = given[i]
  BY DEF VisibleValues
<1>1. PICK k \in DOMAIN locals : Owner(k) = symbols[i].id /\ store[k] = given[i]
  BY DEF Places, Held
<1> QED
  BY <1>1, TheSlot DEF Places, Owned, SlotsOwned

LEMMA InitPlaces == SlotsInit => Places
BY DEF SlotsInit, Init, Places, Owned, Unhidden, Held, InUse

LEMMA SamePlaces ==
    ASSUME Types, Places, UNCHANGED <<stackVars, locals, store, given>>,
           stage' = stage \/ stage' # "params"
    PROVE  Places'
BY DEF Places, Owned, Unhidden, Held, Owner, InUse, stackVars

LEMMA OpenPlaces == ASSUME Types, Places, Open PROVE Places'
BY DEF Places, Owned, Unhidden, Held, Owner, InUse, Open, Enter

LEMMA ClosePlaces == ASSUME Types, Places, Close PROVE Places'
<1>1. UNCHANGED <<symbols, locals, store, given, stage>> /\ scope_depth \in Nat
      /\ scope_depth > 0 /\ stage = "body" /\ symbol_count' = scope_starts[scope_depth]
  BY StartsFacts DEF Close, Leave, Types
<1>2. InUse' \subseteq InUse
  BY <1>1, StartsFacts DEF InUse, Types
<1>3. ASSUME NEW i \in InUse, symbols[i].depth = 0 PROVE i \in InUse'
  <2>1. ~(scope_starts[scope_depth] <= i)
    BY <1>1, <1>3 DEF Types, IInv, Segments
  <2> QED
    BY <1>1, <2>1, StartsFacts DEF InUse, Types
<1>4. Owned'
  BY <1>1, <1>3 DEF Places, Owned, Owner
<1>5. Unhidden' /\ Held'
  BY <1>1, <1>2 DEF Places, Unhidden, Held, Owner
<1> QED
  BY <1>4, <1>5 DEF Places

\* What a binding does to the array, whatever its name.
LEMMA BindFacts ==
    ASSUME Types, NEW n \in Names, NEW m \in BOOLEAN, Bind(n, m)
    PROVE  /\ InUse' = InUse \cup {symbol_count} /\ symbol_count \in Indexes
           /\ symbol_count' = symbol_count + 1 /\ scope_depth' = scope_depth
           /\ \A i \in InUse : symbols'[i] = symbols[i]
           /\ symbols'[symbol_count].id = n /\ symbols'[symbol_count].depth = scope_depth
<1>1. symbol_count \in Indexes /\ symbols \in [Indexes -> Symbol]
  BY TableFacts, ScopeAssumption DEF Bind, CanBind, Indexes, Types, IInv, TypeOK
<1>2. InUse' = InUse \cup {symbol_count}
  BY TableFacts DEF Bind, InUse
<1> QED
  BY <1>1, <1>2, TableFacts DEF Bind

LEMMA ParamPlaces ==
    ASSUME Types, Types', Places, NEW n \in Names, Param(n) PROVE Places'
<1>1. CASE Stop
  BY <1>1, SamePlaces DEF Stop
<1>2. CASE CanBind(n) /\ CanList /\ Len(locals) < MirLocals
  <2>1. /\ Bind(n, FALSE) /\ locals' = Append(locals, [id |-> NoId, name |-> MirName[n]])
        /\ given' = [given EXCEPT ![symbol_count] = store[Len(locals')]]
        /\ store' = store /\ stage' = "params" /\ stage = "params"
    BY <1>2 DEF Param
  <2>2. /\ scope_depth = 0 /\ Len(locals) = symbol_count
        /\ \A k \in DOMAIN locals : locals[k].id = NoId
    BY <2>1 DEF Places, Owned
  <2>b. /\ InUse' = InUse \cup {symbol_count} /\ symbol_count \in Indexes
        /\ symbol_count' = symbol_count + 1 /\ scope_depth' = scope_depth
        /\ \A i \in InUse : symbols'[i] = symbols[i]
        /\ symbols'[symbol_count].id = n /\ symbols'[symbol_count].depth = scope_depth
    BY <2>1, BindFacts
  <2>e. PICK e \in Nat : e = symbol_count + 1
    BY TableFacts
  <2>3. /\ DOMAIN locals' = DOMAIN locals \cup {e} /\ Len(locals') = e /\ e \notin DOMAIN locals
        /\ \A k \in DOMAIN locals : locals'[k] = locals[k] /\ k - 1 \in InUse /\ k # e
        /\ locals'[e] = [id |-> NoId, name |-> MirName[n]]
        /\ e - 1 = symbol_count
    <3>1. Len(locals) \in Nat /\ DOMAIN locals = 1 .. symbol_count
      BY <2>2, TableFacts
    <3>2. DOMAIN locals' = 1 .. symbol_count + 1 /\ Len(locals') = e
          /\ (\A k \in 1 .. symbol_count : locals'[k] = locals[k])
          /\ locals'[e] = [id |-> NoId, name |-> MirName[n]]
      BY <2>1, <2>2, <2>e, <3>1 DEF Types
    <3> QED
      BY <2>2, <2>e, <3>1, <3>2, TableFacts DEF InUse
  <2>4. \A i \in InUse : symbols[i].id # n
    <3>1. scope_starts[0] = 0
      BY DEF Types, IInv, Segments
    <3> QED
      BY <2>1, <2>2, <3>1 DEF Bind, CanBind, InUse
  <2>5. /\ \A k \in DOMAIN locals : Owner(k)' = Owner(k) /\ Owner(k) = symbols[k - 1].id
        /\ Owner(e)' = n
    BY <2>1, <2>2, <2>3, <2>b DEF Owner
  <2>6. Owned'
    <3>1. \A k \in DOMAIN locals' : locals'[k].name = MirName[Owner(k)']
      BY <2>3, <2>5 DEF Places, Owned
    <3>2. \A j, k \in DOMAIN locals' : Owner(j)' = Owner(k)' => j = k
      BY <2>3, <2>4, <2>5 DEF Places, Owned
    <3>3. \A k \in DOMAIN locals' : locals'[k].id = NoId
      BY <2>2, <2>3
    <3>4. \A k \in DOMAIN locals' : k - 1 \in InUse' /\ symbols'[k - 1].depth = 0
      BY <2>1, <2>2, <2>3, <2>b DEF Places, Owned
    <3>5. scope_depth' = 0 /\ Len(locals') = symbol_count'
      BY <2>1, <2>2, <2>3, <2>b, <2>e
    <3> QED
      BY <3>1, <3>2, <3>3, <3>4, <3>5 DEF Owned
  <2>7. Unhidden'
    BY <2>1, <2>4, <2>b DEF Unhidden, Places
  <2>8. Held'
    <3>1. given' = [given EXCEPT ![symbol_count] = store[e]] /\ given \in [Indexes -> Values]
      BY <2>1, <2>3 DEF Types
    <3>2. ASSUME NEW i \in InUse
          PROVE  \E k \in DOMAIN locals' :
                    /\ Owner(k)' = symbols'[i].id
                    /\ symbols'[i].id \in Distinct => store'[k] = given'[i]
      <4>1. PICK k \in DOMAIN locals : /\ Owner(k) = symbols[i].id
                                       /\ symbols[i].id \in Distinct => store[k] = given[i]
        BY DEF Places, Held
      <4>2. given'[i] = given[i] /\ symbols'[i] = symbols[i]
        BY <2>1, <3>1, <2>b, TableFacts
      <4> QED
        BY <2>1, <2>3, <2>5, <4>1, <4>2
    <3>3. given'[symbol_count] = store'[e]
      BY <2>1, <3>1, <2>b
    <3> QED
      BY <2>1, <2>3, <2>5, <3>2, <3>3, <2>b DEF Held, Distinct
  <2> QED
    BY <2>6, <2>7, <2>8 DEF Places
<1> QED
  BY <1>1, <1>2 DEF Param

LEMMA DeclarePlaces ==
    ASSUME ~Shadowing, Types, Types', Places, NEW n \in Names, NEW m \in BOOLEAN,
           NEW v \in Values, Declare(n, m, v)
    PROVE  Places'
<1>1. CASE Stop
  BY <1>1, SamePlaces DEF Stop
<1>2. CASE CanBind(n) /\ CanList /\ CanReserve(n)
  <2>1. /\ Bind(n, m) /\ Reserve(n) /\ Put(n, v) /\ stage' = "body" /\ ~Known(n)
        /\ given' = [given EXCEPT ![symbol_count] = v]
    BY <1>2 DEF Declare
  <2>2. /\ InUse' = InUse \cup {symbol_count} /\ symbol_count \in Indexes
        /\ \A i \in InUse : symbols'[i] = symbols[i]
        /\ symbols'[symbol_count].id = n
    BY <2>1, BindFacts
  <2>3. \A i \in InUse : symbols[i].id # n
    BY <2>1 DEF Known
  <2>4. n # NoId
    BY SlotsAssumption DEF NoId
  <2>5. \A k \in DOMAIN locals : Owner(k)' = Owner(k)
        /\ k \in DOMAIN locals' /\ locals'[k] = locals[k]
    <3>1. \A k \in DOMAIN locals : k \in DOMAIN locals' /\ locals'[k] = locals[k]
      BY <2>1 DEF Reserve, Types
    <3> QED
      BY <2>2, <3>1 DEF Owner, Places, Owned
  <2>6. PICK e \in DOMAIN locals' : /\ Owner(e)' = n /\ locals'[e].id = n
                                    /\ locals'[e].name = MirName[n]
                                    /\ DOMAIN locals' = DOMAIN locals \cup {e}
                                    /\ \A k \in DOMAIN locals : Owner(k) = n => k = e
    <3>1. CASE HasLocal(n)
      <4>1. PICK k \in DOMAIN locals : locals[k].id = n /\ locals' = locals
        BY <2>1, <3>1 DEF Reserve, HasLocal
      <4>2. Owner(k) = n /\ locals[k].name = MirName[n]
            /\ \A j \in DOMAIN locals : Owner(j) = n => j = k
        BY <2>4, <4>1 DEF Owner, Places, Owned
      <4> QED
        BY <2>5, <4>1, <4>2
    <3>2. CASE ~HasLocal(n)
      <4>1. PICK k \in Nat : k = Len(locals) + 1
        BY TableFacts
      <4>2. DOMAIN locals' = DOMAIN locals \cup {k}
            /\ locals'[k] = [id |-> n, name |-> MirName[n]]
        BY <2>1, <3>2, <4>1, TableFacts DEF Reserve, Types
      <4>3. Owner(k)' = n
        BY <2>4, <4>2 DEF Owner
      <4>4. ASSUME NEW j \in DOMAIN locals PROVE Owner(j) # n
        BY <2>3, <3>2 DEF Owner, HasLocal, Places, Owned
      <4> QED
        BY <4>2, <4>3, <4>4
    <3> QED
      BY <3>1, <3>2
  <2>7. Owned'
    <3>1. \A k \in DOMAIN locals' : locals'[k].name = MirName[Owner(k)']
      BY <2>5, <2>6 DEF Places, Owned
    <3>2. \A j, k \in DOMAIN locals' : Owner(j)' = Owner(k)' => j = k
      BY <2>5, <2>6 DEF Places, Owned
    <3>3. \A k \in DOMAIN locals' : locals'[k].id = NoId =>
             k - 1 \in InUse' /\ symbols'[k - 1].depth = 0
      BY <2>2, <2>4, <2>5, <2>6 DEF Places, Owned
    <3> QED
      BY <2>1, <3>1, <3>2, <3>3 DEF Owned
  <2>8. Unhidden'
    BY <2>2, <2>3 DEF Unhidden, Places
  <2>9. SlotsOwned'
    BY <2>7, TheSlot, PTL
  <2>10. store' = [store EXCEPT ![SlotOf(locals', n)] = v]
    BY <2>1 DEF Put
  <2>11. SlotOf(locals', n) \in DOMAIN locals' /\ locals'[SlotOf(locals', n)].name = MirName[n]
    <3>1. DOMAIN locals' = 1 .. Len(locals') /\ Len(locals') \in Nat
      BY DEF Types
    <3>2. DOMAIN locals' \subseteq Nat \ {0}
      BY <3>1
    <3> QED
      BY <2>6, <3>1, <3>2, SlotFound
  <2>12. Held'
    <3>1. ASSUME NEW i \in InUse
          PROVE  \E k \in DOMAIN locals' :
                    /\ Owner(k)' = symbols'[i].id
                    /\ symbols'[i].id \in Distinct => store'[k] = given'[i]
      <4>1. PICK k \in DOMAIN locals : /\ Owner(k) = symbols[i].id
                                       /\ symbols[i].id \in Distinct => store[k] = given[i]
        BY DEF Places, Held
      <4>2. given'[i] = given[i] /\ symbols'[i] = symbols[i] /\ symbols[i].id \in Names
        BY <2>1, <2>2, TableFacts DEF Types
      <4>3. ASSUME symbols[i].id \in Distinct PROVE store'[k] = store[k]
        <5>1. locals'[k].name = MirName[symbols[i].id]
          BY <2>5, <4>1 DEF Places, Owned
        <5>2. MirName[n] # MirName[symbols[i].id]
          BY <2>3, <4>3 DEF Distinct
        <5>3. k # SlotOf(locals', n)
          BY <2>11, <5>1, <5>2
        <5>4. k \in SlotIndexes
          BY TableFacts
        <5> QED
          BY <2>10, <5>3, <5>4 DEF Types
      <4> QED
        BY <2>5, <4>1, <4>2, <4>3
    <3>2. /\ Owner(e)' = symbols'[symbol_count].id
          /\ symbols'[symbol_count].id \in Distinct => store'[e] = given'[symbol_count]
      <4>1. given'[symbol_count] = v
        BY <2>1, <2>2 DEF Types
      <4>2. e \in SlotIndexes
        <5>1. DOMAIN locals' = 1 .. Len(locals') /\ Len(locals') \in Nat
          BY DEF Types
        <5>2. Len(locals') <= MirLocals
          BY DEF Types
        <5>3. MirLocals \in Nat
          BY SlotsAssumption
        <5>4. e \in 1 .. Len(locals')
          BY <5>1
        <5> QED
          BY <5>1, <5>2, <5>3, <5>4 DEF SlotIndexes
      <4>3. ASSUME n \in Distinct PROVE store'[e] = v
        <5>1. SlotOf(locals', n) = e
          BY <2>6, <2>9, <4>3 DEF SlotsOwned
        <5> QED
          BY <2>10, <4>2, <5>1 DEF Types
      <4> QED
        BY <2>2, <2>6, <4>1, <4>3
    <3> QED
      BY <2>2, <2>6, <3>1, <3>2 DEF Held
  <2> QED
    BY <2>7, <2>8, <2>12 DEF Places
<1> QED
  BY <1>1, <1>2 DEF Declare

LEMMA AssignPlaces ==
    ASSUME Types, Types', Places, NEW n \in Names, NEW v \in Values, Assign(n, v)
    PROVE  Places'
<1>1. CASE Stop
  BY <1>1, SamePlaces DEF Stop
<1>2. CASE CanAssign(n)
  <2>1. PICK i \in InUse : Latest(n, i) /\ given' = [given EXCEPT ![i] = v]
    BY <1>2 DEF Assign
  <2>2. /\ UNCHANGED <<stackVars, locals, stage>>
        /\ store' = [store EXCEPT ![SlotOf(locals, n)] = v]
    BY <1>2 DEF Assign, Put
  <2>3. symbols[i].id = n /\ InUse' = InUse /\ symbols' = symbols
        /\ \A k \in DOMAIN locals : Owner(k)' = Owner(k)
    BY <2>1, <2>2 DEF Latest, InUse, stackVars, Owner
  <2>4. Owned' /\ Unhidden'
    BY <2>2, <2>3 DEF Places, Owned, Unhidden, stackVars
  <2>5. SlotOf(locals, n) \in DOMAIN locals /\ locals[SlotOf(locals, n)].name = MirName[n]
    <3>1. \E k \in DOMAIN locals : locals[k].name = MirName[n]
      BY <2>3 DEF Places, Owned, Held
    <3>2. DOMAIN locals \subseteq Nat \ {0}
      BY TableFacts
    <3> QED
      BY <3>1, <3>2, SlotFound, TableFacts
  <2>6. ASSUME NEW j \in InUse
        PROVE  \E k \in DOMAIN locals :
                  /\ Owner(k) = symbols[j].id
                  /\ symbols[j].id \in Distinct => store'[k] = given'[j]
    <3>1. PICK k \in DOMAIN locals : /\ Owner(k) = symbols[j].id
                                     /\ symbols[j].id \in Distinct => store[k] = given[j]
      BY DEF Places, Held
    <3>2. k \in SlotIndexes /\ j \in Indexes /\ i \in Indexes /\ symbols[j].id \in Names
      BY TableFacts
    <3>3. CASE j = i
      <4>1. ASSUME n \in Distinct PROVE SlotOf(locals, n) = k
        BY <2>3, <3>1, <3>3, <4>1, TheSlot DEF Places, SlotsOwned
      <4> QED
        BY <2>1, <2>2, <2>3, <3>1, <3>2, <3>3, <4>1 DEF Types
    <3>4. CASE j # i
      <4>1. symbols[j].id # n
        BY <2>3, <3>4 DEF Places, Unhidden
      <4>2. ASSUME symbols[j].id \in Distinct PROVE SlotOf(locals, n) # k
        <5>1. MirName[n] # MirName[symbols[j].id]
          BY <4>1, <4>2 DEF Distinct
        <5> QED
          BY <2>5, <3>1, <5>1 DEF Places, Owned
      <4> QED
        BY <2>1, <2>2, <3>1, <3>2, <3>4, <4>2 DEF Types
    <3> QED
      BY <3>3, <3>4
  <2>7. Held'
    BY <2>2, <2>3, <2>6 DEF Held
  <2> QED
    BY <2>4, <2>7 DEF Places
<1> QED
  BY <1>1, <1>2 DEF Assign

LEMMA StepPlaces ==
    ASSUME ~Shadowing PROVE Types /\ Types' /\ Places /\ [SlotsNext]_vars_all => Places'
<1> SUFFICES ASSUME Types, Types', Places, [SlotsNext]_vars_all PROVE Places'
  OBVIOUS
<1>1. CASE Body \/ TooDeep \/ UNCHANGED vars_all
  BY <1>1, SamePlaces DEF Stop, Body, TooDeep, vars_all, vars, slotVars
<1> QED
  BY <1>1, OpenPlaces, ClosePlaces, ParamPlaces, DeclarePlaces, AssignPlaces DEF SlotsNext

\* In programs that bind no visible name, every entry that beet_mir_reserve_local
\* and the parameters made belongs to one binding, whose value it holds.
THEOREM PlacesInvariant == ASSUME ~Shadowing PROVE SlotsSpec => [](Types /\ Places)
<1>1. Types /\ Places /\ [SlotsNext]_vars_all => (Types /\ Places)'
  BY StepTypes, StepPlaces
<1> QED
  BY <1>1, InitTypes, InitPlaces, PTL DEF SlotsSpec, vars_all

\* Of the names that are not cut to one text, no two entries of the table are
\* confused by the searches by name, in programs that bind no visible name.
THEOREM EntriesAreDistinct == ASSUME ~Shadowing PROVE SlotsSpec => []NamesUnambiguous
BY PlacesInvariant, PlacesUnambiguous, PTL

\* In such programs, every visible binding holds what was last given to it:
\* entries that blocks already left reserved, parameters and reuse included.
THEOREM ValuesSurvive == ASSUME ~Shadowing PROVE SlotsSpec => []VisibleValues
BY PlacesInvariant, PlacesHold, PTL
=============================================================================
