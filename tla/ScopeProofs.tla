----------------------------- MODULE ScopeProofs -----------------------------
(***************************************************************************)
(* The scope stack implements nested environments, for every set of names  *)
(* and every size of its two arrays.                                       *)
(***************************************************************************)
EXTENDS Scope, FiniteSetTheorems, TLAPS

IInv == TypeOK /\ Segments /\ NoDuplicates

LEMMA InitInv == Init => IInv
BY ScopeAssumption
   DEF Init, IInv, TypeOK, Segments, NoDuplicates, Symbol, Indexes, InUse
-----------------------------------------------------------------------------
(* Steps of the invariant.                                                 *)

LEMMA EnterInv == IInv /\ Enter => IInv'
<1> SUFFICES ASSUME IInv, Enter PROVE IInv'
  OBVIOUS
<1> USE DEF IInv, Enter, CanEnter
<1>1. TypeOK'
  BY ScopeAssumption DEF TypeOK, InUse
<1>2. scope_depth \in Nat /\ symbol_count \in Nat /\ scope_depth' = scope_depth + 1
  BY DEF TypeOK
<1>3. /\ scope_starts'[scope_depth + 1] = symbol_count
      /\ \A d \in 0 .. scope_depth : scope_starts'[d] = scope_starts[d]
      /\ \A d \in 0 .. scope_depth : scope_starts[d] \in Nat
  BY ScopeAssumption DEF TypeOK
<1>4. symbols' = symbols /\ symbol_count' = symbol_count /\ InUse' = InUse
  BY DEF InUse
<1>5. Segments'
  <2>1. ASSUME NEW i \in InUse, NEW d \in 0 .. scope_depth'
        PROVE  symbols[i].depth = d <=>
                  /\ scope_starts'[d] <= i
                  /\ d < scope_depth' => i < scope_starts'[d + 1]
    <3>1. symbols[i].depth <= scope_depth /\ i < symbol_count /\ i \in Nat
      BY <1>2 DEF Segments, InUse
    <3>2. CASE d = scope_depth + 1
      <4>1. symbols[i].depth # d
        BY <3>1, <3>2, <1>2, ScopeAssumption DEF TypeOK, Symbol, Indexes, InUse
      <4> QED
        BY <4>1, <3>1, <3>2, <1>2, <1>3
    <3>3. CASE d = scope_depth
      BY <3>1, <3>3, <1>2, <1>3 DEF Segments
    <3>4. CASE d < scope_depth
      BY <3>1, <3>4, <1>2, <1>3 DEF Segments
    <3> QED
      BY <3>2, <3>3, <3>4, <1>2
  <2>2. \A d \in 0 .. scope_depth' : scope_starts'[d] <= symbol_count
    BY <1>2, <1>3 DEF Segments
  <2>3. \A d, e \in 0 .. scope_depth' : d <= e => scope_starts'[d] <= scope_starts'[e]
    BY <1>2, <1>3 DEF Segments
  <2>4. \A i \in InUse : symbols[i].depth <= scope_depth'
    BY <1>2, ScopeAssumption DEF Segments, TypeOK, Symbol, Indexes, InUse
  <2>5. scope_starts'[0] = 0
    BY <1>2, <1>3 DEF Segments
  <2> QED
    BY <2>1, <2>2, <2>3, <2>4, <2>5, <1>4 DEF Segments
<1>6. NoDuplicates'
  BY <1>4 DEF NoDuplicates
<1> QED
  BY <1>1, <1>5, <1>6

LEMMA LeaveInv == IInv /\ Leave => IInv'
<1> SUFFICES ASSUME IInv, Leave PROVE IInv'
  OBVIOUS
<1> USE DEF IInv, Leave
<1>1. /\ scope_depth \in 1 .. MaxStack - 1 /\ symbol_count \in Nat
      /\ scope_depth' = scope_depth - 1
      /\ symbol_count' = scope_starts[scope_depth]
      /\ scope_starts[scope_depth] \in 0 .. symbol_count
  BY ScopeAssumption DEF TypeOK, Segments
<1>2. TypeOK'
  BY <1>1, ScopeAssumption DEF TypeOK
<1>3. InUse' \subseteq InUse
  BY <1>1 DEF InUse
<1>4. Segments'
  <2>1. ASSUME NEW i \in InUse', NEW d \in 0 .. scope_depth'
        PROVE  symbols[i].depth = d <=>
                  /\ scope_starts[d] <= i
                  /\ d < scope_depth' => i < scope_starts[d + 1]
    BY <1>1, <1>3 DEF Segments, InUse
  <2>2. \A i \in InUse' : symbols[i].depth <= scope_depth'
    <3> TAKE i \in InUse'
    <3>1. i \in InUse /\ i < scope_starts[scope_depth] /\ i \in Nat
      BY <1>1, <1>3 DEF InUse
    <3>2. symbols[i].depth # scope_depth /\ symbols[i].depth <= scope_depth
      BY <1>1, <3>1 DEF Segments
    <3>3. symbols[i].depth \in Nat
      BY <1>1, <3>1, ScopeAssumption DEF TypeOK, Symbol, Indexes, InUse
    <3> QED
      BY <1>1, <3>2, <3>3
  <2>3. \A d, e \in 0 .. scope_depth' : d <= e => scope_starts[d] <= scope_starts[e]
    BY <1>1 DEF Segments
  <2>4. \A d \in 0 .. scope_depth' : scope_starts[d] <= symbol_count'
    BY <1>1 DEF Segments
  <2> QED
    BY <2>1, <2>2, <2>3, <2>4 DEF Segments
<1>5. NoDuplicates'
  BY <1>3 DEF NoDuplicates
<1> QED
  BY <1>2, <1>4, <1>5

LEMMA BindInv == ASSUME NEW n \in Names, NEW m \in BOOLEAN, IInv, Bind(n, m) PROVE IInv'
<1> USE DEF IInv, Bind, CanBind
<1>1. /\ symbol_count \in Indexes /\ symbol_count' = symbol_count + 1
      /\ symbol_count \in Nat /\ scope_depth \in Nat
      /\ scope_depth' = scope_depth /\ scope_starts' = scope_starts
  BY ScopeAssumption DEF TypeOK, Indexes
<1>2. TypeOK'
  BY <1>1, ScopeAssumption DEF TypeOK, Symbol, Indexes
<1> DEFINE new == symbols'[symbol_count]
<1>3. /\ new.id = n /\ new.depth = scope_depth
      /\ \A i \in InUse : symbols'[i] = symbols[i]
      /\ InUse' = InUse \cup {symbol_count}
  BY <1>1, ScopeAssumption DEF TypeOK, InUse, Indexes
<1> HIDE DEF new
<1>4. Segments'
  <2>1. ASSUME NEW i \in InUse', NEW d \in 0 .. scope_depth
        PROVE  symbols'[i].depth = d <=>
                  /\ scope_starts[d] <= i
                  /\ d < scope_depth => i < scope_starts[d + 1]
    <3>1. CASE i \in InUse
      BY <1>3, <3>1 DEF Segments
    <3>2. CASE i = symbol_count
      <4>1. scope_starts[d] <= i /\ (d < scope_depth => scope_starts[d + 1] <= i)
        BY <1>1, <3>2 DEF Segments
      <4>2. d < scope_depth => scope_starts[d + 1] \in Int
        BY <1>1, ScopeAssumption DEF TypeOK
      <4> QED
        BY <1>1, <1>3, <3>2, <4>1, <4>2 DEF new
    <3> QED
      BY <1>3, <3>1, <3>2
  <2>2. \A d \in 0 .. scope_depth : scope_starts[d] <= symbol_count + 1
    BY <1>1, ScopeAssumption DEF Segments, TypeOK
  <2>3. \A i \in InUse' : symbols'[i].depth <= scope_depth
    BY <1>1, <1>3 DEF Segments, new
  <2> QED
    BY <1>1, <2>1, <2>2, <2>3 DEF Segments
<1>5. \A i \in InUse : ~(symbols[i].id = n /\ symbols[i].depth = scope_depth)
  <2> SUFFICES ASSUME NEW i \in InUse, symbols[i].depth = scope_depth
               PROVE  symbols[i].id # n
    OBVIOUS
  <2>1. scope_starts[scope_depth] <= i
    BY <1>1 DEF Segments
  <2> QED
    BY <1>1, <2>1, ScopeAssumption DEF InUse, TypeOK
<1>6. NoDuplicates'
  <2> SUFFICES ASSUME NEW i \in InUse', NEW j \in InUse',
                      symbols'[i].id = symbols'[j].id,
                      symbols'[i].depth = symbols'[j].depth
               PROVE  i = j
    BY DEF NoDuplicates
  <2>1. CASE i \in InUse /\ j \in InUse
    BY <1>3, <2>1 DEF NoDuplicates
  <2>2. CASE i = symbol_count \/ j = symbol_count
    BY <1>3, <1>5, <2>2 DEF new
  <2> QED
    BY <1>3, <2>1, <2>2
<1> QED
  BY <1>2, <1>4, <1>6

LEMMA SameStackInv ==
    ASSUME IInv, UNCHANGED stackVars, returned' \in BOOLEAN, found' \subseteq Symbol
    PROVE  IInv'
BY DEF IInv, stackVars, TypeOK, Segments, NoDuplicates, InUse

LEMMA StepInv == IInv /\ [Next]_vars => IInv'
<1> SUFFICES ASSUME IInv, [Next]_vars PROVE IInv'
  OBVIOUS
<1>1. found \subseteq Symbol /\ returned \in BOOLEAN
  BY DEF IInv, TypeOK
<1>2. CASE Enter
  BY <1>2, EnterInv
<1>3. CASE Leave
  BY <1>3, LeaveInv
<1>4. ASSUME NEW n \in Names, NEW m \in BOOLEAN, Bind(n, m) PROVE IInv'
  BY <1>4, BindInv
<1>5. CASE Refuse
  BY <1>1, <1>5, SameStackInv DEF Refuse
<1>6. ASSUME NEW n \in Names, Lookup(n) PROVE IInv'
  <2>1. \A i \in InUse : symbols[i] \in Symbol
    BY ScopeAssumption DEF IInv, TypeOK, InUse, Indexes
  <2> QED
    BY <1>6, <2>1, SameStackInv DEF Lookup
<1>7. ASSUME NEW n \in Names, LookupFails(n) PROVE IInv'
  BY <1>7, SameStackInv DEF LookupFails
<1>8. CASE UNCHANGED vars
  BY <1>1, <1>8, SameStackInv DEF vars
<1> QED
  BY <1>2, <1>3, <1>4, <1>5, <1>6, <1>7, <1>8
     DEF Next, EnterRefused, LeaveRefused, BindRefused

\* The invariant that carries the refinement below.
THEOREM Inductive == Spec => []IInv
BY InitInv, StepInv, PTL DEF Spec

\* The two counts never pass the ends of their arrays.
THEOREM TypeCorrect == Spec => []TypeOK
BY Inductive, PTL DEF IInv

\* beet_scope_enter, _leave and _bind leave the segments of the array as the
\* open blocks made them, whatever was bound and left before.
THEOREM SegmentsHold == Spec => []Segments
BY Inductive, PTL DEF IInv

\* beet_scope_bind never puts a name twice in a block.
THEOREM NamesAreUnique == Spec => []NoDuplicates
BY Inductive, PTL DEF IInv
-----------------------------------------------------------------------------
(* The refinement.  Each call on the array is the call of the same name on *)
(* the environment that the set of its symbols in use forms.               *)

bar == {symbols[i] : i \in InUse}

LEMMA InUseFacts ==
    ASSUME IInv
    PROVE  /\ symbol_count \in Nat /\ scope_depth \in Nat
           /\ \A i \in InUse : i \in Indexes /\ i \in Nat /\ i < symbol_count
           /\ \A i \in InUse : symbols[i] \in Symbol /\ symbols[i].depth \in Nat
BY ScopeAssumption DEF IInv, TypeOK, InUse, Indexes, Symbol

\* No two positions of the array hold the same binding, so the room left is
\* the same in both.
LEMMA BarCardinality == IInv => Env!Cardinality(bar) = symbol_count
<1> SUFFICES ASSUME IInv PROVE Env!Cardinality(bar) = symbol_count
  OBVIOUS
<1> DEFINE f == [i \in InUse |-> symbols[i]]
<1>1. f \in Bijection(InUse, bar)
  <2>1. f \in [InUse -> bar]
    BY DEF bar
  <2>2. \A i, j \in InUse : f[i] = f[j] => i = j
    BY DEF IInv, NoDuplicates
  <2>3. \A b \in bar : \E i \in InUse : f[i] = b
    BY DEF bar
  <2> HIDE DEF f
  <2> QED
    BY <2>1, <2>2, <2>3 DEF Bijection, Injection, Surjection, IsInjective
<1>2. IsFiniteSet(InUse) /\ Cardinality(InUse) = symbol_count
  <2>1. symbol_count \in Nat
    BY InUseFacts
  <2>2. IsFiniteSet(0 .. symbol_count - 1)
        /\ Cardinality(0 .. symbol_count - 1) = (IF 0 > symbol_count - 1 THEN 0
                                                 ELSE symbol_count - 1 - 0 + 1)
    BY <2>1, FS_Interval
  <2> QED
    BY <2>1, <2>2 DEF InUse
<1>3. Cardinality(bar) = symbol_count
  <2> HIDE DEF f
  <2> QED
    BY <1>1, <1>2, FS_Bijection DEF ExistsBijection
<1> QED
  BY <1>3 DEF Cardinality, Env!Cardinality, IsFiniteSet, Env!IsFiniteSet

\* Later symbols belong to the same block or to one further in.
LEMMA DepthsGrow ==
    ASSUME IInv, NEW i \in InUse, NEW j \in InUse, j <= i
    PROVE  symbols[j].depth <= symbols[i].depth
<1> DEFINE d == symbols[i].depth
           e == symbols[j].depth
<1>1. d \in 0 .. scope_depth /\ e \in 0 .. scope_depth
  BY InUseFacts DEF IInv, Segments
<1>2. scope_starts[e] <= j /\ (d < scope_depth => i < scope_starts[d + 1])
  BY <1>1 DEF IInv, Segments
<1>3. \A k \in 0 .. scope_depth : scope_starts[k] \in Nat
  BY ScopeAssumption DEF IInv, TypeOK
<1>4. i \in Nat /\ j \in Nat /\ scope_depth \in Nat
  BY InUseFacts
<1> HIDE DEF d, e
<1>5. SUFFICES ASSUME d < e PROVE FALSE
  BY <1>1, <1>4 DEF d, e
<1>6. d + 1 \in 0 .. scope_depth /\ d + 1 <= e /\ d < scope_depth
  BY <1>1, <1>4, <1>5
<1>7. scope_starts[d + 1] <= scope_starts[e]
  BY <1>1, <1>6 DEF IInv, Segments
<1> QED
  BY <1>1, <1>2, <1>3, <1>4, <1>6, <1>7

\* The backward search finds the binding that no inner one hides.
LEMMA LatestIsVisible ==
    ASSUME IInv, NEW n \in Names, NEW i \in InUse, Latest(n, i)
    PROVE  {b \in bar : b.id = n /\ \A c \in bar : c.id = n => c.depth <= b.depth}
              = {symbols[i]}
<1>1. \A j \in InUse : symbols[j].id = n => j <= i
  BY InUseFacts DEF Latest, InUse
<1>2. \A j \in InUse : symbols[j].id = n => symbols[j].depth <= symbols[i].depth
  BY <1>1, DepthsGrow
<1>3. symbols[i] \in bar /\ symbols[i].id = n
  BY DEF bar, Latest
<1>4. ASSUME NEW b \in bar, b.id = n, symbols[i].depth <= b.depth
      PROVE  b = symbols[i]
  <2>1. PICK j \in InUse : b = symbols[j]
    BY DEF bar
  <2>2. symbols[j].depth = symbols[i].depth
    BY <1>2, <1>4, <2>1, InUseFacts
  <2> QED
    BY <1>3, <1>4, <2>1, <2>2 DEF IInv, NoDuplicates
<1>5. \A c \in bar : c.id = n => c.depth <= symbols[i].depth
  BY <1>2 DEF bar
<1> QED
  BY <1>3, <1>4, <1>5

LEMMA InitMaps == Init => Env!Init
BY DEF Init, Env!Init, InUse

LEMMA EnterMaps ==
    ASSUME IInv, Enter PROVE Env!Enter
<1>1. ~(scope_depth + 1 >= MaxStack)
  BY InUseFacts, ScopeAssumption DEF Enter, CanEnter
<1> QED
  BY <1>1 DEF Enter, Env!Enter, InUse

LEMMA LeaveMaps ==
    ASSUME IInv, Leave PROVE Env!Leave
<1>1. \A i \in InUse : symbols[i].depth < scope_depth <=> i < scope_starts[scope_depth]
  <2> TAKE i \in InUse
  <2>1. symbols[i].depth = scope_depth <=> scope_starts[scope_depth] <= i
    BY InUseFacts DEF IInv, Segments
  <2>2. symbols[i].depth <= scope_depth
    BY DEF IInv, Segments
  <2>3. scope_starts[scope_depth] \in Nat
    BY ScopeAssumption DEF IInv, TypeOK
  <2> QED
    BY <2>1, <2>2, <2>3, InUseFacts
<1>2. InUse' = {i \in InUse : i < scope_starts[scope_depth]}
  <2>1. scope_starts[scope_depth] \in Nat /\ scope_starts[scope_depth] <= symbol_count
    BY InUseFacts, ScopeAssumption DEF IInv, TypeOK, Segments
  <2> QED
    BY <2>1, InUseFacts DEF Leave, InUse
<1>3. {symbols'[i] : i \in InUse'} = {b \in bar : b.depth < scope_depth}
  BY <1>1, <1>2 DEF Leave, bar
<1> QED
  BY <1>3, InUseFacts DEF Leave, Env!Leave, bar

LEMMA BindMaps ==
    ASSUME IInv, NEW n \in Names, NEW m \in BOOLEAN, Bind(n, m) PROVE Env!Bind(n, m)
<1>1. Env!Cardinality(bar) < MaxSymbols
  BY BarCardinality DEF Bind, CanBind
<1>2. ASSUME NEW b \in bar, b.id = n, b.depth = scope_depth PROVE FALSE
  <2>1. PICK i \in InUse : b = symbols[i]
    BY DEF bar
  <2>2. scope_starts[scope_depth] <= i
    BY <1>2, <2>1, InUseFacts DEF IInv, Segments
  <2>3. scope_starts[scope_depth] \in Nat
    BY ScopeAssumption DEF IInv, TypeOK
  <2> QED
    BY <1>2, <2>1, <2>2, <2>3, InUseFacts DEF Bind, CanBind
<1>3. {symbols'[i] : i \in InUse'}
         = bar \cup {[id |-> n, depth |-> scope_depth, is_mutable |-> m]}
  <2>1. InUse' = InUse \cup {symbol_count}
    BY InUseFacts DEF Bind, InUse
  <2>2. /\ \A i \in InUse : symbols'[i] = symbols[i]
        /\ symbols'[symbol_count] = [id |-> n, depth |-> scope_depth, is_mutable |-> m]
    BY InUseFacts, ScopeAssumption DEF Bind, CanBind, IInv, TypeOK, Indexes
  <2> QED
    BY <2>1, <2>2 DEF bar
<1>4. ~(Env!Cardinality(bar) >= MaxSymbols)
  BY <1>1, BarCardinality, InUseFacts, ScopeAssumption
<1> QED
  BY <1>2, <1>3, <1>4 DEF Bind, Env!Bind, bar

\* A refusal has one of the two reasons that the environments know.
LEMMA BindRefusedMaps ==
    ASSUME IInv, NEW n \in Names, NEW m \in BOOLEAN, BindRefused(n)
    PROVE  Env!Bind(n, m)
<1>1. Env!Cardinality(bar) = symbol_count
  BY BarCardinality
<1>2. CASE ~(symbol_count < MaxSymbols)
  BY <1>1, <1>2, InUseFacts, ScopeAssumption
     DEF BindRefused, Refuse, stackVars, Env!Bind, Env!Refused, bar, InUse
<1>3. CASE \E i \in scope_starts[scope_depth] .. symbol_count - 1 : symbols[i].id = n
  <2>1. PICK i \in scope_starts[scope_depth] .. symbol_count - 1 : symbols[i].id = n
    BY <1>3
  <2>2. scope_starts[scope_depth] \in Nat
    BY ScopeAssumption DEF IInv, TypeOK
  <2>3. i \in InUse
    BY <2>2, InUseFacts DEF InUse
  <2>4. symbols[i].depth = scope_depth
    BY <2>1, <2>2, <2>3, InUseFacts DEF IInv, Segments
  <2>5. \E b \in bar : b.id = n /\ b.depth = scope_depth
    BY <2>1, <2>3, <2>4 DEF bar
  <2> QED
    BY <2>5 DEF BindRefused, Refuse, stackVars, Env!Bind, Env!Refused, bar, InUse
<1> QED
  BY <1>2, <1>3 DEF BindRefused, CanBind

LEMMA LookupMaps ==
    ASSUME IInv, NEW n \in Names, Lookup(n) PROVE Env!Lookup(n)
<1>1. PICK i \in InUse : Latest(n, i) /\ found' = {symbols[i]}
  BY DEF Lookup
<1>2. Env!Visible(n) = {symbols[i]}
  BY <1>1, LatestIsVisible DEF Env!Visible, bar
<1> QED
  BY <1>1, <1>2 DEF Lookup, stackVars, Env!Lookup, InUse

LEMMA LookupFailsMaps ==
    ASSUME IInv, NEW n \in Names, LookupFails(n) PROVE Env!Lookup(n)
<1>1. Env!Visible(n) = {}
  BY DEF LookupFails, Known, Env!Visible
<1> QED
  BY <1>1 DEF LookupFails, stackVars, Env!Lookup, InUse

LEMMA StepMaps == IInv /\ [Next]_vars => [Env!Next]_(Env!vars)
<1> SUFFICES ASSUME IInv, [Next]_vars PROVE [Env!Next]_(Env!vars)
  OBVIOUS
<1>1. CASE Enter
  BY <1>1, EnterMaps DEF Env!Next
<1>2. CASE Leave
  BY <1>2, LeaveMaps DEF Env!Next
<1>3. CASE EnterRefused
  BY <1>3, InUseFacts, ScopeAssumption
     DEF EnterRefused, CanEnter, Refuse, stackVars, Env!Next, Env!Enter, Env!Refused, InUse,
         IInv, TypeOK
<1>4. CASE LeaveRefused
  BY <1>4 DEF LeaveRefused, Refuse, stackVars, Env!Next, Env!Leave, Env!Refused, InUse
<1>5. ASSUME NEW n \in Names, NEW m \in BOOLEAN, Bind(n, m) PROVE Env!Next
  BY <1>5, BindMaps DEF Env!Next
<1>6. ASSUME NEW n \in Names, BindRefused(n) PROVE Env!Next
  BY <1>6, BindRefusedMaps DEF Env!Next
<1>7. ASSUME NEW n \in Names, Lookup(n) \/ LookupFails(n) PROVE Env!Next
  BY <1>7, LookupMaps, LookupFailsMaps DEF Env!Next
<1>8. CASE UNCHANGED vars
  BY <1>8 DEF vars, stackVars, Env!vars, InUse
<1> QED
  BY <1>1, <1>2, <1>3, <1>4, <1>5, <1>6, <1>7, <1>8 DEF Next

\* Name resolution's scope stack implements nested environments: what
\* beet_scope_lookup, _bind, _enter and _leave answer is what they promise.
THEOREM Refinement == Spec => ImplementsEnvironments
<1>1. Init => Env!Init
  BY InitMaps
<1>2. IInv /\ [Next]_vars => [Env!Next]_(Env!vars)
  BY StepMaps
<1> QED
  BY <1>1, <1>2, Inductive, PTL DEF Spec, ImplementsEnvironments, Env!Spec
=============================================================================
