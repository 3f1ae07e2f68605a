--------------------------- MODULE SourceTextProofs ---------------------------
(***************************************************************************)
(* The line index and the search in it are right for every text.           *)
(***************************************************************************)
EXTENDS SourceText, FiniteSetTheorems, TLAPS

\* How many of the lines' ends the two passes have seen.
Passes ==
    /\ phase = "count" =>
          /\ loaded /\ i <= Len(text) /\ count = 1 + Cardinality(NLs(i))
    /\ phase = "fill" =>
          /\ loaded /\ i <= Len(text) /\ line_count = count
          /\ count = 1 + Cardinality(NLs(Len(text)))
          /\ line_index = 1 + Cardinality(NLs(i))
          /\ line_index <= count
          /\ Indexed(line_index, i)

\* The line of the offset begins at or before it, and is not behind `high`.
Narrowed ==
    phase = "search" =>
        /\ loaded /\ offset <= Len(text)
        /\ low <= high /\ high <= line_count
        /\ low > 0 => line_index = low - 1 /\ line_starts[low - 1] <= offset
        /\ high < line_count => line_starts[high] > offset

Unasked == phase \in {"count", "fill"} => pos = {}

IInv == TypeOK /\ Passes /\ Narrowed /\ IndexComplete /\ PositionExact /\ Unasked
-----------------------------------------------------------------------------
(* Line ends.                                                              *)

LEMMA NLsFinite ==
    ASSUME NEW n \in Nat
    PROVE  IsFiniteSet(NLs(n)) /\ Cardinality(NLs(n)) \in Nat
<1>1. IsFiniteSet(0 .. n - 1)
  BY FS_Interval
<1>2. NLs(n) \subseteq 0 .. n - 1
  BY DEF NLs
<1> QED
  BY <1>1, <1>2, FS_Subset, FS_CardinalityType

LEMMA NLsGrow ==
    ASSUME NEW n \in Nat, NEW m \in Nat, n <= m
    PROVE  NLs(n) \subseteq NLs(m) /\ Cardinality(NLs(n)) <= Cardinality(NLs(m))
<1>1. NLs(n) \subseteq NLs(m)
  BY DEF NLs
<1> QED
  BY <1>1, NLsFinite, FS_Subset

LEMMA NLsNext ==
    ASSUME NEW n \in Nat
    PROVE  /\ IsNL(n) => /\ NLs(n + 1) = NLs(n) \cup {n}
                         /\ Cardinality(NLs(n + 1)) = Cardinality(NLs(n)) + 1
           /\ ~IsNL(n) => NLs(n + 1) = NLs(n)
<1>1. IsNL(n) => NLs(n + 1) = NLs(n) \cup {n}
  BY DEF NLs
<1>2. ~IsNL(n) => NLs(n + 1) = NLs(n)
  BY DEF NLs
<1>3. n \notin NLs(n)
  BY DEF NLs
<1> QED
  BY <1>1, <1>2, <1>3, NLsFinite, FS_AddElement

LEMMA NoNLs == NLs(0) = {} /\ Cardinality(NLs(0)) = 0
<1>1. NLs(0) = {}
  BY DEF NLs
<1> QED
  BY <1>1, FS_EmptySet

\* A complete index has a line more than line ends before an offset up to the
\* line the offset is in.
LEMMA LineNumber ==
    ASSUME NEW n \in Nat, NEW m \in Nat, NEW o \in Nat, NEW l \in 0 .. n - 1,
           \A j \in 0 .. n - 1 : line_starts[j] \in Int,
           Indexed(n, m), o <= m,
           line_starts[l] <= o,
           l + 1 < n => line_starts[l + 1] > o
    PROVE  /\ Cardinality(NLs(o)) = l
           /\ line_starts[l] \in 0 .. o
           /\ line_starts[l] = 0 \/ IsNL(line_starts[l] - 1)
           /\ \A k \in line_starts[l] .. o - 1 : ~IsNL(k)
<1> DEFINE f == [j \in 1 .. l |-> line_starts[j] - 1]
<1>1. \A j \in 1 .. l : j \in 1 .. n - 1 /\ line_starts[j] <= line_starts[l]
  BY DEF Indexed
<1>2. \A j \in 1 .. l : line_starts[j] - 1 \in NLs(o)
  BY <1>1 DEF Indexed, NLs
<1>3. \A k \in NLs(o) : \E j \in 1 .. l : line_starts[j] = k + 1
  <2> TAKE k \in NLs(o)
  <2>1. k \in NLs(m) /\ k + 1 <= o /\ k \in Nat
    BY DEF NLs
  <2>2. PICK j \in 1 .. n - 1 : line_starts[j] = k + 1
    BY <2>1 DEF Indexed
  <2>3. CASE j <= l
    BY <2>2, <2>3
  <2>4. CASE j > l
    <3>1. l + 1 < n /\ line_starts[l + 1] <= line_starts[j]
      BY <2>4 DEF Indexed
    <3> QED
      BY <2>1, <2>2, <3>1
  <2> QED
    BY <2>3, <2>4
<1>4. f \in Bijection(1 .. l, NLs(o))
  <2>1. f \in [1 .. l -> NLs(o)]
    BY <1>2
  <2>2. \A j, k \in 1 .. l : f[j] = f[k] => j = k
    <3> SUFFICES ASSUME NEW j \in 1 .. l, NEW k \in 1 .. l, f[j] = f[k] PROVE j = k
      OBVIOUS
    <3>1. line_starts[j] = line_starts[k]
      BY <1>1
    <3>2. ~(j < k) /\ ~(k < j)
      BY <1>1, <3>1 DEF Indexed
    <3> QED
      BY <3>2
  <2>3. \A k \in NLs(o) : \E j \in 1 .. l : f[j] = k
    BY <1>3 DEF NLs
  <2> HIDE DEF f
  <2> QED
    BY <2>1, <2>2, <2>3 DEF Bijection, Injection, Surjection, IsInjective
<1>5. IsFiniteSet(1 .. l) /\ Cardinality(1 .. l) = l
  BY FS_Interval
<1>6. Cardinality(NLs(o)) = l
  <2> HIDE DEF f
  <2> QED
    BY <1>4, <1>5, FS_Bijection DEF ExistsBijection
<1>7. line_starts[l] \in 0 .. o
  BY <1>2 DEF Indexed, NLs
<1>8. line_starts[l] = 0 \/ IsNL(line_starts[l] - 1)
  BY <1>2 DEF Indexed, NLs
<1>9. ASSUME NEW k \in line_starts[l] .. o - 1, IsNL(k) PROVE FALSE
  <2>1. k \in NLs(o)
    BY <1>7, <1>9 DEF NLs
  <2>2. PICK j \in 1 .. l : line_starts[j] = k + 1
    BY <1>3, <2>1
  <2> QED
    BY <1>1, <1>7, <2>2
<1> QED
  BY <1>6, <1>7, <1>8, <1>9
-----------------------------------------------------------------------------
(* The passes.                                                             *)

LEMMA NoEntries == Empty \in [0 .. 0 - 1 -> Int]
<1>1. 0 .. 0 - 1 = {}
  OBVIOUS
<1>2. DOMAIN Empty = {} /\ Empty = [j \in DOMAIN Empty |-> Empty[j]]
  BY DEF Empty
<1> QED
  BY <1>1, <1>2

LEMMA InitInv == Init => IInv
<1> SUFFICES ASSUME Init PROVE IInv
  OBVIOUS
<1>1. line_starts \in [0 .. line_count - 1 -> Int]
  BY NoEntries DEF Init
<1>2. text \in Seq(Chars)
  BY DEF Init
<1>3. TypeOK
  BY <1>1, <1>2 DEF Init, TypeOK
<1> QED
  BY <1>3 DEF Init, IInv, Passes, Narrowed, IndexComplete, PositionExact, Unasked

LEMMA LoadInv == ASSUME IInv, NEW t \in Texts, Load(t) PROVE IInv'
<1>1. NLs(0)' = {} /\ Cardinality(NLs(0)') = 0
  BY NoNLs, FS_EmptySet DEF NLs
<1>2. TypeOK'
  BY TextAssumption DEF IInv, TypeOK, Load, Empty, searchVars
<1>3. 0 <= Len(t) /\ Len(t) \in Nat
  BY TextAssumption
<1>4. Passes'
  BY <1>1, <1>3 DEF Load, Passes
<1> QED
  BY <1>2, <1>4 DEF IInv, Load, Narrowed, IndexComplete, PositionExact, Unasked

LEMMA ClearInv == IInv /\ (LoadFails \/ AllocateFails) => IInv'
<1> SUFFICES ASSUME IInv, LoadFails \/ AllocateFails PROVE IInv'
  OBVIOUS
<1>1. Cleared /\ phase' = "idle" /\ pos' = {} /\ UNCHANGED <<i, count, line_index, searchVars>>
  BY DEF IInv, Unasked, LoadFails, AllocateFails
<1>2. line_starts' \in [0 .. line_count' - 1 -> Int]
  BY <1>1, NoEntries DEF Cleared
<1>3. text' \in Seq(Chars)
  BY <1>1 DEF Cleared
<1>4. TypeOK'
  BY <1>1, <1>2, <1>3 DEF IInv, TypeOK, Cleared, searchVars
<1> QED
  BY <1>1, <1>4 DEF IInv, Cleared, Passes, Narrowed, IndexComplete, PositionExact, Unasked

LEMMA CountInv == IInv /\ Count => IInv'
<1> SUFFICES ASSUME IInv, Count PROVE IInv'
  OBVIOUS
<1> PICK n \in Nat : n = i
  BY DEF IInv, TypeOK
<1>1. n < Len(text) /\ Len(text) \in Nat /\ loaded /\ count = 1 + Cardinality(NLs(n))
      /\ Cardinality(NLs(n)) \in Nat
  BY NLsFinite DEF IInv, TypeOK, Passes, Count
<1>2. UNCHANGED <<fileVars, phase, line_index, searchVars, pos>> /\ phase = "count" /\ i' = n + 1
  BY DEF Count
<1>3. count' = 1 + Cardinality(NLs(n + 1)) /\ count' \in Nat
  BY <1>1, NLsNext DEF Count
<1>4. \A m : NLs(m)' = NLs(m)
  BY <1>2 DEF NLs, IsNL, fileVars
<1>5. TypeOK'
  BY <1>2, <1>3 DEF IInv, TypeOK, fileVars, searchVars
<1>6. Passes'
  BY <1>1, <1>2, <1>3, <1>4 DEF Passes, fileVars
<1> QED
  BY <1>2, <1>5, <1>6 DEF IInv, Narrowed, IndexComplete, PositionExact, Unasked

LEMMA AllocateInv == IInv /\ Allocate => IInv'
<1> SUFFICES ASSUME IInv, Allocate PROVE IInv'
  OBVIOUS
<1>1. /\ loaded /\ count = 1 + Cardinality(NLs(Len(text))) /\ Len(text) \in Nat
      /\ Cardinality(NLs(Len(text))) \in Nat
  BY NLsFinite DEF IInv, TypeOK, Passes, Allocate
<1>2. /\ UNCHANGED <<text, loaded, count, searchVars, pos>> /\ phase' = "fill" /\ i' = 0
      /\ line_index' = 1 /\ line_count' = count
      /\ line_starts' = [j \in 0 .. count - 1 |-> IF j = 0 THEN 0 ELSE Unset]
      /\ phase = "count"
  BY DEF Allocate
<1>3. \A m : NLs(m)' = NLs(m)
  BY <1>2 DEF NLs, IsNL
<1>4. TypeOK'
  BY <1>1, <1>2 DEF IInv, TypeOK, Unset, searchVars
<1>5. line_starts'[0] = 0
  BY <1>1, <1>2
<1>6. Indexed(1, 0)'
  BY <1>3, <1>5, NoNLs DEF Indexed
<1>7. Passes'
  BY <1>1, <1>2, <1>3, <1>6, NoNLs DEF Passes
<1> QED
  BY <1>2, <1>4, <1>7 DEF IInv, Narrowed, IndexComplete, PositionExact, Unasked

LEMMA FillInv == IInv /\ Fill => IInv'
<1> SUFFICES ASSUME IInv, Fill PROVE IInv'
  OBVIOUS
<1> PICK n \in Nat : n = i
  BY DEF IInv, TypeOK
<1> PICK l \in Nat : l = line_index
  BY DEF IInv, TypeOK
<1>1. /\ n < Len(text) /\ Len(text) \in Nat /\ loaded /\ line_count = count /\ count \in Nat
      /\ count = 1 + Cardinality(NLs(Len(text)))
      /\ l = 1 + Cardinality(NLs(n)) /\ l <= count
      /\ Indexed(l, n)
      /\ line_starts \in [0 .. count - 1 -> Int]
  BY DEF IInv, TypeOK, Passes, Fill
<1>2. /\ UNCHANGED <<text, loaded, line_count, phase, count, searchVars, pos>>
      /\ i' = n + 1 /\ phase = "fill"
  BY DEF Fill
<1>3. \A m : NLs(m)' = NLs(m)
  BY <1>2 DEF NLs, IsNL
<1>4. CASE ~IsNL(n)
  <2>1. line_starts' = line_starts /\ line_index' = l /\ NLs(n + 1) = NLs(n)
    BY <1>4, NLsNext DEF Fill
  <2>2. TypeOK'
    BY <1>2, <2>1 DEF IInv, TypeOK, searchVars
  <2>3. Indexed(l, n + 1)'
    BY <1>1, <1>3, <2>1 DEF Indexed
  <2>4. Passes'
    BY <1>1, <1>2, <1>3, <2>1, <2>3 DEF Passes
  <2> QED
    BY <1>2, <2>2, <2>4 DEF IInv, Narrowed, IndexComplete, PositionExact, Unasked
<1>5. CASE IsNL(n)
  <2>1. NLs(n + 1) = NLs(n) \cup {n} /\ Cardinality(NLs(n + 1)) = l
    <3>1. /\ NLs(n + 1) = NLs(n) \cup {n}
          /\ Cardinality(NLs(n + 1)) = Cardinality(NLs(n)) + 1
      BY <1>5, NLsNext
    <3>2. Cardinality(NLs(n)) \in Nat
      BY NLsFinite
    <3> QED
      BY <1>1, <3>1, <3>2
  <2>2. l < count /\ l \in 0 .. count - 1 /\ 0 < l
    <3>1. Cardinality(NLs(n + 1)) <= Cardinality(NLs(Len(text)))
      <4>1. n + 1 \in Nat /\ Len(text) \in Nat /\ n + 1 <= Len(text)
        BY <1>1
      <4> QED
        BY <4>1, NLsGrow
    <3>2. Cardinality(NLs(Len(text))) \in Nat /\ Cardinality(NLs(n)) \in Nat
      BY <1>1, NLsFinite
    <3> QED
      BY <1>1, <2>1, <3>1, <3>2
  <2> line_starts \in [0 .. count - 1 -> Int] /\ count \in Nat /\ line_count = count
    BY <1>1
  <2>3. line_starts' = [line_starts EXCEPT ![l] = n + 1] /\ line_index' = l + 1
    BY <1>5, <2>2 DEF Fill
  <2>4. TypeOK'
    <3>1. line_starts' \in [0 .. count - 1 -> Int]
      <4>1. line_starts \in [0 .. count - 1 -> Int] /\ n + 1 \in Int
        BY <1>1
      <4> QED
        BY <2>3, <4>1
    <3> QED
      BY <1>2, <2>3, <3>1 DEF IInv, TypeOK, searchVars
  <2>5. /\ line_starts'[l] = n + 1
        /\ \A j \in 0 .. l - 1 : line_starts'[j] = line_starts[j] /\ line_starts[j] \in Int
    BY <2>2, <2>3
  <2>6. \A j \in 0 .. l - 1 : line_starts[j] < n + 1
    BY <1>1, <2>5 DEF Indexed, NLs
  <2>7. Indexed(l + 1, n + 1)'
    <3>1. line_starts'[0] = 0 /\ l + 1 > 0
      BY <1>1, <2>5 DEF Indexed
    <3>2. \A j \in 1 .. l : line_starts'[j] - 1 \in NLs(n + 1)
      <4> TAKE j \in 1 .. l
      <4>1. CASE j = l
        BY <2>1, <2>5, <4>1
      <4>2. CASE j \in 1 .. l - 1
        BY <1>1, <2>1, <2>5, <4>2 DEF Indexed
      <4> QED
        BY <4>1, <4>2
    <3>3. \A j, k \in 0 .. l : j < k => line_starts'[j] < line_starts'[k]
      BY <1>1, <2>5, <2>6 DEF Indexed
    <3>4. \A k \in NLs(n + 1) : \E j \in 1 .. l : line_starts'[j] = k + 1
      <4> TAKE k \in NLs(n + 1)
      <4>1. CASE k = n
        <5>1. l \in 1 .. l
          BY <1>1 DEF Indexed
        <5> QED
          BY <2>5, <4>1, <5>1
      <4>2. CASE k \in NLs(n)
        <5>1. PICK j \in 1 .. l - 1 : line_starts[j] = k + 1
          BY <1>1, <4>2 DEF Indexed
        <5> QED
          BY <2>5, <5>1
      <4> QED
        BY <2>1, <4>1, <4>2
    <3> QED
      BY <1>3, <3>1, <3>2, <3>3, <3>4 DEF Indexed
  <2>8. Passes'
    BY <1>1, <1>2, <1>3, <2>1, <2>2, <2>3, <2>7 DEF Passes
  <2> QED
    BY <1>2, <2>4, <2>8 DEF IInv, Narrowed, IndexComplete, PositionExact, Unasked
<1> QED
  BY <1>4, <1>5

\* The second pass has met every line end that the first one counted.
LEMMA FilledInv == IInv /\ Filled => IInv'
<1> SUFFICES ASSUME IInv, Filled PROVE IInv'
  OBVIOUS
<1>1. UNCHANGED <<fileVars, i, count, line_index, searchVars, pos>> /\ phase' = "idle"
      /\ phase = "fill"
  BY DEF Filled
<1>2. Indexed(line_count, Len(text)) /\ loaded
  BY DEF IInv, TypeOK, Passes, Filled
<1>3. IndexComplete'
  BY <1>1, <1>2 DEF IndexComplete, Indexed, NLs, IsNL, fileVars
<1>4. TypeOK'
  BY <1>1 DEF IInv, TypeOK, fileVars, searchVars
<1> QED
  BY <1>1, <1>3, <1>4 DEF IInv, Passes, Narrowed, PositionExact, Unasked
-----------------------------------------------------------------------------
(* The search.                                                             *)

LEMMA AskInv == ASSUME IInv, loaded, NEW o \in 0 .. Len(text), Ask(o) PROVE IInv'
<1>1. UNCHANGED <<fileVars, i, count, pos>> /\ phase = "idle" /\ phase' = "search"
      /\ offset' = o /\ low' = 0 /\ high' = line_count /\ line_index' = 0
      /\ o \in Nat /\ Len(text) \in Nat /\ line_count \in Nat
  BY DEF Ask, IInv, TypeOK
<1>2. TypeOK'
  BY <1>1 DEF IInv, TypeOK, fileVars
<1>3. Narrowed'
  BY <1>1 DEF Narrowed, fileVars
<1>4. IndexComplete' /\ PositionExact'
  BY <1>1 DEF IInv, IndexComplete, PositionExact, Indexed, NLs, IsNL, fileVars
<1> QED
  BY <1>1, <1>2, <1>3, <1>4 DEF IInv, Passes, Unasked

LEMMA Middle ==
    ASSUME IInv, phase = "search", low < high
    PROVE  /\ mid \in Nat /\ low <= mid /\ mid < high /\ high <= line_count
           /\ low \in Nat /\ high \in Nat /\ line_count \in Nat
           /\ line_starts[mid] \in Int /\ offset \in Int
BY DEF IInv, TypeOK, Narrowed, mid

LEMMA SearchInv == IInv /\ Search => IInv'
<1> SUFFICES ASSUME IInv, Search PROVE IInv'
  OBVIOUS
<1>1. UNCHANGED <<fileVars, phase, i, count, offset, pos>> /\ phase = "search" /\ low < high
  BY DEF Search
<1> PICK m \in Nat : m = mid
  BY <1>1, Middle
<1>2. /\ low <= m /\ m < high /\ high <= line_count
      /\ low \in Nat /\ high \in Nat /\ line_count \in Nat
      /\ line_starts[m] \in Int /\ offset \in Int
  BY <1>1, Middle
<1>3. \/ line_starts[m] <= offset /\ line_index' = m /\ low' = m + 1 /\ high' = high
      \/ line_starts[m] > offset /\ high' = m /\ low' = low /\ line_index' = line_index
  BY <1>2 DEF Search
<1>4. TypeOK'
  BY <1>1, <1>3 DEF IInv, TypeOK, fileVars
<1>5. Narrowed'
  BY <1>1, <1>2, <1>3 DEF IInv, Narrowed, fileVars
<1>6. IndexComplete' /\ PositionExact'
  BY <1>1 DEF IInv, IndexComplete, PositionExact, Indexed, NLs, IsNL, fileVars
<1> QED
  BY <1>1, <1>4, <1>5, <1>6 DEF IInv, Passes, Unasked

\* Where the search ends, the line of the offset is the one before both bounds.
LEMMA SearchEnds ==
    ASSUME IInv, phase = "search", low >= high
    PROVE  /\ line_index \in 0 .. line_count - 1
           /\ line_starts[line_index] <= offset
           /\ line_index + 1 < line_count => line_starts[line_index + 1] > offset
           /\ Indexed(line_count, Len(text))
           /\ \A j \in 0 .. line_count - 1 : line_starts[j] \in Int
           /\ offset \in Nat /\ Len(text) \in Nat /\ offset <= Len(text) /\ line_count \in Nat
<1>1. /\ low = high /\ low \in Nat /\ high <= line_count /\ line_count \in Nat
      /\ Indexed(line_count, Len(text)) /\ offset \in Nat
      /\ low > 0 => line_index = low - 1 /\ line_starts[low - 1] <= offset
      /\ high < line_count => line_starts[high] > offset
  BY DEF IInv, TypeOK, Narrowed, IndexComplete
<1>2. line_starts[0] = 0 /\ line_count > 0
  BY <1>1 DEF Indexed
<1>3. low > 0
  BY <1>1, <1>2
<1>4. line_index = low - 1 /\ line_index + 1 = high
  BY <1>1, <1>3
<1> QED
  BY <1>1, <1>3, <1>4 DEF IInv, TypeOK, Narrowed

LEMMA FoundInv == IInv /\ Found => IInv'
<1> SUFFICES ASSUME IInv, Found PROVE IInv'
  OBVIOUS
<1> DEFINE start == line_starts[line_index]
<1>1. UNCHANGED <<fileVars, i, count, line_index, searchVars>> /\ phase = "search" /\ phase' = "idle"
      /\ low >= high
      /\ pos' = {[offset |-> offset, line |-> line_index + 1, column |-> offset - start + 1]}
  BY DEF Found
<1>2. /\ Cardinality(NLs(offset)) = line_index
      /\ start \in 0 .. offset
      /\ start = 0 \/ IsNL(start - 1)
      /\ \A k \in start .. offset - 1 : ~IsNL(k)
      /\ offset \in Nat /\ line_index \in Nat
  BY <1>1, SearchEnds, LineNumber
<1> HIDE DEF start
<1>3. TypeOK'
  BY <1>1, <1>2 DEF IInv, TypeOK, fileVars, searchVars
<1>4. \A n : NLs(n)' = NLs(n) /\ IsNL(n)' = IsNL(n)
  BY <1>1 DEF NLs, IsNL, fileVars
<1>5. offset - ((offset - start + 1) - 1) = start
  BY <1>2
<1>6. PositionExact'
  BY <1>1, <1>2, <1>4, <1>5 DEF PositionExact
<1>7. IndexComplete'
  BY <1>1 DEF IInv, IndexComplete, Indexed, NLs, IsNL, fileVars
<1> QED
  BY <1>1, <1>3, <1>6, <1>7 DEF IInv, Passes, Narrowed, Unasked
-----------------------------------------------------------------------------
LEMMA StutterInv == IInv /\ UNCHANGED vars => IInv'
<1> SUFFICES ASSUME IInv, UNCHANGED vars PROVE IInv'
  OBVIOUS
<1>1. UNCHANGED <<text, loaded, line_starts, line_count, phase, i, count, line_index,
                  offset, low, high, pos>>
  BY DEF vars, fileVars, searchVars
<1>2. \A n : NLs(n)' = NLs(n) /\ IsNL(n)' = IsNL(n)
  BY <1>1 DEF NLs, IsNL
<1>3. \A n, m : Indexed(n, m)' = Indexed(n, m)
  BY <1>1, <1>2 DEF Indexed
<1>4. PositionExact'
  BY <1>1, <1>2 DEF IInv, PositionExact
<1>5. Passes' /\ IndexComplete'
  BY <1>1, <1>2, <1>3 DEF IInv, Passes, IndexComplete
<1> QED
  BY <1>1, <1>4, <1>5 DEF IInv, TypeOK, Narrowed, Unasked

LEMMA StepInv == IInv /\ [Next]_vars => IInv'
BY LoadInv, ClearInv, CountInv, AllocateInv, FillInv, FilledInv, AskInv, SearchInv, FoundInv,
   StutterInv DEF Next, Loops

\* The inductive invariant of the two passes and the search.
THEOREM Inductive == Spec => []IInv
BY InitInv, StepInv, PTL DEF Spec

\* A file has the index of its whole text or nothing, however loading went.
THEOREM IndexIsComplete == Spec => []IndexComplete
BY Inductive, PTL DEF IInv

\* beet_source_pos_at is right for every text and every offset in it.
THEOREM PositionsAreExact == Spec => []PositionExact
BY Inductive, PTL DEF IInv

\* The search reads inside the index, and its column does not wrap.
THEOREM SearchStaysInBounds == Spec => []SearchInBounds
<1>1. IInv => SearchInBounds
  BY Middle, SearchEnds DEF SearchInBounds
<1> QED
  BY <1>1, Inductive, PTL

\* What is loaded, the index and the phases have their types throughout.
THEOREM TypeCorrect == Spec => []TypeOK
BY Inductive, PTL DEF IInv
-----------------------------------------------------------------------------
(* Printing the line of a position.                                        *)

\* While the file has a text, what the last search returned is on its line.
Answered ==
    loaded => \A p \in pos :
        /\ p.line \in 1 .. line_count /\ p.offset \in 0 .. Len(text)
        /\ line_starts[p.line - 1] <= p.offset
        /\ p.line < line_count => p.offset < line_starts[p.line]
        /\ p.column = p.offset - line_starts[p.line - 1] + 1

LEMMA FoundAnswered == IInv /\ Found => Answered'
<1> SUFFICES ASSUME IInv, Found PROVE Answered'
  OBVIOUS
<1>1. UNCHANGED <<text, loaded, line_starts, line_count>> /\ phase = "search" /\ low >= high
      /\ pos' = {[offset |-> offset, line |-> line_index + 1,
                  column |-> offset - line_starts[line_index] + 1]}
  BY DEF Found, fileVars
<1>2. /\ line_index \in 0 .. line_count - 1
      /\ line_starts[line_index] <= offset
      /\ line_index + 1 < line_count => line_starts[line_index + 1] > offset
      /\ offset \in 0 .. Len(text) /\ line_count \in Nat
      /\ \A j \in 0 .. line_count - 1 : line_starts[j] \in Int
  BY <1>1, SearchEnds
<1>3. line_index + 1 \in 1 .. line_count /\ (line_index + 1) - 1 = line_index
  BY <1>2
<1>4. line_index + 1 < line_count => offset < line_starts[line_index + 1]
  BY <1>2
<1> QED
  BY <1>1, <1>2, <1>3, <1>4 DEF Answered

LEMMA StepAnswered == IInv /\ Answered /\ [Next]_vars => Answered'
<1> SUFFICES ASSUME IInv, Answered, [Next]_vars PROVE Answered'
  OBVIOUS
<1>1. CASE \E t \in Texts : Load(t)
  BY <1>1 DEF Load, Answered
<1>2. CASE LoadFails \/ AllocateFails
  BY <1>2 DEF LoadFails, AllocateFails, Cleared, Answered
<1>3. CASE Allocate \/ Fill
  BY <1>3 DEF Allocate, Fill, Answered, IInv, Unasked
<1>4. CASE \/ Count \/ Filled \/ Search \/ UNCHANGED vars
           \/ \E o \in 0 .. Len(text) : Ask(o)
  BY <1>4 DEF Count, Filled, Search, Ask, vars, fileVars, Answered
<1>5. CASE Found
  BY <1>5, FoundAnswered
<1> QED
  BY <1>1, <1>2, <1>3, <1>4, <1>5 DEF Next, Loops

LEMMA LineOfAnswer ==
    ASSUME IInv, Answered, loaded, NEW p \in pos
    PROVE  \E l \in LineText(p.line) :
              /\ l.start >= 0 /\ l.len >= 0 /\ l.start + l.len <= Len(text)
              /\ \A k \in l.start .. l.start + l.len - 1 : ~IsNL(k)
              /\ l.start + l.len = Len(text) \/ IsNL(l.start + l.len)
              /\ p.column - 1 \in 0 .. l.len
<1> DEFINE x == p.line - 1
           start == line_starts[x]
<1>1. Indexed(line_count, Len(text)) /\ line_count \in Nat /\ Len(text) \in Nat
      /\ \A j \in 0 .. line_count - 1 : line_starts[j] \in Int
  BY DEF IInv, TypeOK, IndexComplete, Unasked
<1>2. /\ p.line \in Nat /\ p.line # 0 /\ x \in 0 .. line_count - 1 /\ p.offset \in 0 .. Len(text)
      /\ start \in Int /\ start <= p.offset /\ p.column - 1 = p.offset - start
      /\ x + 1 = p.line
  BY <1>1 DEF Answered
<1>3. start >= 0
  <2>1. CASE x = 0
    BY <1>1, <2>1 DEF Indexed
  <2>2. CASE x \in 1 .. line_count - 1
    BY <1>1, <2>2 DEF Indexed, NLs
  <2> QED
    BY <1>1, <1>2, <2>1, <2>2
<1>4. CASE x + 1 < line_count
  <2> DEFINE end == line_starts[x + 1]
  <2>1. x + 1 \in 1 .. line_count - 1
    BY <1>1, <1>2, <1>4
  <2>2. end - 1 \in NLs(Len(text)) /\ end \in Int
    BY <1>1, <2>1 DEF Indexed
  <2>3. end - 1 \in 0 .. Len(text) - 1 /\ IsNL(end - 1)
    BY <2>2 DEF NLs
  <2>4. p.offset < end
    BY <1>2, <1>4 DEF Answered
  <2>5. end > start
    BY <1>2, <2>2, <2>4
  <2>6. ASSUME NEW k \in start .. end - 2, IsNL(k) PROVE FALSE
    <3> HIDE DEF end, start
    <3>1. k \in 0 .. Len(text) - 1
      <4>1. end \in Int /\ end - 1 \in 0 .. Len(text) - 1 /\ start \in Int /\ start >= 0 /\ Len(text) \in Nat
        BY <1>1, <1>2, <1>3, <2>2, <2>3
      <4> QED
        BY <4>1
    <3>5. k \in NLs(Len(text))
      BY <2>6, <3>1 DEF NLs
    <3> USE DEF end, start
    <3>2. PICK j \in 1 .. line_count - 1 : line_starts[j] = k + 1
      BY <1>1, <3>5 DEF Indexed
    <3>3. j > x
      <4>1. CASE j < x
        BY <1>1, <1>2, <3>2, <4>1 DEF Indexed
      <4>2. CASE j = x
        BY <1>1, <1>2, <3>2, <4>2
      <4> QED
        BY <1>1, <1>2, <4>1, <4>2
    <3>4. j < x + 1
      <4>1. CASE j > x + 1
        BY <1>1, <2>1, <2>2, <3>2, <4>1 DEF Indexed
      <4>2. CASE j = x + 1
        BY <1>1, <2>2, <3>2, <4>2
      <4> QED
        BY <1>1, <1>2, <4>1, <4>2
    <3> QED
      BY <1>1, <1>2, <3>3, <3>4
  <2> HIDE DEF end
  <2>7. LineEnd(x) = end - 1
    BY <1>4, <2>3, <2>5 DEF LineEnd, end
  <2>8. LineText(p.line) = {[start |-> start, len |-> (end - 1) - start]}
    BY <1>1, <1>2, <2>7 DEF LineText
  <2> DEFINE l == [start |-> start, len |-> (end - 1) - start]
  <2> HIDE DEF start
  <2>9. /\ l.start >= 0 /\ l.len >= 0 /\ l.start + l.len = end - 1
        /\ p.column - 1 \in 0 .. l.len
        /\ l.start + l.len <= Len(text) /\ l.start = start /\ l.start + l.len - 1 = end - 2
    BY <1>1, <1>2, <1>3, <2>2, <2>3, <2>4, <2>5
  <2>10. l \in LineText(p.line)
    BY <2>8
  <2>11. \A k \in l.start .. l.start + l.len - 1 : ~IsNL(k)
    <3> SUFFICES \A k \in start .. end - 2 : ~IsNL(k)
      BY <2>9
    <3> QED
      BY <2>6
  <2>12. IsNL(l.start + l.len)
    BY <2>3, <2>9
  <2> HIDE DEF l
  <2> QED
    BY <2>9, <2>10, <2>11, <2>12
<1>5. CASE ~(x + 1 < line_count)
  <2>1. LineText(p.line) = {[start |-> start, len |-> Len(text) - start]}
    BY <1>1, <1>2, <1>5 DEF LineText, LineEnd
  <2>2. ASSUME NEW k \in start .. Len(text) - 1, IsNL(k) PROVE FALSE
    <3>1. k \in NLs(Len(text))
      BY <1>1, <1>2, <1>3, <2>2 DEF NLs
    <3>2. PICK j \in 1 .. line_count - 1 : line_starts[j] = k + 1
      BY <1>1, <3>1 DEF Indexed
    <3>3. j < x \/ j = x
      BY <1>1, <1>2, <1>5
    <3> QED
      BY <1>1, <1>2, <3>2, <3>3 DEF Indexed
  <2> DEFINE l == [start |-> start, len |-> Len(text) - start]
  <2> HIDE DEF start
  <2>3. /\ l.start >= 0 /\ l.len >= 0 /\ l.start + l.len = Len(text)
        /\ p.column - 1 \in 0 .. l.len
        /\ l.start + l.len <= Len(text) /\ l.start = start
        /\ l.start + l.len - 1 = Len(text) - 1
    BY <1>1, <1>2, <1>3
  <2>4. l \in LineText(p.line)
    BY <2>1
  <2>5. \A k \in l.start .. l.start + l.len - 1 : ~IsNL(k)
    BY <2>2, <2>3
  <2> HIDE DEF l
  <2> QED
    BY <2>3, <2>4, <2>5
<1> QED
  BY <1>4, <1>5

\* beet_source_line_text has a text for every position that beet_source_pos_at
\* returned, the text of one whole line, and the column is in it.
THEOREM PositionsArePrintable == Spec => []LinePrintable
<1>1. Init => Answered
  BY DEF Init, Answered
<1>2. IInv /\ Answered => LinePrintable
  BY LineOfAnswer DEF LinePrintable
<1> QED
  BY <1>1, <1>2, StepAnswered, Inductive, PTL DEF Spec
=============================================================================
