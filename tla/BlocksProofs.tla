---------------------------- MODULE BlocksProofs ----------------------------
(***************************************************************************)
(* The storage of statements, for every size of the arrays: each statement *)
(* has one node, the blocks lie in the part of the pool that was taken and *)
(* are as long as the source has them, and a block is what the source has  *)
(* there exactly if no statement but its last has nested ones.             *)
(*                                                                         *)
(* The invariant has four parts.  Fits: the blocks on the stack lie beside *)
(* each other in the pool.  Numbered: each statement has one node.  Source:*)
(* the stack and the closed blocks are in step with what was written.      *)
(* Placed: which node each statement of a block has.                       *)
(***************************************************************************)
EXTENDS Blocks, TLAPS

Construct_ == [stmt : Id, kind : Kinds, start : 0 .. MaxStmtNodes, count : 0 .. MaxStmtNodes]
Place == [start : 0 .. MaxStmtNodes, count : 0 .. MaxStmtNodes]

Top(o) == o[Len(o)]
Front(o) == SubSeq(o, 1, Len(o) - 1)

\* A block that is still open ends before the block of the statement open in
\* it; the innermost ends in the n nodes taken.  A case is above its match.
Stacked(o, n) ==
    /\ o \in Seq(Construct_)
    /\ \A i \in DOMAIN o : i + 1 \in DOMAIN o =>
          /\ o[i].kind = "match" <=> o[i + 1].kind = "case"
          /\ o[i].kind = "match" => o[i].stmt = o[i + 1].stmt
          /\ o[i].kind = "match" => o[i].start + o[i].count <= o[i + 1].start
          /\ o[i].kind # "match" => o[i].start + o[i].count + 1 <= o[i + 1].start
    /\ o # <<>> => /\ Top(o).start + Top(o).count <= n
                   /\ o[1].kind # "case"

Fits ==
    /\ TypeOK
    /\ Stacked(open, Len(nodes))
    /\ \A s \in Id : \A b \in DOMAIN blocks[s] :
          blocks[s][b].start + blocks[s][b].count <= Len(nodes)
-----------------------------------------------------------------------------
(* The stack of open constructs.                                           *)

LEMMA StackFacts ==
    ASSUME NEW o, NEW n, Stacked(o, n)
    PROVE  /\ Len(o) \in Nat /\ DOMAIN o = 1 .. Len(o)
           /\ \A i \in DOMAIN o : /\ o[i] \in Construct_ /\ o[i].kind \in Kinds
                                  /\ o[i].start \in Nat /\ o[i].count \in Nat
                                  /\ o[i].stmt \in Id
           /\ o # <<>> => Len(o) \in DOMAIN o /\ 1 \in DOMAIN o /\ Len(o) > 0
<1>1. o \in Seq(Construct_)
  BY DEF Stacked
<1>2. Len(o) \in Nat /\ DOMAIN o = 1 .. Len(o) /\ \A i \in DOMAIN o : o[i] \in Construct_
  BY <1>1
<1>3. o # <<>> => Len(o) > 0
  BY <1>1
<1>4. \A c \in Construct_ : c.kind \in Kinds /\ c.start \in Nat /\ c.count \in Nat /\ c.stmt \in Id
  BY BlocksAssumption DEF Construct_
<1> QED
  BY <1>2, <1>3, <1>4

LEMMA PushStacked ==
    ASSUME NEW o, NEW n \in Nat, NEW m \in Nat, Stacked(o, n), NEW c \in Construct_,
           c.count = 0, c.start = m, n <= m,
           o = <<>> => c.kind # "case",
           o # <<>> => /\ Top(o).kind = "match" <=> c.kind = "case"
                       /\ Top(o).kind = "match" => Top(o).stmt = c.stmt
                       /\ Top(o).kind # "match" => n + 1 <= m
    PROVE  Stacked(Append(o, c), m)
<1> DEFINE p == Append(o, c)
<1>1. /\ p \in Seq(Construct_) /\ Len(p) = Len(o) + 1 /\ DOMAIN p = 1 .. Len(o) + 1
      /\ p[Len(o) + 1] = c /\ \A i \in 1 .. Len(o) : p[i] = o[i]
  BY DEF Stacked
<1> HIDE DEF p
<1>2. ASSUME NEW i \in DOMAIN p, i + 1 \in DOMAIN p
      PROVE  /\ p[i].kind = "match" <=> p[i + 1].kind = "case"
             /\ p[i].kind = "match" => p[i].stmt = p[i + 1].stmt
             /\ p[i].kind = "match" => p[i].start + p[i].count <= p[i + 1].start
             /\ p[i].kind # "match" => p[i].start + p[i].count + 1 <= p[i + 1].start
  <2>1. CASE i = Len(o)
    <3>1. o # <<>> /\ p[i] = Top(o) /\ p[i + 1] = c
      BY <1>1, <1>2, <2>1, StackFacts DEF Top
    <3>2. Top(o).start + Top(o).count <= n /\ Top(o).start \in Nat /\ Top(o).count \in Nat
      BY <3>1, StackFacts DEF Stacked, Top
    <3> QED
      BY <3>1, <3>2
  <2>2. CASE i # Len(o)
    <3>1. i \in DOMAIN o /\ i + 1 \in DOMAIN o /\ p[i] = o[i] /\ p[i + 1] = o[i + 1]
      BY <1>1, <1>2, <2>2, StackFacts
    <3> QED
      BY <3>1 DEF Stacked
  <2> QED
    BY <2>1, <2>2
<1>3. Top(p) = c /\ (o # <<>> => p[1] = o[1]) /\ (o = <<>> => p[1] = c)
  BY <1>1, StackFacts DEF Top
<1>4. Top(p).start + Top(p).count <= m /\ p[1].kind # "case"
  BY <1>3 DEF Stacked
<1> QED
  BY <1>1, <1>2, <1>4 DEF Stacked, p

LEMMA FrontFacts ==
    ASSUME NEW o, NEW n, Stacked(o, n), o # <<>>
    PROVE  /\ Front(o) \in Seq(Construct_) /\ Len(Front(o)) = Len(o) - 1
           /\ DOMAIN Front(o) = 1 .. Len(o) - 1
           /\ \A i \in 1 .. Len(o) - 1 : Front(o)[i] = o[i]
           /\ Front(o) # <<>> => Len(o) - 1 \in DOMAIN o /\ Top(Front(o)) = o[Len(o) - 1]
<1>1. o \in Seq(Construct_) /\ Len(o) \in Nat /\ Len(o) > 0
  BY StackFacts DEF Stacked
<1>2. /\ Front(o) \in Seq(Construct_) /\ Len(Front(o)) = Len(o) - 1
      /\ DOMAIN Front(o) = 1 .. Len(o) - 1
      /\ \A i \in 1 .. Len(o) - 1 : Front(o)[i] = o[i]
  BY <1>1 DEF Front
<1>3. Front(o) # <<>> => Len(o) - 1 > 0
  BY <1>1, <1>2
<1> QED
  BY <1>1, <1>2, <1>3, StackFacts DEF Top

LEMMA FrontStacked ==
    ASSUME NEW o, NEW n, Stacked(o, n), o # <<>>, NEW k \in Nat,
           Front(o) # <<>> => Top(Front(o)).start + Top(Front(o)).count <= k
    PROVE  Stacked(Front(o), k)
<1> DEFINE p == Front(o)
<1>1. /\ p \in Seq(Construct_) /\ Len(p) = Len(o) - 1 /\ DOMAIN p = 1 .. Len(o) - 1
      /\ \A i \in 1 .. Len(o) - 1 : p[i] = o[i]
  BY FrontFacts
<1>2. Len(o) \in Nat /\ DOMAIN o = 1 .. Len(o) /\ o[1].kind # "case"
  BY StackFacts DEF Stacked
<1>3. p # <<>> => Top(p).start + Top(p).count <= k
  OBVIOUS
<1> HIDE DEF p
<1>4. p # <<>> => p[1].kind # "case"
  <2> SUFFICES ASSUME p # <<>> PROVE p[1] = o[1]
    BY <1>2
  <2>1. Len(p) # 0
    BY <1>1
  <2> QED
    BY <1>1, <1>2, <2>1
<1>5. ASSUME NEW i \in DOMAIN p, i + 1 \in DOMAIN p
      PROVE  i \in DOMAIN o /\ i + 1 \in DOMAIN o /\ p[i] = o[i] /\ p[i + 1] = o[i + 1]
  BY <1>1, <1>2, <1>5
<1>6. \A i \in DOMAIN p : i + 1 \in DOMAIN p =>
          /\ p[i].kind = "match" <=> p[i + 1].kind = "case"
          /\ p[i].kind = "match" => p[i].stmt = p[i + 1].stmt
          /\ p[i].kind = "match" => p[i].start + p[i].count <= p[i + 1].start
          /\ p[i].kind # "match" => p[i].start + p[i].count + 1 <= p[i + 1].start
  BY <1>5 DEF Stacked
<1> QED
  BY <1>1, <1>3, <1>4, <1>6 DEF Stacked, p

\* What is below the innermost construct.
LEMMA BelowTop ==
    ASSUME NEW o, NEW n, Stacked(o, n), o # <<>>
    PROVE  /\ Top(o).kind = "case" => Front(o) # <<>>
           /\ Front(o) # <<>> =>
                 /\ Top(Front(o)).kind = "match" <=> Top(o).kind = "case"
                 /\ Top(Front(o)).kind = "match" => Top(Front(o)).stmt = Top(o).stmt
                 /\ Top(Front(o)).kind = "match" =>
                       Top(Front(o)).start + Top(Front(o)).count <= Top(o).start
                 /\ Top(Front(o)).kind # "match" =>
                       Top(Front(o)).start + Top(Front(o)).count + 1 <= Top(o).start
<1>1. Len(o) \in Nat /\ Len(o) > 0 /\ Top(o) = o[(Len(o) - 1) + 1] /\ DOMAIN o = 1 .. Len(o)
  BY StackFacts DEF Top
<1>2. ASSUME Front(o) # <<>>
      PROVE  /\ Len(o) - 1 \in DOMAIN o /\ (Len(o) - 1) + 1 \in DOMAIN o
             /\ Top(Front(o)) = o[Len(o) - 1]
  BY <1>1, <1>2, FrontFacts
<1>3. Top(o).kind = "case" => Front(o) # <<>>
  <2> SUFFICES ASSUME Front(o) = <<>> PROVE Top(o).kind # "case"
    OBVIOUS
  <2>1. Len(o) - 1 = 0
    <3>1. Len(Front(o)) = Len(o) - 1
      BY FrontFacts
    <3> QED
      BY <3>1
  <2>2. Len(o) = 1
    BY <1>1, <2>1
  <2>3. Top(o) = o[1]
    BY <2>2 DEF Top
  <2> QED
    BY <2>3 DEF Stacked
<1> QED
  BY <1>1, <1>2, <1>3 DEF Stacked

\* What is below the innermost construct is a stack.
LEMMA FrontIsStacked ==
    ASSUME NEW o, NEW n \in Nat, Stacked(o, n), o # <<>> PROVE \E k \in Nat : Stacked(Front(o), k)
<1>1. CASE Front(o) = <<>>
  BY <1>1, FrontStacked
<1>2. CASE Front(o) # <<>>
  <2>1. Top(Front(o)).start \in Nat /\ Top(Front(o)).count \in Nat
    BY <1>2, FrontFacts, StackFacts
  <2>2. PICK k \in Nat : k = Top(Front(o)).start + Top(Front(o)).count
    BY <2>1
  <2>3. Top(Front(o)).start + Top(Front(o)).count <= k
    BY <2>2
  <2> QED
    BY <2>3, FrontStacked
<1> QED
  BY <1>1, <1>2

\* The end of a case: its match is uncovered.
LEMMA PopStacked ==
    ASSUME NEW o, NEW n \in Nat, Stacked(o, n), o # <<>>, Top(o).kind = "case"
    PROVE  Stacked(Front(o), n)
<1>1. /\ Top(o).start \in Nat /\ Top(o).count \in Nat /\ Top(o).start + Top(o).count <= n
  BY StackFacts DEF Stacked, Top
<1>2. Front(o) # <<>> =>
         /\ Top(Front(o)).start + Top(Front(o)).count <= Top(o).start
         /\ Top(Front(o)).start \in Nat /\ Top(Front(o)).count \in Nat
  BY BelowTop, FrontFacts, StackFacts
<1> QED
  BY <1>1, <1>2, FrontStacked

\* The end of a statement: it is counted in the block around it.
LEMMA CountStacked ==
    ASSUME NEW o, NEW n \in Nat, NEW m \in Nat, Stacked(o, n), o # <<>>,
           Top(o).kind # "match", n < m, m <= MaxStmtNodes
    PROVE  Stacked(Counted(o), m)
<1> DEFINE p == Counted(o)
           t == [Top(o) EXCEPT !.count = @ + 1]
<1>1. Top(o) \in Construct_ /\ Top(o).start \in Nat /\ Top(o).count \in Nat
      /\ Top(o).start + Top(o).count <= n /\ Len(o) \in DOMAIN o
  BY StackFacts DEF Stacked, Top
<1>2. Top(o).count + 1 \in 0 .. MaxStmtNodes
  BY <1>1, BlocksAssumption
<1>3. t \in Construct_ /\ t.kind = Top(o).kind /\ t.start = Top(o).start
      /\ t.count = Top(o).count + 1 /\ t.stmt = Top(o).stmt
  BY <1>1, <1>2 DEF Construct_
<1>4. p = [o EXCEPT ![Len(o)] = t]
  BY DEF Counted, Top
<1> HIDE DEF p, t
<1>5. /\ p \in Seq(Construct_) /\ Len(p) = Len(o) /\ DOMAIN p = DOMAIN o /\ p # <<>>
      /\ p[Len(o)] = t /\ \A i \in DOMAIN o : i # Len(o) => p[i] = o[i]
  BY <1>1, <1>3, <1>4 DEF Stacked
<1>6. \A i \in DOMAIN p : p[i].kind = o[i].kind /\ p[i].stmt = o[i].stmt
         /\ p[i].start = o[i].start /\ (i # Len(o) => p[i].count = o[i].count)
  BY <1>3, <1>5 DEF Top
<1>7. \A i \in DOMAIN p : i + 1 \in DOMAIN p => i # Len(o)
  BY <1>5, StackFacts
<1>8. Top(p).start + Top(p).count <= m
  <2>1. Top(p) = t
    BY <1>5 DEF Top
  <2> QED
    BY <1>1, <1>3, <2>1
<1>9. p[1].kind # "case"
  <2>1. 1 \in DOMAIN o /\ o[1].kind # "case"
    BY StackFacts DEF Stacked
  <2> QED
    BY <1>5, <1>6, <2>1
<1>10. \A i \in DOMAIN p : i + 1 \in DOMAIN p =>
          /\ p[i].kind = "match" <=> p[i + 1].kind = "case"
          /\ p[i].kind = "match" => p[i].stmt = p[i + 1].stmt
          /\ p[i].kind = "match" => p[i].start + p[i].count <= p[i + 1].start
          /\ p[i].kind # "match" => p[i].start + p[i].count + 1 <= p[i + 1].start
  BY <1>5, <1>6, <1>7 DEF Stacked
<1> QED
  BY <1>5, <1>8, <1>9, <1>10 DEF Stacked, p

\* The innermost statement that is not a case ends.
LEMMA EndStacked ==
    ASSUME NEW o, NEW n \in 0 .. MaxStmtNodes, Stacked(o, n), o # <<>>, Top(o).kind # "case"
    PROVE  Stacked(Counted(Front(o)), n)
<1>1. /\ Top(o).start \in Nat /\ Top(o).count \in Nat /\ Top(o).start + Top(o).count <= n
  BY StackFacts DEF Stacked, Top
<1>2. CASE Front(o) = <<>>
  BY <1>2, FrontFacts DEF Counted, Stacked
<1>3. CASE Front(o) # <<>>
  <2>1. /\ Top(Front(o)).kind # "match"
        /\ Top(Front(o)).start + Top(Front(o)).count + 1 <= Top(o).start
        /\ Top(Front(o)).start \in Nat /\ Top(Front(o)).count \in Nat
    BY <1>3, BelowTop, FrontFacts, StackFacts
  <2>2. Top(o).start - 1 \in Nat /\ Top(o).start - 1 < n /\ n \in Nat /\ n <= MaxStmtNodes
        /\ Top(Front(o)).start + Top(Front(o)).count <= Top(o).start - 1
    BY <1>1, <2>1, BlocksAssumption
  <2>3. Stacked(Front(o), Top(o).start - 1)
    BY <2>2, FrontStacked
  <2> QED
    BY <1>3, <2>1, <2>2, <2>3, CountStacked
<1> QED
  BY <1>2, <1>3

\* The block of an if ends and that of its else begins.
LEMMA ElseStacked ==
    ASSUME NEW o, NEW n \in 0 .. MaxStmtNodes, Stacked(o, n), o # <<>>, Top(o).kind = "if"
    PROVE  Stacked(Append(Front(o), [Top(o) EXCEPT !.kind = "else", !.start = n, !.count = 0]), n)
<1> DEFINE c == [Top(o) EXCEPT !.kind = "else", !.start = n, !.count = 0]
<1>1. /\ Top(o).start \in Nat /\ Top(o).count \in Nat /\ Top(o).start + Top(o).count <= n
      /\ Top(o) \in Construct_ /\ n \in Nat
  <2>1. n \in Nat
    BY BlocksAssumption
  <2>2. Len(o) \in DOMAIN o /\ Top(o) = o[Len(o)]
    BY StackFacts DEF Top
  <2> QED
    BY <2>1, <2>2, StackFacts DEF Stacked
<1>2. c \in Construct_ /\ c.kind = "else" /\ c.start = n /\ c.count = 0 /\ c.stmt = Top(o).stmt
  <2>1. 0 \in 0 .. MaxStmtNodes
    BY BlocksAssumption
  <2> QED
    BY <1>1, <2>1 DEF Construct_, Kinds
<1> HIDE DEF c
<1>3. CASE Front(o) = <<>>
  <2>1. Stacked(Front(o), n)
    BY <1>1, <1>3, FrontStacked
  <2>2. c.kind # "case" /\ n \in Nat /\ n <= n
    BY <1>1, <1>2
  <2>3. Stacked(Append(Front(o), c), n)
    BY <1>2, <1>3, <2>1, <2>2, PushStacked, Zenon
  <2> QED
    BY <2>3 DEF c
<1>4. CASE Front(o) # <<>>
  <2>1. /\ Top(Front(o)).kind # "match"
        /\ Top(Front(o)).start + Top(Front(o)).count + 1 <= Top(o).start
        /\ Top(Front(o)).start \in Nat /\ Top(Front(o)).count \in Nat
    BY <1>4, BelowTop, FrontFacts, StackFacts
  <2>2. PICK k \in Nat : k = Top(o).start - 1
    BY <1>1, <2>1
  <2>3. k + 1 <= n /\ k <= n /\ Top(Front(o)).start + Top(Front(o)).count <= k
    BY <1>1, <2>1, <2>2
  <2>4. Stacked(Front(o), k)
    BY <2>3, FrontStacked
  <2>5. Stacked(Append(Front(o), c), n)
    BY <1>1, <1>2, <1>4, <2>1, <2>3, <2>4, PushStacked
  <2> QED
    BY <2>5 DEF c
<1> QED
  BY <1>3, <1>4
-----------------------------------------------------------------------------
(* Types, and the blocks in the pool.                                      *)

LEMMA PoolFacts ==
    ASSUME TypeOK
    PROVE  /\ Len(body) \in Nat /\ Len(body) <= MaxBodyStmts /\ DOMAIN body = 1 .. Len(body)
           /\ Len(nodes) \in Nat /\ Len(nodes) <= MaxStmtNodes /\ DOMAIN nodes = 1 .. Len(nodes)
           /\ Len(nodes) \in 0 .. MaxStmtNodes
           /\ Taken \in Nat
           /\ 1 .. Taken \subseteq Id
           /\ CanTake => Taken + 1 \in Id
<1>1. /\ Len(body) \in Nat /\ Len(body) <= MaxBodyStmts /\ DOMAIN body = 1 .. Len(body)
      /\ Len(nodes) \in Nat /\ Len(nodes) <= MaxStmtNodes /\ DOMAIN nodes = 1 .. Len(nodes)
  BY DEF TypeOK
<1>2. CanTake => Len(body) + Len(nodes) < MaxBodyStmts + MaxStmtNodes
  BY <1>1, BlocksAssumption DEF CanTake
<1> QED
  BY <1>1, <1>2, BlocksAssumption DEF Taken, Id

\* What taking a node does to the two arrays.
LEMMA TakeFacts ==
    ASSUME TypeOK, CanTake, Take
    PROVE  /\ body' \in Seq(Id) /\ Len(body') <= MaxBodyStmts
           /\ nodes' \in Seq(Id) /\ Len(nodes') <= MaxStmtNodes
           /\ Len(nodes') \in 0 .. MaxStmtNodes /\ Len(nodes) \in Nat /\ Len(nodes') \in Nat
           /\ Len(nodes) <= Len(nodes') /\ (~AtTop => Len(nodes) + 1 <= Len(nodes'))
           /\ Taken' = Taken + 1 /\ Taken + 1 \in Id
<1>0. Taken + 1 \in Id /\ body \in Seq(Id) /\ nodes \in Seq(Id)
  BY PoolFacts DEF TypeOK
<1>1. CASE AtTop
  <2>1. body' = Append(body, Taken + 1) /\ nodes' = nodes /\ Len(body) < MaxBodyStmts
    BY <1>1 DEF Take, CanTake
  <2>2. body' \in Seq(Id) /\ Len(body') = Len(body) + 1
    BY <1>0, <2>1
  <2> QED
    BY <1>0, <1>1, <2>1, <2>2, PoolFacts, BlocksAssumption DEF Taken
<1>2. CASE ~AtTop
  <2>1. nodes' = Append(nodes, Taken + 1) /\ body' = body /\ Len(nodes) < MaxStmtNodes
    BY <1>2 DEF Take, CanTake
  <2>2. nodes' \in Seq(Id) /\ Len(nodes') = Len(nodes) + 1
    BY <1>0, <2>1
  <2> QED
    BY <1>0, <1>2, <2>1, <2>2, PoolFacts, BlocksAssumption DEF Taken
<1> QED
  BY <1>1, <1>2

LEMMA StackedType ==
    ASSUME NEW o, NEW n, Stacked(o, n)
    PROVE  o \in Seq([stmt : Id, kind : Kinds, start : 0 .. MaxStmtNodes, count : 0 .. MaxStmtNodes])
BY DEF Stacked, Construct_

LEMMA InitFits == Init => Fits
<1> SUFFICES ASSUME Init PROVE Fits
  OBVIOUS
<1>1. TypeOK
  BY BlocksAssumption DEF Init, TypeOK
<1>2. Stacked(open, Len(nodes))
  BY DEF Init, Stacked
<1> QED
  BY <1>1, <1>2 DEF Fits, Init

\* The blocks closed so far stay where they are when the pool grows.
LEMMA TakeFits ==
    ASSUME Fits, CanTake, Take, Stacked(open', Len(nodes')), UNCHANGED <<blocks, status>>
    PROVE  Fits'
<1>1. TypeOK'
  BY TakeFacts, StackedType DEF Fits, TypeOK
<1>2. \A s \in Id : \A b \in DOMAIN blocks[s] :
          /\ blocks[s][b].start \in Nat /\ blocks[s][b].count \in Nat
          /\ blocks[s][b].start + blocks[s][b].count <= Len(nodes)
  <2>1. blocks \in [Id -> Seq(Place)]
    BY DEF Fits, TypeOK, Place
  <2>2. \A s \in Id : \A b \in DOMAIN blocks[s] : blocks[s][b] \in Place
    BY <2>1
  <2>3. \A p \in Place : p.start \in Nat /\ p.count \in Nat
    BY BlocksAssumption DEF Place
  <2> QED
    BY <2>2, <2>3 DEF Fits
<1>3. \A s \in Id : \A b \in DOMAIN blocks'[s] :
          blocks'[s][b].start + blocks'[s][b].count <= Len(nodes')
  BY <1>2, TakeFacts DEF Fits
<1> QED
  BY <1>1, <1>3 DEF Fits

LEMMA SimpleFits == ASSUME Fits, Simple PROVE Fits'
<1>1. Stacked(open', Len(nodes'))
  <2>1. CASE AtTop
    BY <2>1 DEF Simple, Counted, AtTop, Stacked
  <2>2. CASE ~AtTop
    <3>1. open # <<>> /\ Top(open).kind # "match" /\ Stacked(open, Len(nodes))
      BY <2>2 DEF Simple, AtTop, InBlock, inner, Top, Fits
    <3>2. /\ Len(nodes) \in Nat /\ Len(nodes') \in Nat /\ Len(nodes) < Len(nodes')
          /\ Len(nodes') <= MaxStmtNodes
      BY <2>2, TakeFacts DEF Simple, Fits
    <3>3. Stacked(Counted(open), Len(nodes'))
      BY <3>1, <3>2, CountStacked
    <3> QED
      BY <3>3 DEF Simple
  <2> QED
    BY <2>1, <2>2
<1> QED
  BY <1>1, TakeFits DEF Simple

LEMMA ConstructFacts ==
    ASSUME NEW s \in Id, NEW kind \in Kinds, Len(nodes') \in 0 .. MaxStmtNodes
    PROVE  /\ Construct(s, kind) \in Construct_
           /\ Construct(s, kind).stmt = s /\ Construct(s, kind).kind = kind
           /\ Construct(s, kind).start = Len(nodes') /\ Construct(s, kind).count = 0
BY BlocksAssumption DEF Construct, Construct_

LEMMA BeginFits ==
    ASSUME Fits, NEW kind \in {"if", "while", "match"}, Begin(kind) PROVE Fits'
<1> DEFINE c == Construct(Taken + 1, kind)
<1>0. CanTake /\ Take /\ Stacked(open, Len(nodes)) /\ UNCHANGED <<blocks, status>>
      /\ open' = Append(open, c) /\ (AtTop \/ InBlock)
  BY DEF Begin, Fits
<1>1. /\ Len(nodes) \in Nat /\ Len(nodes') \in Nat /\ Len(nodes) <= Len(nodes')
      /\ ~AtTop => Len(nodes) + 1 <= Len(nodes')
      /\ Len(nodes') \in 0 .. MaxStmtNodes /\ Taken + 1 \in Id
  BY <1>0, TakeFacts DEF Fits
<1>2. c \in Construct_ /\ c.kind # "case" /\ c.start = Len(nodes') /\ c.count = 0
  BY <1>1, ConstructFacts DEF Kinds
<1>3. open # <<>> => Top(open).kind # "match" /\ Len(nodes) + 1 <= Len(nodes')
  BY <1>0, <1>1 DEF AtTop, InBlock, inner, Top
<1> HIDE DEF c
<1>4. Stacked(Append(open, c), Len(nodes'))
  BY <1>0, <1>1, <1>2, <1>3, PushStacked, Zenon
<1> QED
  BY <1>0, <1>4, TakeFits

\* A block ends, in the nodes taken so far.
LEMMA CloseFits ==
    ASSUME Fits, NEW followed_by_else \in BOOLEAN, Close(followed_by_else) PROVE Fits'
<1> DEFINE p == [start |-> inner.start, count |-> inner.count]
<1>1. /\ Stacked(open, Len(nodes)) /\ open # <<>> /\ inner = Top(open) /\ Below = Front(open)
      /\ inner \in Construct_ /\ inner.stmt \in Id
      /\ Len(nodes) \in 0 .. MaxStmtNodes /\ Len(nodes) \in Nat
      /\ UNCHANGED <<body, nodes, status>>
      /\ blocks' = [blocks EXCEPT ![inner.stmt] = Append(@, p)]
  <2>1. open # <<>> /\ Stacked(open, Len(nodes)) /\ inner = open[Len(open)]
    BY DEF Close, InBlock, AtTop, Fits, inner
  <2>2. inner \in Construct_ /\ inner.stmt \in Id
    BY <2>1, StackFacts
  <2> QED
    BY <2>1, <2>2, PoolFacts DEF Close, inner, Top, Below, Front, Fits
<1>2. p \in Place /\ p.start + p.count <= Len(nodes)
  BY <1>1 DEF Place, Construct_, Stacked
<1> HIDE DEF p
<1>3. blocks \in [Id -> Seq(Place)]
  BY DEF Fits, TypeOK, Place
<1>4. /\ blocks' \in [Id -> Seq(Place)]
      /\ \A s \in Id : \A b \in DOMAIN blocks'[s] :
            \/ b \in DOMAIN blocks[s] /\ blocks'[s][b] = blocks[s][b]
            \/ blocks'[s][b] = p
  <2>1. /\ blocks'[inner.stmt] = Append(blocks[inner.stmt], p)
        /\ \A s \in Id : s # inner.stmt => blocks'[s] = blocks[s]
    BY <1>1, <1>3
  <2>2. blocks[inner.stmt] \in Seq(Place) /\ Append(blocks[inner.stmt], p) \in Seq(Place)
    BY <1>1, <1>2, <1>3
  <2>3. \A b \in DOMAIN Append(blocks[inner.stmt], p) :
            \/ b \in DOMAIN blocks[inner.stmt]
               /\ Append(blocks[inner.stmt], p)[b] = blocks[inner.stmt][b]
            \/ Append(blocks[inner.stmt], p)[b] = p
    BY <1>2, <2>2
  <2> QED
    BY <1>1, <1>3, <2>1, <2>2, <2>3
<1>5. Stacked(open', Len(nodes'))
  <2>1. CASE followed_by_else
    <3>1. open' = Append(Front(open), [Top(open) EXCEPT !.kind = "else", !.start = Len(nodes), !.count = 0])
          /\ Top(open).kind = "if"
      BY <1>1, <2>1 DEF Close
    <3> QED
      BY <1>1, <3>1, ElseStacked
  <2>2. CASE ~followed_by_else /\ inner.kind = "case"
    BY <1>1, <2>2, PopStacked DEF Close
  <2>3. CASE ~followed_by_else /\ inner.kind # "case"
    BY <1>1, <2>3, EndStacked DEF Close
  <2> QED
    BY <2>1, <2>2, <2>3
<1>6. TypeOK'
  BY <1>1, <1>4, <1>5, StackedType DEF Fits, TypeOK, Place
<1> QED
  BY <1>1, <1>2, <1>4, <1>5, <1>6 DEF Fits

LEMMA CaseFits == ASSUME Fits, Case PROVE Fits'
<1> DEFINE c == Construct(inner.stmt, "case")
<1>1. /\ Stacked(open, Len(nodes)) /\ open # <<>> /\ inner = Top(open) /\ inner.stmt \in Id
      /\ Top(open).kind = "match" /\ open' = Append(open, c)
      /\ Len(nodes) \in Nat /\ Len(nodes') \in 0 .. MaxStmtNodes /\ nodes' = nodes
      /\ UNCHANGED <<body, blocks, status>>
  <2>1. open # <<>> /\ Stacked(open, Len(nodes)) /\ inner = open[Len(open)]
    BY DEF Case, AtCase, AtTop, Fits, inner
  <2>2. inner.stmt \in Id
    BY <2>1, StackFacts
  <2> QED
    BY <2>1, <2>2, PoolFacts DEF Case, AtCase, inner, Top, Fits
<1>2. c \in Construct_ /\ c.kind = "case" /\ c.stmt = Top(open).stmt /\ c.start = Len(nodes)
      /\ c.count = 0
  BY <1>1, ConstructFacts DEF Kinds
<1>3. Len(nodes) <= Len(nodes)
  BY <1>1
<1> HIDE DEF c
<1>4. Stacked(Append(open, c), Len(nodes))
  BY <1>1, <1>2, <1>3, PushStacked, Zenon
<1>5. TypeOK'
  BY <1>1, <1>4, StackedType DEF Fits, TypeOK
<1> QED
  BY <1>1, <1>4, <1>5 DEF Fits

LEMMA EndMatchFits == ASSUME Fits, EndMatch PROVE Fits'
<1>1. /\ Stacked(open, Len(nodes)) /\ open # <<>> /\ Top(open).kind = "match"
      /\ open' = Counted(Front(open)) /\ Len(nodes) \in 0 .. MaxStmtNodes
      /\ UNCHANGED <<nodes, body, blocks, status>>
  BY PoolFacts DEF EndMatch, AtCase, AtTop, Fits, inner, Top, Below, Front
<1>2. Stacked(open', Len(nodes))
  BY <1>1, EndStacked
<1>3. TypeOK'
  BY <1>1, <1>2, StackedType DEF Fits, TypeOK
<1> QED
  BY <1>1, <1>2, <1>3 DEF Fits

LEMMA StepFits == Fits /\ [Next]_vars => Fits'
<1> SUFFICES ASSUME Fits, [Next]_vars PROVE Fits'
  OBVIOUS
<1>1. CASE NoNode \/ TooManyCases \/ EndFunction \/ UNCHANGED vars
  BY <1>1 DEF Fits, TypeOK, NoNode, TooManyCases, EndFunction, Reject, vars
<1> QED
  BY <1>1, SimpleFits, BeginFits, CloseFits, CaseFits, EndMatchFits DEF Next
-----------------------------------------------------------------------------
(* One node for each statement.                                            *)

Numbered ==
    /\ \A i \in DOMAIN body : body[i] \in 1 .. Taken
    /\ \A i \in DOMAIN nodes : nodes[i] \in 1 .. Taken
    /\ EveryStatementOnce

LEMMA TakeNumbered ==
    ASSUME TypeOK, Numbered, CanTake, Take PROVE Numbered'
<1>1. Taken \in Nat /\ Taken' = Taken + 1 /\ Taken + 1 \in Id
  BY PoolFacts, TakeFacts
<1>2. PICK t \in Nat : t = Taken + 1
  BY <1>1
<1>3. /\ 1 .. Taken' = (1 .. Taken) \cup {t} /\ t \notin 1 .. Taken
  BY <1>1, <1>2
<1>4. CASE AtTop
  <2>1. nodes' = nodes /\ body' = Append(body, t) /\ body \in Seq(Id) /\ t \in Id
    BY <1>1, <1>2, <1>4 DEF Take, TypeOK
  <2>2. PICK e \in Nat : e = Len(body) + 1
    BY PoolFacts
  <2>3. /\ DOMAIN body' = DOMAIN body \cup {e} /\ e \notin DOMAIN body /\ body'[e] = t
        /\ \A i \in DOMAIN body : body'[i] = body[i]
    BY <2>1, <2>2
  <2> QED
    BY <1>3, <2>1, <2>3 DEF Numbered, EveryStatementOnce
<1>5. CASE ~AtTop
  <2>1. body' = body /\ nodes' = Append(nodes, t) /\ nodes \in Seq(Id) /\ t \in Id
    BY <1>1, <1>2, <1>5 DEF Take, TypeOK
  <2>2. PICK e \in Nat : e = Len(nodes) + 1
    BY PoolFacts
  <2>3. /\ DOMAIN nodes' = DOMAIN nodes \cup {e} /\ e \notin DOMAIN nodes /\ nodes'[e] = t
        /\ \A i \in DOMAIN nodes : nodes'[i] = nodes[i]
    BY <2>1, <2>2
  <2>4. \A i \in DOMAIN body' : body'[i] \in 1 .. Taken'
    BY <1>3, <2>1 DEF Numbered
  <2>5. \A i \in DOMAIN nodes' : nodes'[i] \in 1 .. Taken'
    BY <1>3, <2>3 DEF Numbered
  <2>6. ASSUME NEW s \in 1 .. Taken
        PROVE  \/ /\ \E i \in DOMAIN body' : body'[i] = s
                  /\ \A i \in DOMAIN nodes' : nodes'[i] # s
               \/ /\ \A i \in DOMAIN body' : body'[i] # s
                  /\ \E i \in DOMAIN nodes' :
                        nodes'[i] = s /\ \A j \in DOMAIN nodes' : nodes'[j] = s => i = j
    BY <1>3, <2>1, <2>3 DEF Numbered, EveryStatementOnce
  <2>7. /\ \A i \in DOMAIN body' : body'[i] # t
        /\ \E i \in DOMAIN nodes' :
              nodes'[i] = t /\ \A j \in DOMAIN nodes' : nodes'[j] = t => i = j
    BY <1>3, <2>1, <2>3 DEF Numbered
  <2> QED
    BY <1>3, <2>4, <2>5, <2>6, <2>7 DEF Numbered, EveryStatementOnce
<1> QED
  BY <1>4, <1>5

LEMMA StepNumbered == TypeOK /\ Numbered /\ [Next]_vars => Numbered'
<1> SUFFICES ASSUME TypeOK, Numbered, [Next]_vars PROVE Numbered'
  OBVIOUS
<1>1. CASE UNCHANGED <<body, nodes>>
  BY <1>1 DEF Numbered, EveryStatementOnce, Taken
<1>2. CASE CanTake /\ Take
  BY <1>2, TakeNumbered
<1>3. (CanTake /\ Take) \/ UNCHANGED <<body, nodes>>
  BY DEF Next, Simple, NoNode, Begin, Close, Case, TooManyCases, EndMatch, EndFunction,
         Reject, vars
<1> QED
  BY <1>1, <1>2, <1>3
-----------------------------------------------------------------------------
(* The blocks of the tree and those of the source.                         *)

Stmts(o) == {o[i].stmt : i \in DOMAIN o}

\* The statements of open constructs ascend; only a case repeats its match's.
Ascending(o) ==
    \A i, j \in DOMAIN o : i < j =>
        \/ o[i].stmt < o[j].stmt
        \/ o[i].stmt = o[j].stmt /\ o[i].kind = "match" /\ o[j].kind = "case"

\* How many statements the source has so far in the last block of o[i].
Begun(o, i) == o[i].count + (IF i = Len(o) THEN 0 ELSE 1)

InStep(o, b, w) ==
    /\ \A s \in Id : \A k \in DOMAIN b[s] : k \in DOMAIN w[s] /\ b[s][k].count = Len(w[s][k])
    /\ \A s \in Id \ Stmts(o) : Len(w[s]) = Len(b[s])
    /\ \A i \in DOMAIN o : o[i].kind # "match" =>
          /\ Len(w[o[i].stmt]) = Len(b[o[i].stmt]) + 1
          /\ Len(w[o[i].stmt][Len(b[o[i].stmt]) + 1]) = Begun(o, i)
    /\ o # <<>> /\ Top(o).kind = "match" => Len(w[Top(o).stmt]) = Len(b[Top(o).stmt])

Source ==
    /\ written \in [Id -> Seq(Seq(Id))]
    /\ \A s \in Id : s > Taken => written[s] = <<>> /\ blocks[s] = <<>>
    /\ \A i \in DOMAIN open : open[i].stmt <= Taken
    /\ Ascending(open)
    /\ InStep(open, blocks, written)

\* The same while a statement of the innermost block is not yet counted in it.
Uncounted(o, b, w) ==
    /\ \A s \in Id : \A k \in DOMAIN b[s] : k \in DOMAIN w[s] /\ b[s][k].count = Len(w[s][k])
    /\ \A s \in Id \ Stmts(o) : Len(w[s]) = Len(b[s])
    /\ \A i \in DOMAIN o : o[i].kind # "match" =>
          /\ Len(w[o[i].stmt]) = Len(b[o[i].stmt]) + 1
          /\ Len(w[o[i].stmt][Len(b[o[i].stmt]) + 1]) = o[i].count + 1
    /\ o # <<>> => Top(o).kind # "match"

LEMMA InitSource == Init => Source
<1> SUFFICES ASSUME Init PROVE Source
  OBVIOUS
<1>1. written \in [Id -> Seq(Seq(Id))] /\ DOMAIN open = {} /\ open = <<>>
      /\ \A s \in Id : written[s] = <<>> /\ blocks[s] = <<>>
  BY DEF Init
<1> QED
  BY <1>1 DEF Source, Ascending, InStep, Stmts

LEMMA SourceInPool == Fits /\ Source => BlocksInPool
<1> SUFFICES ASSUME Fits, Source, NEW s \in 1 .. Taken, Finished(s)
             PROVE  /\ Len(blocks[s]) = Len(written[s])
                    /\ \A b \in DOMAIN blocks[s] :
                          /\ blocks[s][b].count = Len(written[s][b])
                          /\ blocks[s][b].start + blocks[s][b].count <= Len(nodes)
  BY DEF BlocksInPool
<1>1. s \in Id
  BY PoolFacts DEF Fits
<1>2. s \in Id \ Stmts(open)
  BY <1>1 DEF Finished, Stmts
<1> QED
  BY <1>1, <1>2 DEF Source, InStep, Fits

\* How the operations on the stack change its statements and their order.
LEMMA CountedFacts ==
    ASSUME NEW o, NEW n, Stacked(o, n), o # <<>>
    PROVE  /\ Counted(o) # <<>> /\ Len(Counted(o)) = Len(o) /\ DOMAIN Counted(o) = DOMAIN o
           /\ \A i \in DOMAIN o : /\ Counted(o)[i].stmt = o[i].stmt
                                  /\ Counted(o)[i].kind = o[i].kind
                                  /\ Counted(o)[i].start = o[i].start
                                  /\ i # Len(o) => Counted(o)[i].count = o[i].count
                                  /\ i = Len(o) => Counted(o)[i].count = o[i].count + 1
           /\ Stmts(Counted(o)) = Stmts(o)
           /\ Ascending(o) => Ascending(Counted(o))
<1> DEFINE p == Counted(o)
           t == [Top(o) EXCEPT !.count = @ + 1]
<1>1. Len(o) \in DOMAIN o /\ Top(o) \in Construct_ /\ o \in Seq(Construct_)
  BY StackFacts DEF Stacked, Top
<1>2. /\ t.stmt = Top(o).stmt /\ t.kind = Top(o).kind /\ t.start = Top(o).start
      /\ t.count = Top(o).count + 1
  BY <1>1 DEF Construct_
<1>3. p = [o EXCEPT ![Len(o)] = t]
  BY DEF Counted, Top
<1> HIDE DEF p, t
<1>4. /\ p # <<>> /\ Len(p) = Len(o) /\ DOMAIN p = DOMAIN o
      /\ p[Len(o)] = t /\ \A i \in DOMAIN o : i # Len(o) => p[i] = o[i]
  BY <1>1, <1>3
<1>5. \A i \in DOMAIN o : /\ p[i].stmt = o[i].stmt /\ p[i].kind = o[i].kind
                          /\ p[i].start = o[i].start
                          /\ i # Len(o) => p[i].count = o[i].count
                          /\ i = Len(o) => p[i].count = o[i].count + 1
  BY <1>2, <1>4 DEF Top
<1>6. Stmts(p) = Stmts(o)
  BY <1>4, <1>5 DEF Stmts
<1>7. Ascending(o) => Ascending(p)
  BY <1>4, <1>5 DEF Ascending
<1> QED
  BY <1>4, <1>5, <1>6, <1>7 DEF p

LEMMA AppendFacts ==
    ASSUME NEW o, NEW n, Stacked(o, n), NEW c \in Construct_
    PROVE  /\ Append(o, c) # <<>> /\ Len(Append(o, c)) = Len(o) + 1 /\ Len(o) \in Nat
           /\ DOMAIN Append(o, c) = DOMAIN o \cup {Len(o) + 1} /\ Len(o) + 1 \notin DOMAIN o
           /\ Append(o, c)[Len(o) + 1] = c /\ Top(Append(o, c)) = c
           /\ \A i \in DOMAIN o : Append(o, c)[i] = o[i] /\ i <= Len(o) /\ i \in Nat
           /\ Stmts(Append(o, c)) = Stmts(o) \cup {c.stmt}
<1> DEFINE p == Append(o, c)
<1>1. o \in Seq(Construct_) /\ Len(o) \in Nat /\ DOMAIN o = 1 .. Len(o)
  BY StackFacts DEF Stacked
<1>2. PICK e \in Nat : e = Len(o) + 1
  BY <1>1
<1>3. /\ p # <<>> /\ Len(p) = e /\ DOMAIN p = DOMAIN o \cup {e} /\ e \notin DOMAIN o /\ p[e] = c
      /\ \A i \in DOMAIN o : p[i] = o[i] /\ i <= Len(o) /\ i \in Nat
  BY <1>1, <1>2
<1> HIDE DEF p
<1>4. Stmts(p) = Stmts(o) \cup {c.stmt}
  BY <1>3 DEF Stmts
<1>5. Top(p) = c
  BY <1>3 DEF Top
<1> QED
  BY <1>1, <1>2, <1>3, <1>4, <1>5 DEF p

\* Without its top, the stack has lost that statement, unless the top is a case.
LEMMA FrontStmts ==
    ASSUME NEW o, NEW n, Stacked(o, n), o # <<>>, Ascending(o)
    PROVE  /\ Ascending(Front(o))
           /\ \A i \in DOMAIN Front(o) : i \in DOMAIN o /\ i < Len(o) /\ Front(o)[i] = o[i]
           /\ Stmts(o) = Stmts(Front(o)) \cup {Top(o).stmt}
           /\ Top(o).kind # "case" =>
                 \A i \in DOMAIN Front(o) : o[i].stmt < Top(o).stmt
           /\ Top(o).kind # "case" => Top(o).stmt \notin Stmts(Front(o))
           /\ \A i \in DOMAIN Front(o) : o[i].kind # "match" => o[i].stmt < Top(o).stmt
           /\ Top(o).kind = "case" => Stmts(Front(o)) = Stmts(o)
<1>1. /\ Len(o) \in Nat /\ DOMAIN o = 1 .. Len(o) /\ Len(o) > 0
      /\ \A i \in DOMAIN o : o[i].stmt \in Id
  BY StackFacts
<1>2. /\ DOMAIN Front(o) = 1 .. Len(o) - 1 /\ \A i \in 1 .. Len(o) - 1 : Front(o)[i] = o[i]
  BY FrontFacts
<1>3. \A i \in DOMAIN Front(o) : i \in DOMAIN o /\ i < Len(o) /\ Front(o)[i] = o[i]
  BY <1>1, <1>2
<1>4. DOMAIN o = DOMAIN Front(o) \cup {Len(o)} /\ Len(o) \in DOMAIN o
  BY <1>1, <1>2
<1>5. Ascending(Front(o))
  BY <1>3 DEF Ascending
<1>6. Stmts(o) = Stmts(Front(o)) \cup {Top(o).stmt}
  BY <1>3, <1>4 DEF Stmts, Top
<1>7. \A i \in DOMAIN Front(o) :
         \/ o[i].stmt < Top(o).stmt
         \/ o[i].stmt = Top(o).stmt /\ o[i].kind = "match" /\ Top(o).kind = "case"
  BY <1>3, <1>4 DEF Ascending, Top
<1>8. Top(o).kind # "case" => Top(o).stmt \notin Stmts(Front(o))
  <2> SUFFICES ASSUME Top(o).kind # "case", NEW i \in DOMAIN Front(o),
                      Front(o)[i].stmt = Top(o).stmt
               PROVE  FALSE
    BY DEF Stmts
  <2>1. o[i].stmt \in Int /\ o[i].stmt = Top(o).stmt
    BY <1>1, <1>3, BlocksAssumption DEF Id
  <2> QED
    BY <1>7, <2>1
<1>9. Top(o).kind = "case" => Stmts(Front(o)) = Stmts(o)
  <2> SUFFICES ASSUME Top(o).kind = "case" PROVE Top(o).stmt \in Stmts(Front(o))
    BY <1>6
  <2>1. /\ Front(o) # <<>> /\ Top(Front(o)).stmt = Top(o).stmt
        /\ Len(o) - 1 \in DOMAIN o /\ Top(Front(o)) = o[Len(o) - 1]
    BY BelowTop, FrontFacts
  <2>2. Len(o) - 1 \in DOMAIN Front(o)
    BY <1>1, <1>2, <2>1
  <2> QED
    BY <1>3, <2>1, <2>2 DEF Stmts
<1> QED
  BY <1>3, <1>5, <1>6, <1>7, <1>8, <1>9

\* The statement is counted, and the tree is in step again.
LEMMA CountInStep ==
    ASSUME NEW o, NEW n, Stacked(o, n), NEW b, NEW w, Uncounted(o, b, w)
    PROVE  InStep(Counted(o), b, w)
<1>1. CASE o = <<>>
  <2>1. Counted(o) = <<>> /\ DOMAIN o = {} /\ Stmts(o) = {}
    BY <1>1 DEF Counted, Stmts
  <2> QED
    BY <1>1, <2>1 DEF InStep, Uncounted
<1>2. CASE o # <<>>
  <2> DEFINE p == Counted(o)
  <2>1. /\ p # <<>> /\ Len(p) = Len(o) /\ DOMAIN p = DOMAIN o /\ Stmts(p) = Stmts(o)
        /\ \A i \in DOMAIN o : /\ p[i].stmt = o[i].stmt
                               /\ p[i].kind = o[i].kind
                               /\ i # Len(o) => p[i].count = o[i].count
                               /\ i = Len(o) => p[i].count = o[i].count + 1
    BY <1>2, CountedFacts
  <2>2. Len(o) \in DOMAIN o /\ \A i \in DOMAIN o : o[i].count \in Nat
    BY <1>2, StackFacts
  <2> HIDE DEF p
  <2>3. \A i \in DOMAIN o : Begun(p, i) = o[i].count + 1
    BY <2>1, <2>2 DEF Begun
  <2>4. Top(p).kind # "match"
    BY <1>2, <2>1, <2>2 DEF Uncounted, Top
  <2>5. InStep(p, b, w)
    BY <1>2, <2>1, <2>3, <2>4 DEF InStep, Uncounted
  <2> QED
    BY <2>5 DEF p
<1> QED
  BY <1>1, <1>2

\* A match has begun, its first case has not.
LEMMA PushMatchInStep ==
    ASSUME NEW o, NEW n, Stacked(o, n), NEW b, NEW w, Uncounted(o, b, w),
           NEW c \in Construct_, c.kind = "match", w[c.stmt] = <<>>, b[c.stmt] = <<>>
    PROVE  InStep(Append(o, c), b, w)
<1> DEFINE p == Append(o, c)
<1>1. /\ Len(p) = Len(o) + 1 /\ Len(o) \in Nat
      /\ DOMAIN p = DOMAIN o \cup {Len(o) + 1} /\ Len(o) + 1 \notin DOMAIN o
      /\ p[Len(o) + 1] = c /\ Top(p) = c
      /\ \A i \in DOMAIN o : p[i] = o[i]
      /\ Stmts(p) = Stmts(o) \cup {c.stmt}
  BY AppendFacts
<1> HIDE DEF p
<1>2. \A i \in DOMAIN o : Begun(p, i) = o[i].count + 1
  BY <1>1 DEF Begun
<1>3. \A i \in DOMAIN p : p[i].kind # "match" => i \in DOMAIN o
  BY <1>1
<1>4. InStep(p, b, w)
  BY <1>1, <1>2, <1>3 DEF InStep, Uncounted
<1> QED
  BY <1>4 DEF p

\* A block of an if or a while has begun.
LEMMA PushBlockInStep ==
    ASSUME NEW o, NEW n, Stacked(o, n), NEW b, NEW w \in [Id -> Seq(Seq(Id))],
           NEW c \in Construct_, c.kind # "match", c.count = 0, c.stmt \in Id,
           c.stmt \notin Stmts(o), Uncounted(o, b, w)
    PROVE  InStep(Append(o, c), b, OpensBlock(w, c.stmt))
<1> DEFINE p == Append(o, c)
           v == OpensBlock(w, c.stmt)
<1>1. /\ Len(p) = Len(o) + 1 /\ Len(o) \in Nat
      /\ DOMAIN p = DOMAIN o \cup {Len(o) + 1} /\ Len(o) + 1 \notin DOMAIN o
      /\ p[Len(o) + 1] = c /\ Top(p) = c
      /\ \A i \in DOMAIN o : p[i] = o[i]
      /\ Stmts(p) = Stmts(o) \cup {c.stmt}
  BY AppendFacts
<1>2. /\ v[c.stmt] = Append(w[c.stmt], <<>>) /\ \A s \in Id : s # c.stmt => v[s] = w[s]
  BY DEF OpensBlock
<1>w. /\ w[c.stmt] \in Seq(Seq(Id)) /\ <<>> \in Seq(Id) /\ Len(w[c.stmt]) = Len(b[c.stmt])
      /\ Len(w[c.stmt]) \in Nat
  BY DEF Uncounted
<1> HIDE DEF p, v
<1>3. \A i \in DOMAIN o : Begun(p, i) = o[i].count + 1 /\ o[i].stmt \in Id /\ o[i].stmt # c.stmt
  BY <1>1, StackFacts DEF Begun, Stmts
<1>4. /\ Len(v[c.stmt]) = Len(b[c.stmt]) + 1 /\ Len(v[c.stmt][Len(b[c.stmt]) + 1]) = 0
      /\ \A k \in DOMAIN w[c.stmt] : k \in DOMAIN v[c.stmt] /\ v[c.stmt][k] = w[c.stmt][k]
  BY <1>2, <1>w
<1>5. Begun(p, Len(o) + 1) = 0
  BY <1>1 DEF Begun
<1>6. \A s \in Id : \A k \in DOMAIN b[s] : k \in DOMAIN v[s] /\ b[s][k].count = Len(v[s][k])
  <2> TAKE s \in Id
  <2> TAKE k \in DOMAIN b[s]
  <2>1. k \in DOMAIN w[s] /\ b[s][k].count = Len(w[s][k])
    BY DEF Uncounted
  <2>2. k \in DOMAIN v[s] /\ v[s][k] = w[s][k]
    BY <1>2, <1>4, <2>1
  <2> QED
    BY <2>1, <2>2
<1>7. \A s \in Id \ Stmts(p) : Len(v[s]) = Len(b[s])
  BY <1>1, <1>2 DEF Uncounted
<1>8. \A i \in DOMAIN p : p[i].kind # "match" =>
          /\ Len(v[p[i].stmt]) = Len(b[p[i].stmt]) + 1
          /\ Len(v[p[i].stmt][Len(b[p[i].stmt]) + 1]) = Begun(p, i)
  <2> TAKE i \in DOMAIN p
  <2>1. CASE i \in DOMAIN o
    <3>1. p[i] = o[i] /\ v[o[i].stmt] = w[o[i].stmt] /\ Begun(p, i) = o[i].count + 1
      BY <1>1, <1>2, <1>3, <2>1
    <3>2. o[i].kind # "match" =>
             /\ Len(w[o[i].stmt]) = Len(b[o[i].stmt]) + 1
             /\ Len(w[o[i].stmt][Len(b[o[i].stmt]) + 1]) = o[i].count + 1
      BY <2>1 DEF Uncounted
    <3> QED
      BY <3>1, <3>2
  <2>2. CASE i = Len(o) + 1
    <3>1. p[i] = c /\ Begun(p, i) = 0
      BY <1>1, <1>5, <2>2
    <3> QED
      BY <1>4, <3>1
  <2> QED
    BY <1>1, <2>1, <2>2
<1>9. InStep(p, b, v)
  BY <1>1, <1>6, <1>7, <1>8 DEF InStep
<1> QED
  BY <1>9 DEF p, v

\* The innermost statement has ended: all its blocks are in b.
LEMMA EndUncounted ==
    ASSUME NEW o, NEW n, Stacked(o, n), o # <<>>, Ascending(o), Top(o).kind # "case",
           NEW a, NEW b, NEW w, InStep(o, a, w),
           \A s \in Id : s # Top(o).stmt => b[s] = a[s],
           \A s \in Id : \A k \in DOMAIN b[s] : k \in DOMAIN w[s] /\ b[s][k].count = Len(w[s][k]),
           Len(w[Top(o).stmt]) = Len(b[Top(o).stmt])
    PROVE  Uncounted(Front(o), b, w)
<1>1. /\ \A i \in DOMAIN Front(o) : i \in DOMAIN o /\ i < Len(o) /\ Front(o)[i] = o[i]
      /\ Stmts(o) = Stmts(Front(o)) \cup {Top(o).stmt}
      /\ Top(o).stmt \notin Stmts(Front(o))
  BY FrontStmts
<1>2. \A i \in DOMAIN Front(o) : o[i].stmt \in Id /\ o[i].stmt # Top(o).stmt
  BY <1>1, StackFacts DEF Stmts
<1>3. Len(o) \in Nat /\ DOMAIN o = 1 .. Len(o)
  BY StackFacts
<1>4. \A i \in DOMAIN Front(o) : Begun(o, i) = o[i].count + 1
  BY <1>1, <1>3 DEF Begun
<1>5. \A s \in Id \ Stmts(Front(o)) : Len(w[s]) = Len(b[s])
  BY <1>1 DEF InStep
<1>6. Front(o) # <<>> => Top(Front(o)).kind # "match"
  BY BelowTop
<1>7. \A i \in DOMAIN Front(o) : Front(o)[i].kind # "match" =>
          /\ Len(w[Front(o)[i].stmt]) = Len(b[Front(o)[i].stmt]) + 1
          /\ Len(w[Front(o)[i].stmt][Len(b[Front(o)[i].stmt]) + 1]) = Front(o)[i].count + 1
  <2> TAKE i \in DOMAIN Front(o)
  <2>1. /\ i \in DOMAIN o /\ Front(o)[i] = o[i] /\ b[o[i].stmt] = a[o[i].stmt]
        /\ Begun(o, i) = o[i].count + 1
    BY <1>1, <1>2, <1>4
  <2>2. o[i].kind # "match" =>
           /\ Len(w[o[i].stmt]) = Len(a[o[i].stmt]) + 1
           /\ Len(w[o[i].stmt][Len(a[o[i].stmt]) + 1]) = Begun(o, i)
    BY <2>1 DEF InStep
  <2> QED
    BY <2>1, <2>2
<1> QED
  BY <1>5, <1>6, <1>7 DEF Uncounted
-----------------------------------------------------------------------------
(* Steps of it.                                                            *)

LEMMA SeqElement == ASSUME NEW S, NEW q \in Seq(S), NEW k \in DOMAIN q PROVE q[k] \in S
OBVIOUS

LEMMA OpenFacts ==
    ASSUME Fits, Source
    PROVE  /\ Stacked(open, Len(nodes)) /\ Len(nodes) \in Nat /\ Taken \in Nat
           /\ blocks \in [Id -> Seq(Place)] /\ \A s \in Id : Len(blocks[s]) \in Nat
           /\ written \in [Id -> Seq(Seq(Id))] /\ \A s \in Id : Len(written[s]) \in Nat
           /\ \A s \in Id : s \in Nat
           /\ \A i \in DOMAIN open : open[i].stmt \in Id /\ open[i].stmt <= Taken
           /\ open # <<>> => inner = Top(open) /\ inner.stmt \in Id /\ inner \in Construct_
                             /\ Len(open) \in DOMAIN open /\ inner = open[Len(open)]
           /\ Below = Front(open)
<1>1. Stacked(open, Len(nodes)) /\ Len(nodes) \in Nat /\ Taken \in Nat
  BY PoolFacts DEF Fits
<1>2. blocks \in [Id -> Seq(Place)] /\ written \in [Id -> Seq(Seq(Id))]
  BY DEF Fits, TypeOK, Place, Source
<1>3. \A s \in Id : Len(blocks[s]) \in Nat /\ Len(written[s]) \in Nat /\ s \in Nat
  BY <1>2, BlocksAssumption DEF Id
<1>4. \A i \in DOMAIN open : open[i].stmt \in Id /\ open[i] \in Construct_
  BY <1>1, StackFacts
<1>5. open # <<>> => Len(open) \in DOMAIN open /\ inner = open[Len(open)] /\ inner = Top(open)
  BY <1>1, StackFacts DEF inner, Top
<1> QED
  BY <1>1, <1>2, <1>3, <1>4, <1>5 DEF Source, Below, Front

\* The statement r whose block, its L-th, is being written.
Writing(r, L) ==
    /\ r \in Id /\ r \in Stmts(open) /\ r <= Taken /\ Top(open).kind # "match"
    /\ open # <<>> /\ r = Top(open).stmt /\ Top(open) = open[Len(open)]
    /\ L \in Nat /\ L = Len(blocks[r]) + 1 /\ DOMAIN written[r] = 1 .. L
    /\ L \in DOMAIN written[r] /\ L \notin DOMAIN blocks[r]
    /\ written[r] \in Seq(Seq(Id)) /\ written[r][L] \in Seq(Id) /\ L = Len(written[r])
    /\ \A i \in DOMAIN open :
          /\ open[i].stmt <= r
          /\ i < Len(open) /\ open[i].kind # "match" => open[i].stmt < r

\* v is written with t after the statements of that block.
Wrote(v, r, L, t) ==
    /\ v[r] \in Seq(Seq(Id)) /\ Len(v[r]) = L /\ DOMAIN v[r] = DOMAIN written[r]
    /\ v[r][L] = Append(written[r][L], t)
    /\ \A k \in DOMAIN written[r] : k # L => v[r][k] = written[r][k]
    /\ \A s \in Id : s # r => v[s] = written[s]

LEMMA WriteFacts ==
    ASSUME Fits, Source, ~AtTop, InBlock, NEW t \in Id
    PROVE  /\ Writing(inner.stmt, Len(written[inner.stmt]))
           /\ Wrote(Writes(t), inner.stmt, Len(written[inner.stmt]), t)
<1> DEFINE r == inner.stmt
           L == Len(written[r])
<1>1. /\ open # <<>> /\ Top(open).kind # "match" /\ inner = Top(open) /\ r \in Id
      /\ inner = open[Len(open)] /\ Len(open) \in DOMAIN open /\ r <= Taken
  BY OpenFacts DEF AtTop, InBlock
<1>2. written[r] \in Seq(Seq(Id)) /\ L \in Nat /\ Len(blocks[r]) \in Nat /\ blocks[r] \in Seq(Place)
  BY <1>1, OpenFacts
<1>3. L = Len(blocks[r]) + 1
  BY <1>1 DEF Source, InStep
<1>4. L \in DOMAIN written[r] /\ L \notin DOMAIN blocks[r] /\ DOMAIN written[r] = 1 .. L
  <2>1. DOMAIN written[r] = 1 .. L /\ DOMAIN blocks[r] = 1 .. Len(blocks[r])
    BY <1>2
  <2> HIDE DEF L
  <2> QED
    BY <1>2, <1>3, <2>1
<1>5. written[r][L] \in Seq(Id)
  BY <1>2, <1>4, SeqElement, Zenon
<1> DEFINE x == Append(written[r][L], t)
<1>6. x \in Seq(Id)
  BY <1>5
<1>7. Writes(t) = [written EXCEPT ![r] = [written[r] EXCEPT ![L] = x]]
  BY DEF Writes
<1> HIDE DEF x
<1>8. /\ Writes(t)[r] = [written[r] EXCEPT ![L] = x]
      /\ \A s \in Id : s # r => Writes(t)[s] = written[s]
  BY <1>1, <1>7, OpenFacts
<1>9. /\ Writes(t)[r] \in Seq(Seq(Id)) /\ Len(Writes(t)[r]) = L
      /\ DOMAIN Writes(t)[r] = DOMAIN written[r] /\ Writes(t)[r][L] = x
      /\ \A k \in DOMAIN written[r] : k # L => Writes(t)[r][k] = written[r][k]
  BY <1>2, <1>4, <1>6, <1>8
<1>10. ASSUME NEW i \in DOMAIN open
       PROVE  open[i].stmt <= r /\ (i < Len(open) /\ open[i].kind # "match" => open[i].stmt < r)
  <2>1. open[i].stmt \in Nat /\ r \in Nat /\ Len(open) \in Nat /\ i \in 1 .. Len(open)
    BY <1>1, OpenFacts, StackFacts
  <2>2. CASE i = Len(open)
    BY <1>1, <2>1, <2>2
  <2>3. CASE i < Len(open)
    BY <1>1, <2>1, <2>3 DEF Source, Ascending
  <2> QED
    BY <2>1, <2>2, <2>3
<1>11. r \in Stmts(open)
  BY <1>1 DEF Stmts
<1> QED
  BY <1>1, <1>2, <1>3, <1>4, <1>5, <1>8, <1>9, <1>10, <1>11 DEF x, Writing, Wrote

\* The source has one more statement in the innermost block.
LEMMA WriteUncounted ==
    ASSUME Fits, Source, AtTop \/ InBlock, NEW t \in Id
    PROVE  /\ Writes(t) \in [Id -> Seq(Seq(Id))]
           /\ Uncounted(open, blocks, Writes(t))
           /\ \A s \in Id : s > Taken => Writes(t)[s] = <<>>
<1>1. CASE AtTop
  BY <1>1, OpenFacts DEF AtTop, Writes, Uncounted, Source, InStep
<1>2. CASE ~AtTop /\ InBlock
  <2> DEFINE r == inner.stmt
             L == Len(written[r])
             block == written[r][L]
             w == Writes(t)
  <2>1. /\ open # <<>> /\ Top(open).kind # "match" /\ inner = Top(open) /\ r \in Id
        /\ inner = open[Len(open)] /\ Len(open) \in DOMAIN open
    BY <1>2, OpenFacts DEF AtTop, InBlock
  <2>2. Writing(r, L) /\ Wrote(w, r, L, t)
    BY <1>2, WriteFacts
  <2>3. block \in Seq(Id) /\ Len(block) = inner.count
    <3>1. inner.count \in Nat /\ Len(blocks[r]) + 1 = L
      BY <2>1, <2>2, OpenFacts, StackFacts DEF Writing
    <3>2. Begun(open, Len(open)) = inner.count
      BY <2>1, <3>1 DEF Begun
    <3>3. Len(block) = Begun(open, Len(open))
      BY <2>1, <3>1 DEF Source, InStep
    <3> QED
      BY <2>2, <3>2, <3>3 DEF Writing
  <2> HIDE DEF r, L, block, w
  <2>4. Append(block, t) \in Seq(Id) /\ Len(Append(block, t)) = inner.count + 1
    BY <2>3
  <2>6. \A s \in Id : s # r => w[s] = written[s]
    BY <2>2 DEF Wrote
  <2>7. /\ w[r] \in Seq(Seq(Id)) /\ Len(w[r]) = Len(written[r]) /\ DOMAIN w[r] = DOMAIN written[r]
        /\ w[r][L] = Append(block, t) /\ Len(w[r]) = L /\ Len(blocks[r]) + 1 = L
        /\ L \notin DOMAIN blocks[r] /\ L \in DOMAIN written[r]
        /\ \A k \in DOMAIN written[r] : k # L => w[r][k] = written[r][k]
    BY <2>2 DEF Writing, Wrote, L, block
  <2>8. w \in [Id -> Seq(Seq(Id))]
    <3>1. \E x \in Seq(Seq(Id)) : w = [written EXCEPT ![r] = x]
      <4>1. w = [written EXCEPT ![r] = [written[r] EXCEPT ![L] = Append(@, t)]]
        BY <1>2 DEF Writes, r, L, w
      <4>2. w[r] = [written[r] EXCEPT ![L] = Append(@, t)]
        BY <2>1, <4>1, OpenFacts
      <4> QED
        BY <2>7, <4>1, <4>2
    <3> QED
      BY <3>1, OpenFacts
  <2>9. \A s \in Id : Len(w[s]) = Len(written[s])
    BY <2>6, <2>7
  <2>10. \A s \in Id : \A k \in DOMAIN blocks[s] :
            k \in DOMAIN w[s] /\ blocks[s][k].count = Len(w[s][k])
    <3> TAKE s \in Id
    <3>1. CASE s = r
      BY <2>7, <3>1 DEF Source, InStep
    <3>2. CASE s # r
      BY <2>6, <3>2 DEF Source, InStep
    <3> QED
      BY <3>1, <3>2
  <2>11. \A i \in DOMAIN open : open[i].kind # "match" =>
            /\ Len(w[open[i].stmt]) = Len(blocks[open[i].stmt]) + 1
            /\ Len(w[open[i].stmt][Len(blocks[open[i].stmt]) + 1]) = open[i].count + 1
    <3> SUFFICES ASSUME NEW i \in DOMAIN open, open[i].kind # "match"
                 PROVE  /\ Len(w[open[i].stmt]) = Len(blocks[open[i].stmt]) + 1
                        /\ Len(w[open[i].stmt][Len(blocks[open[i].stmt]) + 1]) = open[i].count + 1
      OBVIOUS
    <3>1. CASE i = Len(open)
      <4>1. open[i].stmt = r /\ open[i].count = inner.count
        BY <2>1, <3>1 DEF r
      <4>2. Len(blocks[r]) + 1 = L /\ Len(w[r]) = L /\ Len(w[r][L]) = inner.count + 1
        BY <2>4, <2>7
      <4> QED
        BY <4>1, <4>2
    <3>2. CASE i # Len(open)
      <4>1. i < Len(open)
        BY <2>1, <3>2, OpenFacts, StackFacts
      <4>2. open[i].stmt < r
        BY <2>1, <4>1 DEF Source, Ascending, r
      <4>3. open[i].stmt \in Id /\ open[i].stmt # r
        BY <2>1, <4>2, OpenFacts
      <4>4. w[open[i].stmt] = written[open[i].stmt] /\ Begun(open, i) = open[i].count + 1
        BY <2>6, <3>2, <4>3 DEF Begun
      <4> QED
        BY <4>4 DEF Source, InStep
    <3> QED
      BY <3>1, <3>2
  <2>12. Uncounted(open, blocks, w)
    BY <2>1, <2>9, <2>10, <2>11 DEF Uncounted, Source, InStep
  <2>13. \A s \in Id : s > Taken => w[s] = <<>>
    <3> TAKE s \in Id
    <3>1. r <= Taken /\ r \in Nat /\ s \in Nat /\ Taken \in Nat
      BY <2>1, OpenFacts DEF r
    <3>2. s > Taken => s # r
      BY <3>1
    <3> QED
      BY <2>6, <3>2 DEF Source
  <2> QED
    BY <2>8, <2>12, <2>13 DEF w
<1> QED
  BY <1>1, <1>2

LEMMA SimpleSource == ASSUME Fits, Source, Simple PROVE Source'
<1>1. Taken' = Taken + 1 /\ Taken + 1 \in Id /\ Taken \in Nat
  BY TakeFacts, OpenFacts DEF Simple, Fits
<1>2. /\ written' = Writes(Taken + 1) /\ open' = Counted(open) /\ blocks' = blocks
      /\ AtTop \/ InBlock
  BY DEF Simple
<1>3. /\ written' \in [Id -> Seq(Seq(Id))] /\ Uncounted(open, blocks, written')
      /\ \A s \in Id : s > Taken => written'[s] = <<>>
  BY <1>1, <1>2, WriteUncounted
<1>4. InStep(open', blocks', written')
  BY <1>2, <1>3, OpenFacts, CountInStep
<1>5. \A s \in Id : s > Taken' => written'[s] = <<>> /\ blocks'[s] = <<>>
  BY <1>1, <1>2, <1>3, OpenFacts DEF Source
<1>6. (\A i \in DOMAIN open' : open'[i].stmt <= Taken') /\ Ascending(open')
  <2>1. CASE open = <<>>
    BY <1>2, <2>1 DEF Counted, Ascending
  <2>2. CASE open # <<>>
    <3>1. /\ DOMAIN open' = DOMAIN open /\ \A i \in DOMAIN open : open'[i].stmt = open[i].stmt
          /\ Ascending(open')
      BY <1>2, <2>2, OpenFacts, CountedFacts DEF Source
    <3>2. \A i \in DOMAIN open : open[i].stmt \in Nat /\ open[i].stmt <= Taken
      BY OpenFacts
    <3> QED
      BY <1>1, <3>1, <3>2
  <2> QED
    BY <2>1, <2>2
<1> QED
  BY <1>3, <1>4, <1>5, <1>6 DEF Source

\* A construct of a new statement, or a case of the innermost match, on top.
LEMMA PushAscending ==
    ASSUME Fits, Source, NEW c \in Construct_,
           \A i \in DOMAIN open :
              \/ open[i].stmt < c.stmt
              \/ open[i].stmt = c.stmt /\ open[i].kind = "match" /\ c.kind = "case"
    PROVE  Ascending(Append(open, c))
<1> DEFINE p == Append(open, c)
<1>1. /\ Len(open) \in Nat
      /\ DOMAIN p = DOMAIN open \cup {Len(open) + 1} /\ p[Len(open) + 1] = c
      /\ \A i \in DOMAIN open : p[i] = open[i] /\ i <= Len(open) /\ i \in Nat
  BY OpenFacts, AppendFacts
<1> HIDE DEF p
<1>2. ASSUME NEW i \in DOMAIN p, NEW j \in DOMAIN p, i < j
      PROVE  \/ p[i].stmt < p[j].stmt
             \/ p[i].stmt = p[j].stmt /\ p[i].kind = "match" /\ p[j].kind = "case"
  <2>1. i \in DOMAIN open
    BY <1>1, <1>2
  <2>2. CASE j \in DOMAIN open
    BY <1>1, <1>2, <2>1, <2>2 DEF Source, Ascending
  <2>3. CASE j = Len(open) + 1
    BY <1>1, <2>1, <2>3
  <2> QED
    BY <1>1, <2>2, <2>3
<1> QED
  BY <1>2 DEF Ascending, p

LEMMA BeginSource ==
    ASSUME Fits, Source, NEW kind \in {"if", "while", "match"}, Begin(kind) PROVE Source'
<1>0. PICK t \in Id : t = Taken + 1
  BY TakeFacts DEF Begin, Fits
<1> DEFINE c == Construct(t, kind)
           w == Writes(t)
<1>1. Taken' = t /\ t = Taken + 1 /\ t \in Nat /\ Taken \in Nat
      /\ Len(nodes') \in 0 .. MaxStmtNodes
  BY <1>0, TakeFacts, OpenFacts DEF Begin, Fits
<1>2. /\ open' = Append(open, c) /\ blocks' = blocks
      /\ written' = IF kind = "match" THEN w ELSE OpensBlock(w, t)
      /\ AtTop \/ InBlock
  BY <1>0 DEF Begin
<1>3. /\ c \in Construct_ /\ c.stmt = t /\ c.kind = kind /\ c.count = 0
  BY <1>1, ConstructFacts DEF Kinds
<1>4. /\ w \in [Id -> Seq(Seq(Id))] /\ Uncounted(open, blocks, w)
      /\ \A s \in Id : s > Taken => w[s] = <<>>
  BY <1>2, WriteUncounted
<1> HIDE DEF c, w
<1>5. \A i \in DOMAIN open : open[i].stmt < t
  <2>1. \A i \in DOMAIN open : open[i].stmt \in Nat /\ open[i].stmt <= Taken
    BY OpenFacts
  <2> QED
    BY <1>1, <2>1
<1>6. t \notin Stmts(open)
  BY <1>1, <1>5 DEF Stmts
<1>7. w[t] = <<>> /\ blocks[t] = <<>>
  BY <1>1, <1>4 DEF Source
<1>8. Ascending(open')
  BY <1>2, <1>3, <1>5, PushAscending
<1>9. \A i \in DOMAIN open' : open'[i].stmt <= Taken'
  <2>1. /\ DOMAIN open' = DOMAIN open \cup {Len(open) + 1} /\ open'[Len(open) + 1] = c
        /\ \A i \in DOMAIN open : open'[i] = open[i]
    BY <1>2, <1>3, OpenFacts, AppendFacts
  <2>2. \A i \in DOMAIN open : open[i].stmt \in Nat
    BY OpenFacts
  <2> QED
    BY <1>1, <1>3, <1>5, <2>1, <2>2
<1>10. CASE kind = "match"
  <2>1. InStep(open', blocks', written')
    BY <1>2, <1>3, <1>4, <1>7, <1>10, OpenFacts, PushMatchInStep
  <2>2. \A s \in Id : s > Taken' => written'[s] = <<>> /\ blocks'[s] = <<>>
    BY <1>1, <1>2, <1>4, <1>10, OpenFacts DEF Source
  <2> QED
    BY <1>2, <1>4, <1>8, <1>9, <1>10, <2>1, <2>2 DEF Source
<1>11. CASE kind # "match"
  <2>1. InStep(open', blocks', written')
    <3>1. InStep(Append(open, c), blocks, OpensBlock(w, c.stmt))
      BY <1>3, <1>4, <1>6, <1>7, <1>11, OpenFacts, PushBlockInStep
    <3> QED
      BY <1>2, <1>3, <1>11, <3>1
  <2>2. written' = [w EXCEPT ![t] = << <<>> >>]
    BY <1>2, <1>7, <1>11 DEF OpensBlock
  <2>3. << <<>> >> \in Seq(Seq(Id))
    OBVIOUS
  <2>4. written' \in [Id -> Seq(Seq(Id))]
    BY <1>4, <2>2, <2>3
  <2>5. \A s \in Id : s > Taken' => written'[s] = <<>> /\ blocks'[s] = <<>>
    <3> TAKE s \in Id
    <3>1. s > Taken' => s # t /\ s > Taken
      BY <1>1, OpenFacts
    <3> QED
      BY <1>2, <1>4, <2>2, <3>1 DEF Source
  <2> QED
    BY <1>8, <1>9, <2>1, <2>4, <2>5 DEF Source
<1> QED
  BY <1>10, <1>11

LEMMA CaseSource == ASSUME Fits, Source, Case PROVE Source'
<1> DEFINE r == inner.stmt
           c == Construct(r, "case")
           w == OpensBlock(written, r)
<1>1. /\ open # <<>> /\ inner = Top(open) /\ inner.kind = "match" /\ r \in Id
      /\ open' = Append(open, c) /\ written' = w /\ UNCHANGED <<body, nodes, blocks>>
      /\ Len(nodes') \in 0 .. MaxStmtNodes /\ inner = open[Len(open)] /\ Len(open) \in DOMAIN open
      /\ r <= Taken
  <2>1. open # <<>> /\ inner.kind = "match" /\ open' = Append(open, c) /\ written' = w
        /\ UNCHANGED <<body, nodes, blocks>>
    BY DEF Case, AtCase, AtTop
  <2> QED
    BY <2>1, OpenFacts, PoolFacts DEF Fits
<1>2. /\ c \in Construct_ /\ c.stmt = r /\ c.kind = "case" /\ c.count = 0
  BY <1>1, ConstructFacts DEF Kinds
<1>3. Taken' = Taken
  BY <1>1 DEF Taken
<1>4. w = [written EXCEPT ![r] = Append(written[r], <<>>)] /\ written \in [Id -> Seq(Seq(Id))]
  BY OpenFacts DEF OpensBlock
<1>5. Len(written[r]) = Len(blocks[r]) /\ Len(blocks[r]) \in Nat
  BY <1>1, OpenFacts DEF Source, InStep
<1>6. /\ DOMAIN open' = DOMAIN open \cup {Len(open) + 1} /\ open'[Len(open) + 1] = c
      /\ \A i \in DOMAIN open : open'[i] = open[i] /\ i <= Len(open) /\ i \in Nat
      /\ Len(open') = Len(open) + 1 /\ Top(open') = c /\ Len(open) \in Nat
      /\ Stmts(open') = Stmts(open) \cup {c.stmt}
  BY <1>1, <1>2, OpenFacts, AppendFacts
<1> HIDE DEF c, w, r
<1>7. written[r] \in Seq(Seq(Id)) /\ <<>> \in Seq(Id)
  BY <1>1, <1>4
<1>8. /\ Append(written[r], <<>>) \in Seq(Seq(Id))
      /\ Len(Append(written[r], <<>>)) = Len(blocks[r]) + 1
      /\ Append(written[r], <<>>)[Len(blocks[r]) + 1] = <<>>
      /\ \A k \in DOMAIN written[r] :
            k \in DOMAIN Append(written[r], <<>>) /\ Append(written[r], <<>>)[k] = written[r][k]
  BY <1>5, <1>7
<1>9. w \in [Id -> Seq(Seq(Id))] /\ w[r] = Append(written[r], <<>>)
      /\ \A s \in Id : s # r => w[s] = written[s]
  BY <1>1, <1>4, <1>8
<1>10. \A i \in DOMAIN open : i # Len(open) => open[i].stmt < r
  <2> TAKE i \in DOMAIN open
  <2>1. i # Len(open) => i < Len(open)
    BY <1>6
  <2> QED
    BY <1>1, <2>1 DEF Source, Ascending, r
<1>11. Ascending(open')
  <2>1. \A i \in DOMAIN open :
           \/ open[i].stmt < c.stmt
           \/ open[i].stmt = c.stmt /\ open[i].kind = "match" /\ c.kind = "case"
    BY <1>1, <1>2, <1>10 DEF r
  <2> QED
    BY <1>1, <1>2, <2>1, PushAscending
<1>12. \A i \in DOMAIN open' : open'[i].stmt <= Taken'
  BY <1>1, <1>2, <1>3, <1>6, OpenFacts
<1>13. \A s \in Id : s > Taken' => written'[s] = <<>> /\ blocks'[s] = <<>>
  <2> TAKE s \in Id
  <2>1. s > Taken => s # r
    BY <1>1, OpenFacts
  <2> QED
    BY <1>1, <1>3, <1>9, <2>1 DEF Source
<1>14. \A s \in Id : \A k \in DOMAIN blocks[s] : k \in DOMAIN w[s] /\ blocks[s][k].count = Len(w[s][k])
  <2> TAKE s \in Id
  <2>1. CASE s = r
    <3> TAKE k \in DOMAIN blocks[s]
    <3>1. k \in DOMAIN written[r] /\ blocks[s][k].count = Len(written[r][k])
      BY <2>1 DEF Source, InStep
    <3>2. k \in DOMAIN w[r] /\ w[r][k] = written[r][k]
      BY <1>8, <1>9, <3>1
    <3> QED
      BY <2>1, <3>1, <3>2
  <2>2. CASE s # r
    BY <1>9, <2>2 DEF Source, InStep
  <2> QED
    BY <2>1, <2>2
<1>15. \A s \in Id \ Stmts(open') : Len(w[s]) = Len(blocks[s])
  <2> TAKE s \in Id \ Stmts(open')
  <2>1. s \in Id \ Stmts(open) /\ s # r
    BY <1>2, <1>6
  <2>2. w[s] = written[s] /\ Len(written[s]) = Len(blocks[s])
    BY <1>9, <2>1 DEF Source, InStep
  <2> QED
    BY <2>2
<1>16. \A i \in DOMAIN open' : open'[i].kind # "match" =>
          /\ Len(w[open'[i].stmt]) = Len(blocks[open'[i].stmt]) + 1
          /\ Len(w[open'[i].stmt][Len(blocks[open'[i].stmt]) + 1]) = Begun(open', i)
  <2> SUFFICES ASSUME NEW i \in DOMAIN open', open'[i].kind # "match"
               PROVE  /\ Len(w[open'[i].stmt]) = Len(blocks[open'[i].stmt]) + 1
                      /\ Len(w[open'[i].stmt][Len(blocks[open'[i].stmt]) + 1]) = Begun(open', i)
    OBVIOUS
  <2>1. CASE i = Len(open) + 1
    <3>1. open'[i] = c /\ Begun(open', i) = 0
      BY <1>2, <1>6, <2>1 DEF Begun
    <3>2. Len(w[r]) = Len(blocks[r]) + 1 /\ Len(w[r][Len(blocks[r]) + 1]) = 0
      BY <1>8, <1>9
    <3> QED
      BY <1>2, <3>1, <3>2
  <2>2. CASE i \in DOMAIN open
    <3>1. open'[i] = open[i] /\ i # Len(open)
      BY <1>1, <1>6, <2>2
    <3>2. open[i].stmt \in Id /\ open[i].stmt # r
      <4>1. open[i].stmt \in Id /\ open[i].stmt \in Nat /\ r \in Nat
        BY <1>1, <2>2, OpenFacts
      <4> QED
        BY <1>10, <2>2, <3>1, <4>1
    <3>3. w[open[i].stmt] = written[open[i].stmt] /\ Begun(open', i) = Begun(open, i)
      BY <1>6, <1>9, <2>2, <3>1, <3>2 DEF Begun
    <3> QED
      BY <2>2, <3>1, <3>3 DEF Source, InStep
  <2> QED
    BY <1>6, <2>1, <2>2
<1>17. InStep(open', blocks, w)
  BY <1>2, <1>6, <1>14, <1>15, <1>16 DEF InStep
<1> QED
  BY <1>1, <1>9, <1>11, <1>12, <1>13, <1>17 DEF Source

\* The innermost statement is finished and counted in the block around it.
LEMMA AfterEnd ==
    ASSUME NEW o, NEW n \in Nat, Stacked(o, n), o # <<>>, Ascending(o), Top(o).kind # "case",
           NEW b, NEW w, Uncounted(Front(o), b, w), NEW T, \A i \in DOMAIN o : o[i].stmt <= T
    PROVE  /\ InStep(Counted(Front(o)), b, w)
           /\ Ascending(Counted(Front(o)))
           /\ \A i \in DOMAIN Counted(Front(o)) : Counted(Front(o))[i].stmt <= T
<1>2. PICK k \in Nat : Stacked(Front(o), k)
  BY FrontIsStacked
<1>3. /\ Ascending(Front(o))
      /\ \A i \in DOMAIN Front(o) : i \in DOMAIN o /\ Front(o)[i] = o[i]
  BY FrontStmts
<1>4. InStep(Counted(Front(o)), b, w)
  BY <1>2, CountInStep
<1>5. CASE Front(o) = <<>>
  <2>1. Counted(Front(o)) = <<>>
    BY <1>5 DEF Counted
  <2> QED
    BY <1>4, <2>1 DEF Ascending
<1>6. CASE Front(o) # <<>>
  BY <1>2, <1>3, <1>4, <1>6, CountedFacts
<1> QED
  BY <1>5, <1>6

LEMMA EndMatchSource == ASSUME Fits, Source, EndMatch PROVE Source'
<1>1. /\ open # <<>> /\ inner = Top(open) /\ Top(open).kind = "match"
      /\ open' = Counted(Front(open)) /\ UNCHANGED <<body, nodes, blocks, written>>
  BY OpenFacts DEF EndMatch, AtCase, AtTop
<1>2. Stacked(open, Len(nodes)) /\ Len(nodes) \in Nat /\ Taken' = Taken
      /\ \A i \in DOMAIN open : open[i].stmt <= Taken
  BY <1>1, OpenFacts DEF Taken
<1>3. Uncounted(Front(open), blocks, written)
  BY <1>1, <1>2, EndUncounted DEF Source, InStep
<1>4. /\ InStep(open', blocks, written) /\ Ascending(open')
      /\ \A i \in DOMAIN open' : open'[i].stmt <= Taken
  BY <1>1, <1>2, <1>3, AfterEnd DEF Source
<1> QED
  BY <1>1, <1>2, <1>4 DEF Source

\* A block is complete: its count is what the source has in it.
LEMMA BlockClosed ==
    ASSUME Fits, Source, open # <<>>, Top(open).kind # "match", NEW p \in Place,
           p.count = Top(open).count,
           blocks' = [blocks EXCEPT ![inner.stmt] = Append(@, p)]
    PROVE  /\ \A s \in Id : \A k \in DOMAIN blocks'[s] :
                 k \in DOMAIN written[s] /\ blocks'[s][k].count = Len(written[s][k])
           /\ \A s \in Id : s # Top(open).stmt => blocks'[s] = blocks[s]
           /\ Len(written[Top(open).stmt]) = Len(blocks'[Top(open).stmt])
<1> DEFINE r == Top(open).stmt
<1>1. /\ inner.stmt = r /\ r \in Id /\ Len(open) \in DOMAIN open /\ Top(open) = open[Len(open)]
      /\ blocks \in [Id -> Seq(Place)] /\ written \in [Id -> Seq(Seq(Id))]
      /\ Top(open).count \in Nat
  <2>1. Top(open).count \in Nat
    BY OpenFacts, StackFacts DEF Top
  <2> QED
    BY <2>1, OpenFacts
<1>2. /\ Len(written[r]) = Len(blocks[r]) + 1
      /\ Len(written[r][Len(blocks[r]) + 1]) = Top(open).count
  <2>1. Begun(open, Len(open)) = Top(open).count
    BY <1>1 DEF Begun
  <2> QED
    BY <1>1, <2>1 DEF Source, InStep
<1>3. blocks'[r] = Append(blocks[r], p) /\ \A s \in Id : s # r => blocks'[s] = blocks[s]
  BY <1>1
<1> HIDE DEF r
<1>4. blocks[r] \in Seq(Place) /\ written[r] \in Seq(Seq(Id))
  BY <1>1
<1>5. /\ Len(blocks'[r]) = Len(blocks[r]) + 1 /\ DOMAIN blocks'[r] = DOMAIN blocks[r] \cup {Len(blocks[r]) + 1}
      /\ blocks'[r][Len(blocks[r]) + 1] = p /\ \A k \in DOMAIN blocks[r] : blocks'[r][k] = blocks[r][k]
      /\ Len(blocks[r]) + 1 \in DOMAIN written[r]
  BY <1>2, <1>3, <1>4
<1>6. ASSUME NEW s \in Id, NEW k \in DOMAIN blocks'[s]
      PROVE  k \in DOMAIN written[s] /\ blocks'[s][k].count = Len(written[s][k])
  <2>1. CASE s = r /\ k = Len(blocks[r]) + 1
    BY <1>2, <1>5, <2>1
  <2>2. CASE s # r \/ k \in DOMAIN blocks[r]
    <3>1. k \in DOMAIN blocks[s] /\ blocks'[s][k] = blocks[s][k]
      BY <1>3, <1>5, <1>6, <2>2
    <3> QED
      BY <3>1 DEF Source, InStep
  <2> QED
    BY <1>5, <1>6, <2>1, <2>2
<1> QED
  BY <1>2, <1>3, <1>5, <1>6 DEF r

\* The end of a case: the match it belongs to is innermost, all cases closed.
LEMMA CaseClosed ==
    ASSUME Fits, Source, open # <<>>, Top(open).kind = "case", NEW b,
           \A s \in Id : \A k \in DOMAIN b[s] :
                 k \in DOMAIN written[s] /\ b[s][k].count = Len(written[s][k]),
           \A s \in Id : s # Top(open).stmt => b[s] = blocks[s],
           Len(written[Top(open).stmt]) = Len(b[Top(open).stmt])
    PROVE  InStep(Front(open), b, written)
<1> DEFINE p == Front(open)
           r == Top(open).stmt
<1>1. /\ \A i \in DOMAIN p : i \in DOMAIN open /\ i < Len(open) /\ p[i] = open[i]
      /\ Stmts(p) = Stmts(open)
      /\ \A i \in DOMAIN p : open[i].kind # "match" => open[i].stmt < r
  BY OpenFacts, FrontStmts DEF Source
<1>2. /\ p # <<>> /\ Top(p).kind = "match" /\ Top(p).stmt = r
  BY OpenFacts, BelowTop
<1>3. r \in Id /\ r \in Stmts(open)
  BY OpenFacts DEF Stmts, Top
<1>4. Len(open) \in Nat /\ DOMAIN p = 1 .. Len(open) - 1 /\ Len(p) = Len(open) - 1
      /\ Len(p) \in DOMAIN p /\ Top(p) = p[Len(p)]
  <2>1. Len(open) \in Nat /\ DOMAIN p = 1 .. Len(open) - 1 /\ Len(p) = Len(open) - 1
    BY OpenFacts, StackFacts, FrontFacts
  <2>2. p \in Seq(Construct_)
    BY OpenFacts, FrontFacts
  <2>3. Len(p) \in DOMAIN p
    BY <1>2, <2>2
  <2> QED
    BY <2>1, <2>3 DEF Top
<1> HIDE DEF p, r
<1>5. ASSUME NEW i \in DOMAIN p, p[i].kind # "match"
      PROVE  /\ Len(written[p[i].stmt]) = Len(b[p[i].stmt]) + 1
             /\ Len(written[p[i].stmt][Len(b[p[i].stmt]) + 1]) = Begun(p, i)
  <2>1. i \in DOMAIN open /\ p[i] = open[i] /\ i < Len(open) /\ open[i].stmt < r
    BY <1>1, <1>5
  <2>2. open[i].stmt \in Id /\ open[i].stmt \in Nat /\ r \in Nat
    BY <1>3, <2>1, OpenFacts
  <2>3. b[open[i].stmt] = blocks[open[i].stmt]
    BY <2>1, <2>2 DEF r
  <2>4. i # Len(p) /\ i # Len(open)
    BY <1>2, <1>4, <1>5, <2>1
  <2>5. Begun(p, i) = Begun(open, i)
    BY <2>1, <2>4 DEF Begun
  <2>6. /\ Len(written[open[i].stmt]) = Len(blocks[open[i].stmt]) + 1
        /\ Len(written[open[i].stmt][Len(blocks[open[i].stmt]) + 1]) = Begun(open, i)
    BY <1>5, <2>1 DEF Source, InStep
  <2> QED
    BY <2>1, <2>3, <2>5, <2>6
<1>6. \A s \in Id \ Stmts(p) : Len(written[s]) = Len(b[s])
  BY <1>1, <1>3 DEF Source, InStep, r
<1>7. Len(written[Top(p).stmt]) = Len(b[Top(p).stmt])
  BY <1>2 DEF r
<1>8. InStep(p, b, written)
  BY <1>5, <1>6, <1>7 DEF InStep
<1> QED
  BY <1>8 DEF p

LEMMA CloseSource ==
    ASSUME Fits, Source, NEW followed_by_else \in BOOLEAN, Close(followed_by_else) PROVE Source'
<1> DEFINE p == [start |-> inner.start, count |-> inner.count]
           r == Top(open).stmt
<1>1. /\ open # <<>> /\ Top(open).kind # "match" /\ inner = Top(open) /\ Below = Front(open)
      /\ UNCHANGED <<body, nodes>> /\ Taken' = Taken /\ r \in Id /\ r <= Taken
      /\ blocks' = [blocks EXCEPT ![inner.stmt] = Append(@, p)]
  <2>1. open # <<>> /\ Top(open).kind # "match" /\ inner = Top(open) /\ Below = Front(open)
    BY OpenFacts DEF Close, InBlock, AtTop
  <2>2. r \in Id /\ r <= Taken
    BY <2>1, OpenFacts
  <2> QED
    BY <2>1, <2>2 DEF Close, Taken
<1>2. p \in Place /\ p.count = Top(open).count
  BY <1>1, OpenFacts DEF Place, Construct_
<1>3. /\ \A s \in Id : \A k \in DOMAIN blocks'[s] :
            k \in DOMAIN written[s] /\ blocks'[s][k].count = Len(written[s][k])
      /\ \A s \in Id : s # r => blocks'[s] = blocks[s]
      /\ Len(written[r]) = Len(blocks'[r])
  <2> HIDE DEF p
  <2>1. open # <<>> /\ Top(open).kind # "match" /\ p.count = Top(open).count /\ p \in Place
        /\ blocks' = [blocks EXCEPT ![inner.stmt] = Append(@, p)]
    BY <1>1, <1>2
  <2> QED
    BY <2>1, BlockClosed
<1> HIDE DEF p
<1>4. Stacked(open, Len(nodes)) /\ Len(nodes) \in Nat /\ Ascending(open)
      /\ \A i \in DOMAIN open : open[i].stmt <= Taken /\ open[i].stmt \in Nat
  BY OpenFacts DEF Source
<1>s. InStep(open, blocks, written)
  BY DEF Source
<1>u. ASSUME Top(open).kind # "case" PROVE Uncounted(Front(open), blocks', written)
  <2>1. open # <<>> /\ Stacked(open, Len(nodes)) /\ Ascending(open)
    BY <1>1, <1>4
  <2>2. /\ \A s \in Id : s # Top(open).stmt => blocks'[s] = blocks[s]
        /\ \A s \in Id : \A k \in DOMAIN blocks'[s] :
              k \in DOMAIN written[s] /\ blocks'[s][k].count = Len(written[s][k])
        /\ Len(written[Top(open).stmt]) = Len(blocks'[Top(open).stmt])
    BY <1>3
  <2> QED
    BY <1>s, <1>u, <2>1, <2>2, EndUncounted
<1>5. \A s \in Id : s > Taken => written[s] = <<>> /\ blocks'[s] = <<>>
  <2> TAKE s \in Id
  <2>1. s > Taken => s # r
    BY <1>1, OpenFacts
  <2> QED
    BY <1>3, <2>1 DEF Source
<1>6. /\ Ascending(Front(open))
      /\ \A i \in DOMAIN Front(open) : Front(open)[i].stmt <= Taken
  BY <1>1, <1>4, FrontStmts
<1>7. CASE ~followed_by_else /\ inner.kind = "case"
  <2>1. open' = Front(open) /\ written' = written
    BY <1>1, <1>7 DEF Close
  <2>2. InStep(open', blocks', written')
    BY <1>1, <1>3, <1>7, <2>1, CaseClosed
  <2> QED
    BY <1>1, <1>5, <1>6, <2>1, <2>2 DEF Source
<1>8. CASE ~followed_by_else /\ inner.kind # "case"
  <2>1. open' = Counted(Front(open)) /\ written' = written
    BY <1>1, <1>8 DEF Close
  <2>2. Uncounted(Front(open), blocks', written)
    BY <1>1, <1>8, <1>u
  <2>3. /\ InStep(open', blocks', written) /\ Ascending(open')
        /\ \A i \in DOMAIN open' : open'[i].stmt <= Taken
    BY <1>1, <1>4, <1>8, <2>1, <2>2, AfterEnd
  <2> QED
    BY <1>1, <1>5, <2>1, <2>3 DEF Source
<1>9. CASE followed_by_else
  <2> DEFINE c == [Top(open) EXCEPT !.kind = "else", !.start = Len(nodes), !.count = 0]
  <2>1. open' = Append(Front(open), c) /\ written' = OpensBlock(written, r)
        /\ Top(open).kind = "if" /\ Stacked(open', Len(nodes))
    BY <1>1, <1>9, CloseFits DEF Close, Fits
  <2>2. c \in Construct_ /\ c.kind = "else" /\ c.count = 0 /\ c.stmt = r
    <3>1. Top(open) \in Construct_ /\ Len(nodes) \in 0 .. MaxStmtNodes /\ 0 \in 0 .. MaxStmtNodes
      BY <1>1, OpenFacts, PoolFacts, BlocksAssumption DEF Fits
    <3> QED
      BY <3>1 DEF Construct_, Kinds
  <2> HIDE DEF c
  <2>3. Uncounted(Front(open), blocks', written) /\ r \notin Stmts(Front(open))
    <3>1. Top(open).kind # "case"
      BY <2>1
    <3> QED
      BY <1>1, <1>4, <1>u, <3>1, FrontStmts
  <2>4. PICK k \in Nat : Stacked(Front(open), k)
    BY <1>1, <1>4, FrontIsStacked
  <2>5. InStep(open', blocks', written')
    <3>1. InStep(Append(Front(open), c), blocks', OpensBlock(written, c.stmt))
      BY <1>1, <2>2, <2>3, <2>4, OpenFacts, PushBlockInStep
    <3> QED
      BY <2>1, <2>2, <3>1
  <2>6. /\ DOMAIN open' = DOMAIN Front(open) \cup {Len(Front(open)) + 1}
        /\ open'[Len(Front(open)) + 1] = c /\ Len(Front(open)) \in Nat
        /\ \A i \in DOMAIN Front(open) : open'[i] = Front(open)[i] /\ i <= Len(Front(open)) /\ i \in Nat
    BY <2>1, <2>2, <2>4, AppendFacts
  <2>7. \A i \in DOMAIN open' : open'[i].stmt <= Taken
    BY <1>1, <1>6, <2>2, <2>6
  <2>8. Ascending(open')
    <3>1. \A i \in DOMAIN Front(open) : Front(open)[i].stmt < r
      <4>1. Top(open).kind # "case"
        BY <2>1
      <4> QED
        BY <1>1, <1>4, <4>1, FrontStmts
    <3>2. ASSUME NEW i \in DOMAIN open', NEW j \in DOMAIN open', i < j
          PROVE  \/ open'[i].stmt < open'[j].stmt
                 \/ /\ open'[i].stmt = open'[j].stmt
                    /\ open'[i].kind = "match" /\ open'[j].kind = "case"
      <4>1. i \in DOMAIN Front(open)
        BY <2>6, <3>2
      <4>2. CASE j \in DOMAIN Front(open)
        BY <1>6, <2>6, <3>2, <4>1, <4>2 DEF Ascending
      <4>3. CASE j = Len(Front(open)) + 1
        BY <2>2, <2>6, <3>1, <4>1, <4>3
      <4> QED
        BY <2>6, <4>2, <4>3
    <3> QED
      BY <3>2 DEF Ascending
  <2>9. written' \in [Id -> Seq(Seq(Id))]
    <3>1. written' = [written EXCEPT ![r] = Append(written[r], <<>>)]
      BY <2>1 DEF OpensBlock
    <3>2. written[r] \in Seq(Seq(Id)) /\ <<>> \in Seq(Id) /\ written \in [Id -> Seq(Seq(Id))]
      BY <1>1, OpenFacts
    <3>3. Append(written[r], <<>>) \in Seq(Seq(Id))
      BY <3>2
    <3> QED
      BY <3>1, <3>2, <3>3
  <2>10. \A s \in Id : s > Taken => written'[s] = <<>>
    <3> TAKE s \in Id
    <3>1. s > Taken => s # r
      BY <1>1, OpenFacts
    <3> QED
      BY <1>5, <2>1, <3>1 DEF OpensBlock
  <2> QED
    BY <1>1, <1>5, <2>5, <2>7, <2>8, <2>9, <2>10 DEF Source
<1> QED
  BY <1>7, <1>8, <1>9

LEMMA StepSource == Fits /\ Source /\ [Next]_vars => Source'
<1> SUFFICES ASSUME Fits, Source, [Next]_vars PROVE Source'
  OBVIOUS
<1>1. CASE UNCHANGED <<body, nodes, blocks, open, written>>
  BY <1>1 DEF Source, Taken
<1> QED
  BY <1>1, SimpleSource, BeginSource, CloseSource, CaseSource, EndMatchSource
     DEF Next, NoNode, TooManyCases, EndFunction, Reject, vars
-----------------------------------------------------------------------------
(* What is in a block.                                                     *)

\* Statement s has statements nested in it; the first k of q have none.
Nests(w, s) == \E b \in DOMAIN w[s] : w[s][b] # <<>>
Flat(w, q, k) == \A j \in 1 .. k : ~Nests(w, q[j])

\* The statements q of a block that starts at p: the k-th is in its k-th node
\* exactly if none before it has nested ones.
Laid(n, w, p, q) ==
    \A k \in 1 .. Len(q) :
        p + k <= Len(n) /\ (n[p + k] = q[k] <=> Flat(w, q, k - 1))

\* A block that is still open: the next node follows its last statement, or
\* is further on.
Grown(n, w, p, q) ==
    IF Flat(w, q, Len(q)) THEN Len(n) = p + Len(q) ELSE Len(n) > p + Len(q)

\* The block being written in an open construct.
Current(w, c) == w[c.stmt][Len(w[c.stmt])]

\* Nested statements come after the one they are nested in; only the last of a
\* block may be open.
Later(w, t) ==
    \A s \in Id : \A b \in DOMAIN w[s] : \A k \in DOMAIN w[s][b] :
        s < w[s][b][k] /\ w[s][b][k] <= t
Over(S, w) ==
    \A s \in Id : \A b \in DOMAIN w[s] : \A k \in 1 .. Len(w[s][b]) - 1 : w[s][b][k] \notin S

ClosedLaid(n, b, w) == \A s \in Id : \A k \in DOMAIN b[s] : Laid(n, w, b[s][k].start, w[s][k])
OpenLaid(n, o, w) ==
    \A i \in DOMAIN o : o[i].kind # "match" =>
        /\ Laid(n, w, o[i].start, Current(w, o[i]))
        /\ Grown(n, w, o[i].start, Current(w, o[i]))

\* An open statement is the last that was written in the block it is in.
Chained(o, w) ==
    \A i \in DOMAIN o : i + 1 \in DOMAIN o /\ o[i].kind # "match" =>
        Current(w, o[i])[Len(Current(w, o[i]))] = o[i + 1].stmt

PlacedIn(t, n, o, b, w) ==
    /\ Later(w, t) /\ Over(Stmts(o), w)
    /\ ClosedLaid(n, b, w) /\ OpenLaid(n, o, w) /\ Chained(o, w)
Placed == PlacedIn(Taken, nodes, open, blocks, written)

\* A block stays as it is when the pool grows and its statements before the
\* last get no nested ones.
LEMMA LaidSame ==
    ASSUME NEW n, NEW m, NEW v, NEW w, NEW p \in Nat, NEW q \in Seq(Id),
           Len(n) \in Nat, Len(m) \in Nat, Len(n) <= Len(m),
           \A i \in 1 .. Len(n) : m[i] = n[i],
           \A j \in 1 .. Len(q) - 1 : Nests(v, q[j]) <=> Nests(w, q[j]),
           Laid(n, w, p, q)
    PROVE  Laid(m, v, p, q)
<1> SUFFICES ASSUME NEW k \in 1 .. Len(q)
             PROVE  p + k <= Len(m) /\ (m[p + k] = q[k] <=> Flat(v, q, k - 1))
  BY DEF Laid
<1>0. Len(q) \in Nat /\ k \in Nat /\ k >= 1
  OBVIOUS
<1>1. p + k <= Len(n) /\ (n[p + k] = q[k] <=> Flat(w, q, k - 1))
  BY DEF Laid
<1>2. p + k \in 1 .. Len(n)
  BY <1>0, <1>1
<1>3. 1 .. k - 1 \subseteq 1 .. Len(q) - 1
  BY <1>0
<1>4. Flat(v, q, k - 1) <=> Flat(w, q, k - 1)
  BY <1>3 DEF Flat
<1> QED
  BY <1>0, <1>1, <1>2, <1>4

\* A statement is added to the innermost block: it gets the next node.
LEMMA LaidAppend ==
    ASSUME NEW n \in Seq(Id), NEW t \in Id, NEW v, NEW w, NEW p \in Nat, NEW q \in Seq(Id),
           \A i \in 1 .. Len(n) : n[i] < t,
           \A j \in 1 .. Len(q) : Nests(v, q[j]) <=> Nests(w, q[j]),
           ~Nests(v, t), Laid(n, w, p, q), Grown(n, w, p, q)
    PROVE  Laid(Append(n, t), v, p, Append(q, t)) /\ Grown(Append(n, t), v, p, Append(q, t))
<1> DEFINE m == Append(n, t)
           r == Append(q, t)
<1>0. PICK N \in Nat, L \in Nat : N = Len(n) /\ L = Len(q)
  OBVIOUS
<1>1. /\ Len(m) = N + 1 /\ m[N + 1] = t /\ \A i \in 1 .. N : m[i] = n[i]
      /\ Len(r) = L + 1 /\ r[L + 1] = t /\ \A j \in 1 .. L : r[j] = q[j]
  BY <1>0
<1>t. t \in Nat
  BY BlocksAssumption DEF Id
<1> HIDE DEF m, r
<1>2. \A k \in 0 .. L : Flat(v, r, k) <=> Flat(w, q, k)
  <2> TAKE k \in 0 .. L
  <2>1. \A j \in 1 .. k : j \in 1 .. L
    OBVIOUS
  <2> QED
    BY <1>0, <1>1, <2>1 DEF Flat
<1>3. Flat(v, r, L + 1) <=> Flat(w, q, L)
  <2>1. 1 .. L + 1 = (1 .. L) \cup {L + 1} /\ L \in 0 .. L
    OBVIOUS
  <2>2. Flat(v, r, L + 1) <=> Flat(v, r, L)
    BY <1>1, <2>1 DEF Flat
  <2> QED
    BY <1>2, <2>1, <2>2
<1>4. Grown(m, v, p, r)
  <2>1. IF Flat(w, q, L) THEN N = p + L ELSE N > p + L
    BY <1>0 DEF Grown
  <2>2. IF Flat(v, r, L + 1) THEN N + 1 = p + (L + 1) ELSE N + 1 > p + (L + 1)
    BY <1>3, <2>1
  <2> QED
    BY <1>1, <2>2 DEF Grown
<1>5. ASSUME NEW k \in 1 .. L + 1
      PROVE  p + k <= N + 1 /\ (m[p + k] = r[k] <=> Flat(v, r, k - 1))
  <2>1. CASE k \in 1 .. L
    <3>1. p + k <= N /\ (n[p + k] = q[k] <=> Flat(w, q, k - 1))
      BY <1>0, <2>1 DEF Laid
    <3>2. p + k \in 1 .. N /\ k - 1 \in 0 .. L
      BY <2>1, <3>1
    <3> QED
      BY <1>1, <1>2, <2>1, <3>1, <3>2
  <2>2. CASE k = L + 1
    <3>1. L \in 0 .. L /\ k - 1 = L /\ r[k] = t
      BY <1>1, <2>2
    <3>2. CASE Flat(w, q, L)
      <4>1. p + k = N + 1
        BY <1>0, <2>2, <3>2 DEF Grown
      <4> QED
        BY <1>1, <1>2, <3>1, <3>2, <4>1
    <3>3. CASE ~Flat(w, q, L)
      <4>1. p + k \in 1 .. N
        BY <1>0, <2>2, <3>3 DEF Grown
      <4>2. m[p + k] = n[p + k] /\ n[p + k] \in Id /\ n[p + k] < t
        BY <1>0, <1>1, <4>1
      <4>3. m[p + k] # t
        BY <1>t, <4>2, BlocksAssumption DEF Id
      <4> QED
        BY <1>1, <1>2, <3>1, <3>3, <4>1, <4>3
    <3> QED
      BY <3>2, <3>3
  <2> QED
    BY <2>1, <2>2
<1>6. Laid(m, v, p, r)
  BY <1>1, <1>5 DEF Laid
<1> QED
  BY <1>4, <1>6 DEF m, r

\* A node is taken for a statement nested in the last of an open block.
LEMMA GrownNested ==
    ASSUME NEW n, NEW m, NEW v, NEW w, NEW p \in Nat, NEW q \in Seq(Id), q # <<>>,
           Len(n) \in Nat, Len(m) = Len(n) + 1, Nests(v, q[Len(q)]), Grown(n, w, p, q)
    PROVE  Grown(m, v, p, q)
<1>1. Len(q) \in Nat /\ Len(q) \in 1 .. Len(q)
  OBVIOUS
<1>2. ~Flat(v, q, Len(q))
  BY <1>1 DEF Flat
<1>3. Len(n) >= p + Len(q)
  BY <1>1 DEF Grown
<1> QED
  BY <1>1, <1>2, <1>3 DEF Grown

\* A statement nested in an open one.
LEMMA NestsAfter ==
    ASSUME Fits, Source, ~AtTop, InBlock, NEW t \in Id, t > Taken
    PROVE  /\ ~Nests(Writes(t), t)
           /\ \A s \in Id : s # inner.stmt => (Nests(Writes(t), s) <=> Nests(written, s))
           /\ \A i \in DOMAIN open : Nests(Writes(t), open[i].stmt)
<1> DEFINE v == Writes(t)
           r == inner.stmt
<1>1. /\ r \in Id /\ r <= Taken /\ Top(open).kind # "match"
      /\ \A s \in Id : s # r => v[s] = written[s]
  BY WriteFacts DEF Writing, Wrote
<1>2. /\ v \in [Id -> Seq(Seq(Id))] /\ Uncounted(open, blocks, v)
      /\ v[t] = <<>>
  BY WriteUncounted
<1>3. ~Nests(v, t)
  BY <1>2 DEF Nests
<1>4. \A s \in Id : s # r => (Nests(v, s) <=> Nests(written, s))
  BY <1>1 DEF Nests
<1> HIDE DEF v
<1>5. ASSUME NEW i \in DOMAIN open, open[i].kind # "match" PROVE Nests(v, open[i].stmt)
  <2>1. /\ open[i].stmt \in Id /\ open[i].count \in Nat /\ Len(blocks[open[i].stmt]) \in Nat
    BY OpenFacts, StackFacts
  <2>2. PICK b \in Nat : b = Len(blocks[open[i].stmt]) + 1
    BY <2>1
  <2>3. Len(v[open[i].stmt]) = b /\ Len(v[open[i].stmt][b]) = open[i].count + 1 /\ b > 0
    BY <1>2, <1>5, <2>1, <2>2 DEF Uncounted
  <2>4. v[open[i].stmt] \in Seq(Seq(Id))
    BY <1>2, <2>1
  <2>5. b \in DOMAIN v[open[i].stmt]
    BY <2>3, <2>4
  <2>6. v[open[i].stmt][b] # <<>>
    BY <2>1, <2>3
  <2> QED
    BY <2>5, <2>6 DEF Nests
<1>6. ASSUME NEW i \in DOMAIN open, open[i].kind = "match" PROVE Nests(v, open[i].stmt)
  <2>1. open # <<>> /\ Len(open) \in Nat /\ DOMAIN open = 1 .. Len(open)
    BY OpenFacts, StackFacts
  <2>2. i # Len(open)
    BY <1>1, <1>6 DEF Top
  <2>3. i + 1 \in DOMAIN open
    BY <2>1, <2>2
  <2>4. open[i + 1].kind = "case" /\ open[i].stmt = open[i + 1].stmt
    BY <1>6, <2>3, OpenFacts DEF Stacked
  <2> QED
    BY <1>5, <2>3, <2>4
<1> QED
  BY <1>3, <1>4, <1>5, <1>6 DEF v

\* The statements of a block.
LEMMA Members ==
    ASSUME Fits, Source, Placed, NEW s \in Id, NEW b \in DOMAIN written[s]
    PROVE  /\ written[s][b] \in Seq(Id) /\ Len(written[s][b]) \in Nat
           /\ \A k \in 1 .. Len(written[s][b]) :
                 /\ written[s][b][k] \in Id /\ written[s][b][k] \in Nat
                 /\ s < written[s][b][k] /\ written[s][b][k] <= Taken
           /\ \A k \in 1 .. Len(written[s][b]) - 1 : written[s][b][k] \notin Stmts(open)
<1>1. written[s] \in Seq(Seq(Id))
  BY OpenFacts
<1>2. written[s][b] \in Seq(Id)
  BY <1>1, SeqElement
<1>3. Len(written[s][b]) \in Nat /\ DOMAIN written[s][b] = 1 .. Len(written[s][b])
      /\ \A k \in 1 .. Len(written[s][b]) : written[s][b][k] \in Id
  BY <1>2
<1> QED
  BY <1>2, <1>3, OpenFacts DEF Placed, PlacedIn, Later, Over

\* The block of an open construct.
LEMMA CurrentFacts ==
    ASSUME Fits, Source, Placed, NEW i \in DOMAIN open, open[i].kind # "match"
    PROVE  /\ open[i].stmt \in Id /\ open[i].start \in Nat
           /\ Len(written[open[i].stmt]) \in DOMAIN written[open[i].stmt]
           /\ Current(written, open[i]) \in Seq(Id)
           /\ Len(Current(written, open[i])) = Begun(open, i)
           /\ \A k \in 1 .. Len(Current(written, open[i])) :
                 /\ Current(written, open[i])[k] \in Id
                 /\ open[i].stmt < Current(written, open[i])[k]
                 /\ Current(written, open[i])[k] <= Taken
           /\ \A k \in 1 .. Len(Current(written, open[i])) - 1 :
                 Current(written, open[i])[k] \notin Stmts(open)
<1>1. open[i].stmt \in Id /\ open[i].start \in Nat
  BY OpenFacts, StackFacts
<1>2. /\ Len(written[open[i].stmt]) = Len(blocks[open[i].stmt]) + 1
      /\ Len(written[open[i].stmt][Len(blocks[open[i].stmt]) + 1]) = Begun(open, i)
  BY DEF Source, InStep
<1>3. written[open[i].stmt] \in Seq(Seq(Id)) /\ Len(blocks[open[i].stmt]) \in Nat
  BY <1>1, OpenFacts
<1>4. Len(written[open[i].stmt]) \in DOMAIN written[open[i].stmt]
  BY <1>2, <1>3
<1> QED
  BY <1>1, <1>2, <1>4, Members DEF Current

\* One more statement in the innermost block: the pool and the closed blocks.
LEMMA WriteClosed ==
    ASSUME Fits, Numbered, Source, Placed, ~AtTop, InBlock, NEW t \in Id, t = Taken + 1,
           nodes' = Append(nodes, t)
    PROVE  ClosedLaid(nodes', blocks, Writes(t))
<1> DEFINE v == Writes(t)
           r == inner.stmt
           L == Len(written[r])
<1>1. Writing(r, L) /\ Wrote(v, r, L, t)
  BY WriteFacts
<1>2. t > Taken /\ Taken \in Nat
  BY OpenFacts
<1>3. \A s \in Id : s # r => (Nests(v, s) <=> Nests(written, s))
  BY <1>2, NestsAfter
<1>4. Len(nodes) \in Nat /\ Len(nodes') \in Nat /\ Len(nodes) <= Len(nodes')
      /\ \A i \in 1 .. Len(nodes) : nodes'[i] = nodes[i]
  <2>1. nodes \in Seq(Id)
    BY DEF Fits, TypeOK
  <2> QED
    BY <2>1
<1> HIDE DEF v, r, L
<1> SUFFICES ASSUME NEW s \in Id, NEW k \in DOMAIN blocks[s]
             PROVE  Laid(nodes', v, blocks[s][k].start, v[s][k])
  BY DEF ClosedLaid, v
<1>5. k \in DOMAIN written[s] /\ v[s][k] = written[s][k]
  <2>1. k \in DOMAIN written[s]
    BY DEF Source, InStep
  <2> QED
    BY <1>1, <2>1 DEF Writing, Wrote
<1>6. blocks[s][k].start \in Nat
  <2>1. blocks[s] \in Seq(Place)
    BY OpenFacts
  <2>2. blocks[s][k] \in Place
    BY <2>1
  <2> QED
    BY <2>2, BlocksAssumption DEF Place
<1>7. \A j \in 1 .. Len(written[s][k]) - 1 : Nests(v, written[s][k][j]) <=> Nests(written, written[s][k][j])
  <2> TAKE j \in 1 .. Len(written[s][k]) - 1
  <2>1. j \in 1 .. Len(written[s][k]) /\ written[s][k][j] \notin Stmts(open)
    BY <1>5, Members
  <2>2. written[s][k][j] \in Id
    BY <1>5, <2>1, Members
  <2> QED
    BY <1>1, <1>3, <2>1, <2>2 DEF Writing
<1>8. Laid(nodes, written, blocks[s][k].start, written[s][k])
  BY DEF Placed, PlacedIn, ClosedLaid
<1>9. written[s][k] \in Seq(Id)
  BY <1>5, Members
<1>10. Laid(nodes', v, blocks[s][k].start, written[s][k])
  BY <1>4, <1>6, <1>7, <1>8, <1>9, LaidSame
<1> QED
  BY <1>5, <1>10

\* And the open ones.
LEMMA WriteOpen ==
    ASSUME Fits, Numbered, Source, Placed, ~AtTop, InBlock, NEW t \in Id, t = Taken + 1,
           nodes' = Append(nodes, t)
    PROVE  /\ OpenLaid(nodes', open, Writes(t))
           /\ Chained(open, Writes(t))
           /\ Current(Writes(t), Top(open)) = Append(Current(written, Top(open)), t)
<1> DEFINE v == Writes(t)
           r == inner.stmt
           L == Len(written[r])
<1>1. Writing(r, L) /\ Wrote(v, r, L, t)
  BY WriteFacts
<1>2. t > Taken /\ Taken \in Nat
  BY OpenFacts
<1>3. /\ ~Nests(v, t)
      /\ \A s \in Id : s # r => (Nests(v, s) <=> Nests(written, s))
      /\ \A i \in DOMAIN open : Nests(v, open[i].stmt)
  BY <1>2, NestsAfter
<1>4. nodes \in Seq(Id) /\ Len(nodes) \in Nat /\ Len(nodes') = Len(nodes) + 1 /\ Len(nodes') \in Nat
      /\ Len(nodes) <= Len(nodes') /\ \A i \in 1 .. Len(nodes) : nodes'[i] = nodes[i]
  <2>1. nodes \in Seq(Id)
    BY DEF Fits, TypeOK
  <2> QED
    BY <2>1
<1>5. \A i \in 1 .. Len(nodes) : nodes[i] < t
  <2> TAKE i \in 1 .. Len(nodes)
  <2>1. nodes[i] \in 1 .. Taken
    BY <1>4 DEF Numbered
  <2> QED
    BY <1>2, <2>1
<1> HIDE DEF v, r, L
<1>n. Len(open) \in Nat /\ DOMAIN open = 1 .. Len(open) /\ Len(open) \in DOMAIN open
  <2>1. open # <<>>
    BY DEF AtTop
  <2> QED
    BY <2>1, OpenFacts, StackFacts
<1>6. Current(v, Top(open)) = Append(Current(written, Top(open)), t)
  BY <1>1 DEF Writing, Wrote, Current
<1>7. ASSUME NEW i \in DOMAIN open, i # Len(open), open[i].kind # "match"
      PROVE  /\ Current(v, open[i]) = Current(written, open[i])
             /\ Current(written, open[i]) # <<>>
             /\ Current(written, open[i])[Len(Current(written, open[i]))] = open[i + 1].stmt
             /\ i + 1 \in DOMAIN open
  <2>1. i < Len(open) /\ i + 1 \in DOMAIN open
    BY <1>7, <1>n
  <2>2. open[i].stmt < r /\ open[i].stmt \in Nat /\ open[i].stmt \in Id
    BY <1>1, <1>7, <2>1, OpenFacts DEF Writing
  <2>3. Current(v, open[i]) = Current(written, open[i])
    <3>1. r \in Nat
      BY <1>1, OpenFacts DEF Writing
    <3>2. open[i].stmt # r
      BY <2>2, <3>1
    <3> QED
      BY <1>1, <2>2, <3>2 DEF Wrote, Current
  <2>4. Len(Current(written, open[i])) = open[i].count + 1 /\ open[i].count \in Nat
    BY <1>7, CurrentFacts, OpenFacts, StackFacts DEF Begun
  <2>5. Current(written, open[i]) # <<>>
    BY <2>4
  <2> QED
    BY <1>7, <2>1, <2>3, <2>5 DEF Placed, PlacedIn, Chained
<1>8. ASSUME NEW i \in DOMAIN open, open[i].kind # "match"
      PROVE  /\ Laid(nodes', v, open[i].start, Current(v, open[i]))
             /\ Grown(nodes', v, open[i].start, Current(v, open[i]))
  <2> DEFINE q == Current(written, open[i])
             p == open[i].start
  <2>1. /\ p \in Nat /\ q \in Seq(Id) /\ open[i].stmt \in Id
        /\ \A j \in 1 .. Len(q) : q[j] \in Id /\ open[i].stmt < q[j]
        /\ \A j \in 1 .. Len(q) - 1 : q[j] \notin Stmts(open)
    BY <1>8, CurrentFacts
  <2>2. Laid(nodes, written, p, q) /\ Grown(nodes, written, p, q)
    BY <1>8 DEF Placed, PlacedIn, OpenLaid
  <2>t. open[i].stmt \in Nat /\ r \in Nat /\ r \in Stmts(open)
    BY <1>1, OpenFacts DEF Writing
  <2> HIDE DEF q, p
  <2>3. CASE i = Len(open)
    <3>1. open[i].stmt = r /\ Current(v, open[i]) = Append(q, t)
      BY <1>1, <1>6, <2>3 DEF Writing, q
    <3>2. \A j \in 1 .. Len(q) : Nests(v, q[j]) <=> Nests(written, q[j])
      <4> TAKE j \in 1 .. Len(q)
      <4>1. q[j] \in Id /\ r < q[j] /\ q[j] \in Nat
        BY <2>1, <3>1, OpenFacts
      <4>2. q[j] # r
        BY <2>t, <4>1
      <4> QED
        BY <1>3, <4>1, <4>2
    <3>3. Laid(Append(nodes, t), v, p, Append(q, t)) /\ Grown(Append(nodes, t), v, p, Append(q, t))
      BY <1>3, <1>4, <1>5, <2>1, <2>2, <3>2, LaidAppend
    <3> QED
      BY <3>1, <3>3 DEF p
  <2>4. CASE i # Len(open)
    <3>1. /\ Current(v, open[i]) = q /\ q # <<>>
          /\ q[Len(q)] = open[i + 1].stmt /\ i + 1 \in DOMAIN open
      BY <1>7, <1>8, <2>4 DEF q
    <3>2. \A j \in 1 .. Len(q) - 1 : Nests(v, q[j]) <=> Nests(written, q[j])
      <4> TAKE j \in 1 .. Len(q) - 1
      <4>1. j \in 1 .. Len(q)
        BY <2>1
      <4> QED
        BY <1>3, <2>1, <2>t, <4>1
    <3>3. Laid(nodes', v, p, q)
      BY <1>4, <2>1, <2>2, <3>2, LaidSame
    <3>4. Nests(v, q[Len(q)])
      BY <1>3, <3>1
    <3>5. Grown(nodes', v, p, q)
      BY <1>4, <2>1, <2>2, <3>1, <3>4, GrownNested
    <3> QED
      BY <3>1, <3>3, <3>5 DEF p
  <2> QED
    BY <2>3, <2>4
<1>9. OpenLaid(nodes', open, v)
  BY <1>8 DEF OpenLaid
<1>10. Chained(open, v)
  <2> SUFFICES ASSUME NEW i \in DOMAIN open, i + 1 \in DOMAIN open, open[i].kind # "match"
               PROVE  Current(v, open[i])[Len(Current(v, open[i]))] = open[i + 1].stmt
    BY DEF Chained
  <2>1. i # Len(open)
    BY <1>n
  <2> QED
    BY <1>7, <2>1
<1> QED
  BY <1>6, <1>9, <1>10 DEF v

LEMMA WriteMembers ==
    ASSUME Fits, Numbered, Source, Placed, ~AtTop, InBlock, NEW t \in Id, t = Taken + 1
    PROVE  Later(Writes(t), t) /\ Over(Stmts(open) \cup {t}, Writes(t))
<1> DEFINE v == Writes(t)
           r == inner.stmt
           L == Len(written[r])
           q == written[r][L]
<1>1. Writing(r, L) /\ Wrote(v, r, L, t)
  BY WriteFacts
<1>2. t > Taken /\ Taken \in Nat /\ t \in Nat
  BY OpenFacts
<1> HIDE DEF v, r, L
<1>3. q \in Seq(Id) /\ v[r][L] = Append(q, t) /\ r \in Nat /\ r <= Taken /\ r \in Id
      /\ L \in DOMAIN written[r]
  BY <1>1, OpenFacts DEF Writing, Wrote
<1>4. \A k \in 1 .. Len(q) : q[k] \in Nat /\ r < q[k] /\ q[k] <= Taken
  BY <1>3, Members
<1> HIDE DEF q
<1>5. PICK M \in Nat : M = Len(q)
  BY <1>3
<1>6. /\ Len(v[r][L]) = M + 1 /\ DOMAIN v[r][L] = 1 .. M + 1 /\ v[r][L][M + 1] = t
      /\ \A k \in 1 .. M : v[r][L][k] = q[k]
  BY <1>3, <1>5
<1>7. ASSUME NEW s \in Id, NEW b \in DOMAIN v[s], s # r \/ b # L
      PROVE  b \in DOMAIN written[s] /\ v[s][b] = written[s][b]
  BY <1>1, <1>7 DEF Writing, Wrote
<1>8. ASSUME NEW s \in Id, NEW b \in DOMAIN v[s], NEW k \in DOMAIN v[s][b]
      PROVE  s < v[s][b][k] /\ v[s][b][k] <= t
  <2>1. CASE s = r /\ b = L
    <3>1. k \in 1 .. M \/ k = M + 1
      BY <1>6, <2>1
    <3> QED
      BY <1>2, <1>3, <1>4, <1>5, <1>6, <2>1, <3>1
  <2>2. CASE s # r \/ b # L
    <3>1. b \in DOMAIN written[s] /\ v[s][b] = written[s][b]
      BY <1>7, <2>2
    <3>2. k \in 1 .. Len(written[s][b])
      BY <3>1, Members
    <3>3. written[s][b][k] \in Nat /\ s < written[s][b][k] /\ written[s][b][k] <= Taken
      BY <3>1, <3>2, Members
    <3> QED
      BY <1>2, <3>1, <3>3
  <2> QED
    BY <2>1, <2>2
<1>9. ASSUME NEW s \in Id, NEW b \in DOMAIN v[s], NEW k \in 1 .. Len(v[s][b]) - 1
      PROVE  v[s][b][k] \notin Stmts(open) \cup {t}
  <2>1. CASE s = r /\ b = L
    <3>1. k \in 1 .. M
      BY <1>5, <1>6, <2>1
    <3>2. v[s][b][k] = q[k] /\ q[k] \in Nat /\ r < q[k] /\ q[k] <= Taken
      BY <1>4, <1>5, <1>6, <2>1, <3>1
    <3>3. q[k] \notin Stmts(open)
      <4> SUFFICES ASSUME NEW i \in DOMAIN open PROVE open[i].stmt # q[k]
        BY DEF Stmts
      <4>1. open[i].stmt <= r /\ open[i].stmt \in Nat
        BY <1>1, OpenFacts DEF Writing
      <4> QED
        BY <1>3, <3>2, <4>1
    <3> QED
      BY <1>2, <3>2, <3>3
  <2>2. CASE s # r \/ b # L
    <3>1. b \in DOMAIN written[s] /\ v[s][b] = written[s][b]
      BY <1>7, <2>2
    <3>2. k \in 1 .. Len(written[s][b]) /\ written[s][b][k] \notin Stmts(open)
      BY <3>1, Members
    <3>3. written[s][b][k] \in Nat /\ written[s][b][k] <= Taken
      BY <3>1, <3>2, Members
    <3> QED
      BY <1>2, <3>1, <3>2, <3>3
  <2> QED
    BY <2>1, <2>2
<1>10. Later(v, t)
  BY <1>8 DEF Later
<1>11. Over(Stmts(open) \cup {t}, v)
  BY <1>9 DEF Over
<1> QED
  BY <1>10, <1>11 DEF v

\* All of it, for a statement at the top of the body too.
Added(t, n, v) ==
    /\ Later(v, t) /\ Over(Stmts(open) \cup {t}, v)
    /\ ClosedLaid(n, blocks, v) /\ OpenLaid(n, open, v) /\ Chained(open, v)
    /\ open # <<>> => Current(v, Top(open))[Len(Current(v, Top(open)))] = t

LEMMA TakePlaced ==
    ASSUME Fits, Numbered, Source, Placed, AtTop \/ InBlock, CanTake, Take,
           NEW t \in Id, t = Taken + 1
    PROVE  Added(t, nodes', Writes(t))
<1>1. CASE AtTop
  <2>1. /\ Writes(t) = written /\ nodes' = nodes /\ open = <<>> /\ Stmts(open) = {}
    BY <1>1 DEF AtTop, Writes, Take, Stmts
  <2>2. ASSUME NEW s \in Id, NEW b \in DOMAIN written[s], NEW k \in DOMAIN written[s][b]
        PROVE  s < written[s][b][k] /\ written[s][b][k] <= t /\ written[s][b][k] # t
    <3>1. k \in 1 .. Len(written[s][b])
      BY Members
    <3>2. s < written[s][b][k] /\ written[s][b][k] \in Nat /\ written[s][b][k] <= Taken
      BY <3>1, Members
    <3>3. \A x, y \in Nat : x <= y => x <= y + 1 /\ x # y + 1
      OBVIOUS
    <3> QED
      BY <3>2, <3>3, OpenFacts
  <2>3. Later(written, t)
    BY <2>2 DEF Later
  <2>4. Over(Stmts(open) \cup {t}, written)
    <3> SUFFICES ASSUME NEW s \in Id, NEW b \in DOMAIN written[s],
                        NEW k \in 1 .. Len(written[s][b]) - 1
                 PROVE  written[s][b][k] # t
      BY <2>1 DEF Over
    <3>1. written[s][b] \in Seq(Id)
      BY Members
    <3>2. k \in DOMAIN written[s][b]
      BY <3>1
    <3> QED
      BY <2>2, <3>2
  <2> QED
    BY <2>1, <2>3, <2>4 DEF Added, Placed, PlacedIn
<1>2. CASE ~AtTop
  <2>1. nodes' = Append(nodes, t) /\ InBlock
    BY <1>2 DEF Take
  <2>2. ClosedLaid(nodes', blocks, Writes(t))
    BY <1>2, <2>1, WriteClosed
  <2>3. /\ OpenLaid(nodes', open, Writes(t)) /\ Chained(open, Writes(t))
        /\ Current(Writes(t), Top(open)) = Append(Current(written, Top(open)), t)
    BY <1>2, <2>1, WriteOpen
  <2>4. Later(Writes(t), t) /\ Over(Stmts(open) \cup {t}, Writes(t))
    BY <1>2, <2>1, WriteMembers
  <2>5. Current(written, Top(open)) \in Seq(Id)
    <3>1. Writing(inner.stmt, Len(written[inner.stmt]))
      BY <1>2, <2>1, WriteFacts
    <3> QED
      BY <3>1 DEF Writing, Current
  <2>6. Current(Writes(t), Top(open))[Len(Current(Writes(t), Top(open)))] = t
    BY <2>3, <2>5
  <2> QED
    BY <2>2, <2>3, <2>4, <2>6 DEF Added
<1> QED
  BY <1>1, <1>2

\* The operations on the stack.
LEMMA CountPlaced ==
    ASSUME NEW o, NEW k, Stacked(o, k), NEW t, NEW n, NEW b, NEW w, PlacedIn(t, n, o, b, w)
    PROVE  PlacedIn(t, n, Counted(o), b, w)
<1>1. CASE o = <<>>
  BY <1>1 DEF Counted
<1>2. CASE o # <<>>
  <2> DEFINE p == Counted(o)
  <2>1. /\ DOMAIN p = DOMAIN o /\ Stmts(p) = Stmts(o)
        /\ \A i \in DOMAIN o :
              p[i].stmt = o[i].stmt /\ p[i].kind = o[i].kind /\ p[i].start = o[i].start
    BY <1>2, CountedFacts
  <2> HIDE DEF p
  <2>2. \A i \in DOMAIN o : Current(w, p[i]) = Current(w, o[i])
    BY <2>1 DEF Current
  <2>3. OpenLaid(n, p, w)
    BY <2>1, <2>2 DEF PlacedIn, OpenLaid
  <2>4. Chained(p, w)
    BY <2>1, <2>2 DEF PlacedIn, Chained
  <2> QED
    BY <2>1, <2>3, <2>4 DEF PlacedIn, p
<1> QED
  BY <1>1, <1>2

LEMMA FrontPlaced ==
    ASSUME NEW o, NEW k, Stacked(o, k), o # <<>>, Ascending(o),
           NEW t, NEW n, NEW b, NEW w, PlacedIn(t, n, o, b, w)
    PROVE  PlacedIn(t, n, Front(o), b, w)
<1> DEFINE p == Front(o)
<1>1. /\ Stmts(p) \subseteq Stmts(o)
      /\ \A i \in DOMAIN p : i \in DOMAIN o /\ p[i] = o[i]
  BY FrontStmts
<1> HIDE DEF p
<1>2. OpenLaid(n, p, w)
  BY <1>1 DEF PlacedIn, OpenLaid
<1>3. Chained(p, w)
  BY <1>1 DEF PlacedIn, Chained
<1>4. Over(Stmts(p), w)
  BY <1>1 DEF PlacedIn, Over
<1> QED
  BY <1>2, <1>3, <1>4 DEF PlacedIn, p

\* A construct is pushed whose block, if it has one, is empty and starts where
\* the pool ends.
LEMMA PushPlaced ==
    ASSUME NEW o, NEW k, Stacked(o, k), NEW c \in Construct_,
           NEW t, NEW n, Len(n) \in Nat, NEW b, NEW w,
           Later(w, t), Over(Stmts(o) \cup {c.stmt}, w), ClosedLaid(n, b, w),
           OpenLaid(n, o, w), Chained(o, w),
           o # <<>> /\ Top(o).kind # "match" =>
               Current(w, Top(o))[Len(Current(w, Top(o)))] = c.stmt,
           c.kind # "match" => Current(w, c) = <<>> /\ c.start = Len(n)
    PROVE  PlacedIn(t, n, Append(o, c), b, w)
<1> DEFINE p == Append(o, c)
<1>1. /\ DOMAIN p = DOMAIN o \cup {Len(o) + 1} /\ p[Len(o) + 1] = c
      /\ \A i \in DOMAIN o : p[i] = o[i] /\ i <= Len(o) /\ i \in Nat
      /\ Stmts(p) = Stmts(o) \cup {c.stmt} /\ Len(o) \in Nat /\ DOMAIN o = 1 .. Len(o)
  BY AppendFacts, StackFacts
<1> HIDE DEF p
<1>2. ASSUME c.kind # "match"
      PROVE  Laid(n, w, c.start, Current(w, c)) /\ Grown(n, w, c.start, Current(w, c))
  <2>1. Len(Current(w, c)) = 0 /\ c.start = Len(n)
    BY <1>2
  <2>2. 1 .. 0 = {}
    OBVIOUS
  <2>3. Flat(w, Current(w, c), Len(Current(w, c)))
    BY <2>1, <2>2 DEF Flat
  <2> QED
    BY <2>1, <2>2, <2>3 DEF Laid, Grown
<1>3. OpenLaid(n, p, w)
  BY <1>1, <1>2 DEF OpenLaid
<1>4. Chained(p, w)
  <2> SUFFICES ASSUME NEW i \in DOMAIN p, i + 1 \in DOMAIN p, p[i].kind # "match"
               PROVE  Current(w, p[i])[Len(Current(w, p[i]))] = p[i + 1].stmt
    BY DEF Chained
  <2>1. i \in DOMAIN o
    BY <1>1
  <2>2. CASE i = Len(o)
    <3>1. p[i] = Top(o) /\ p[i + 1] = c
      BY <1>1, <2>1, <2>2 DEF Top
    <3>2. o # <<>>
      <4>1. Len(o) # 0
        BY <1>1, <2>1
      <4> QED
        BY <4>1
    <3> QED
      BY <3>1, <3>2
  <2>3. CASE i # Len(o)
    <3>1. i + 1 \in DOMAIN o /\ p[i] = o[i] /\ p[i + 1] = o[i + 1]
      BY <1>1, <2>1, <2>3
    <3> QED
      BY <2>1, <3>1 DEF Chained
  <2> QED
    BY <2>2, <2>3
<1> QED
  BY <1>1, <1>3, <1>4 DEF PlacedIn, p

\* A statement of which no block is being written gets one more.
Openable(o, b, w, r) ==
    /\ \A i \in DOMAIN o : o[i].kind # "match" =>
          o[i].stmt # r /\ o[i].start \in Nat /\ Current(w, o[i]) \in Seq(Id)
    /\ \A s \in Id : \A j \in DOMAIN b[s] : j \in DOMAIN w[s] /\ b[s][j].start \in Nat

Opened(t, n, o, b, w, v, r, S) ==
    /\ Later(v, t) /\ Over(S, v) /\ ClosedLaid(n, b, v) /\ OpenLaid(n, o, v)
    /\ Chained(o, v) /\ v[r][Len(v[r])] = <<>>
    /\ \A i \in DOMAIN o : o[i].kind # "match" => Current(v, o[i]) = Current(w, o[i])

LEMMA OpensPlaced ==
    ASSUME NEW t, NEW n, Len(n) \in Nat, NEW o, NEW k, Stacked(o, k), NEW b,
           NEW w \in [Id -> Seq(Seq(Id))], NEW r \in Id, NEW S, Openable(o, b, w, r),
           Later(w, t), Over(S, w), ClosedLaid(n, b, w), OpenLaid(n, o, w), Chained(o, w)
    PROVE  Opened(t, n, o, b, w, OpensBlock(w, r), r, S)
<1> DEFINE v == OpensBlock(w, r)
<1>1. /\ v[r] = Append(w[r], <<>>) /\ \A s \in Id : s # r => v[s] = w[s]
  BY DEF OpensBlock
<1>w. w[r] \in Seq(Seq(Id)) /\ <<>> \in Seq(Id)
  OBVIOUS
<1> HIDE DEF v
<1>2. PICK L \in Nat : L = Len(w[r]) + 1
  BY <1>w
<1>3. /\ Len(v[r]) = L /\ v[r][L] = <<>> /\ DOMAIN v[r] = DOMAIN w[r] \cup {L}
      /\ \A j \in DOMAIN w[r] : v[r][j] = w[r][j]
  BY <1>1, <1>w, <1>2
<1>4. ASSUME NEW s \in Id, NEW j \in DOMAIN v[s]
      PROVE  \/ j \in DOMAIN w[s] /\ v[s][j] = w[s][j]
             \/ v[s][j] = <<>>
  BY <1>1, <1>3, <1>4
<1>5. ASSUME NEW s \in Id, NEW j \in DOMAIN w[s] PROVE j \in DOMAIN v[s] /\ v[s][j] = w[s][j]
  BY <1>1, <1>3, <1>5
<1>6. \A s \in Id : Nests(v, s) <=> Nests(w, s)
  BY <1>4, <1>5 DEF Nests
<1>7. DOMAIN <<>> = {} /\ 1 .. Len(<<>>) - 1 = {}
  OBVIOUS
<1>8. Later(v, t)
  BY <1>4, <1>7 DEF Later
<1>9. Over(S, v)
  <2> SUFFICES ASSUME NEW s \in Id, NEW j \in DOMAIN v[s], NEW m \in 1 .. Len(v[s][j]) - 1
               PROVE  v[s][j][m] \notin S
    BY DEF Over
  <2> QED
    BY <1>4, <1>7 DEF Over
<1>10. ASSUME NEW p \in Nat, NEW q \in Seq(Id)
       PROVE  /\ Laid(n, w, p, q) => Laid(n, v, p, q)
              /\ Grown(n, w, p, q) => Grown(n, v, p, q)
  <2>1. \A j \in 1 .. Len(q) : Nests(v, q[j]) <=> Nests(w, q[j])
    BY <1>6
  <2>2. 1 .. Len(q) - 1 \subseteq 1 .. Len(q)
    OBVIOUS
  <2>3. Laid(n, w, p, q) => Laid(n, v, p, q)
    <3>1. \A j \in 1 .. Len(q) - 1 : Nests(v, q[j]) <=> Nests(w, q[j])
      BY <2>1, <2>2
    <3>2. Len(n) <= Len(n) /\ \A i \in 1 .. Len(n) : n[i] = n[i]
      OBVIOUS
    <3> QED
      BY <3>1, <3>2, LaidSame
  <2>4. Flat(v, q, Len(q)) <=> Flat(w, q, Len(q))
    BY <2>1 DEF Flat
  <2> QED
    BY <2>3, <2>4 DEF Grown
<1>11. ClosedLaid(n, b, v)
  <2> SUFFICES ASSUME NEW s \in Id, NEW j \in DOMAIN b[s]
               PROVE  Laid(n, v, b[s][j].start, v[s][j])
    BY DEF ClosedLaid
  <2>1. j \in DOMAIN w[s] /\ b[s][j].start \in Nat
    BY DEF Openable
  <2>2. v[s][j] = w[s][j] /\ Laid(n, w, b[s][j].start, w[s][j])
    BY <1>5, <2>1 DEF ClosedLaid
  <2>3. w[s] \in Seq(Seq(Id))
    OBVIOUS
  <2>4. w[s][j] \in Seq(Id)
    BY <2>1, <2>3, SeqElement
  <2> QED
    BY <1>10, <2>1, <2>2, <2>4
<1>12. ASSUME NEW i \in DOMAIN o, o[i].kind # "match"
       PROVE  Current(v, o[i]) = Current(w, o[i])
  <2>1. o[i].stmt \in Id /\ o[i].stmt # r
    BY <1>12, StackFacts DEF Openable
  <2> QED
    BY <1>1, <2>1 DEF Current
<1>13. OpenLaid(n, o, v)
  <2> SUFFICES ASSUME NEW i \in DOMAIN o, o[i].kind # "match"
               PROVE  /\ Laid(n, v, o[i].start, Current(v, o[i]))
                      /\ Grown(n, v, o[i].start, Current(v, o[i]))
    BY DEF OpenLaid
  <2>1. /\ Laid(n, w, o[i].start, Current(w, o[i])) /\ Grown(n, w, o[i].start, Current(w, o[i]))
        /\ o[i].start \in Nat /\ Current(w, o[i]) \in Seq(Id)
    BY DEF OpenLaid, Openable
  <2> QED
    BY <1>10, <1>12, <2>1
<1>14. Chained(o, v)
  BY <1>12 DEF Chained
<1> QED
  BY <1>3, <1>8, <1>9, <1>11, <1>12, <1>13, <1>14 DEF v, Opened

LEMMA BlockFacts ==
    ASSUME Fits, Source
    PROVE  \A s \in Id : \A j \in DOMAIN blocks[s] :
               j \in DOMAIN written[s] /\ blocks[s][j].start \in Nat
<1> SUFFICES ASSUME NEW s \in Id, NEW j \in DOMAIN blocks[s]
             PROVE  j \in DOMAIN written[s] /\ blocks[s][j].start \in Nat
  OBVIOUS
<1>1. blocks[s] \in Seq(Place)
  BY OpenFacts
<1>2. blocks[s][j] \in Place
  BY <1>1
<1> QED
  BY <1>2, BlocksAssumption DEF Place, Source, InStep

LEMMA SimplePlaced == ASSUME Fits, Numbered, Source, Placed, Simple PROVE Placed'
<1>0. PICK t \in Id : t = Taken + 1
  BY TakeFacts DEF Simple, Fits
<1>1. /\ Taken' = t /\ written' = Writes(t) /\ open' = Counted(open) /\ blocks' = blocks
      /\ (AtTop \/ InBlock) /\ CanTake /\ Take
  BY <1>0, TakeFacts DEF Simple, Fits
<1>2. Added(t, nodes', written')
  BY <1>0, <1>1, TakePlaced
<1>3. PlacedIn(t, nodes', open, blocks, written')
  BY <1>2 DEF Added, PlacedIn, Over
<1>4. PlacedIn(t, nodes', open', blocks, written')
  BY <1>1, <1>3, OpenFacts, CountPlaced
<1> QED
  BY <1>1, <1>4 DEF Placed

LEMMA BeginPlaced ==
    ASSUME Fits, Numbered, Source, Placed, NEW kind \in {"if", "while", "match"}, Begin(kind)
    PROVE  Placed'
<1>0. PICK t \in Id : t = Taken + 1
  BY TakeFacts DEF Begin, Fits
<1> DEFINE c == Construct(t, kind)
           w == Writes(t)
<1>1. /\ Taken' = t /\ t \in Nat /\ Taken \in Nat /\ Len(nodes') \in 0 .. MaxStmtNodes
      /\ Len(nodes') \in Nat
      /\ open' = Append(open, c) /\ blocks' = blocks
      /\ written' = IF kind = "match" THEN w ELSE OpensBlock(w, t)
      /\ (AtTop \/ InBlock) /\ CanTake /\ Take
  BY <1>0, TakeFacts, OpenFacts DEF Begin, Fits
<1>2. c \in Construct_ /\ c.stmt = t /\ c.kind = kind /\ c.start = Len(nodes')
  BY <1>1, ConstructFacts DEF Kinds
<1>3. Added(t, nodes', w)
  BY <1>0, <1>1, TakePlaced
<1>4. /\ w \in [Id -> Seq(Seq(Id))] /\ Uncounted(open, blocks, w)
  BY <1>1, WriteUncounted
<1>s. Stacked(open, Len(nodes))
  BY OpenFacts
<1> HIDE DEF c, w
<1>5. CASE kind = "match"
  <2>1. PlacedIn(t, nodes', Append(open, c), blocks, w)
    BY <1>1, <1>2, <1>3, <1>5, <1>s, PushPlaced DEF Added
  <2> QED
    BY <1>1, <1>5, <2>1 DEF Placed
<1>6. CASE kind # "match"
  <2> DEFINE v == OpensBlock(w, t)
  <2>1. \A i \in DOMAIN open : open[i].stmt # t
    <3> TAKE i \in DOMAIN open
    <3>1. open[i].stmt \in Nat /\ open[i].stmt <= Taken
      BY OpenFacts
    <3> QED
      BY <1>0, <1>1, <3>1
  <2>2. ASSUME NEW i \in DOMAIN open, open[i].kind # "match"
        PROVE  open[i].start \in Nat /\ Current(w, open[i]) \in Seq(Id)
    <3>1. open[i].start \in Nat /\ open[i].stmt \in Id /\ Len(blocks[open[i].stmt]) \in Nat
      BY OpenFacts, StackFacts
    <3>2. w[open[i].stmt] \in Seq(Seq(Id))
      BY <1>4, <3>1
    <3>3. Len(w[open[i].stmt]) = Len(blocks[open[i].stmt]) + 1
      BY <1>4, <2>2 DEF Uncounted
    <3>4. Len(w[open[i].stmt]) \in DOMAIN w[open[i].stmt]
      BY <3>1, <3>2, <3>3
    <3> QED
      BY <3>1, <3>2, <3>4, SeqElement DEF Current
  <2>3. \A s \in Id : \A j \in DOMAIN blocks[s] : j \in DOMAIN w[s] /\ blocks[s][j].start \in Nat
    BY <1>4, BlockFacts DEF Uncounted
  <2>4. /\ Later(v, t) /\ Over(Stmts(open) \cup {t}, v) /\ ClosedLaid(nodes', blocks, v)
        /\ OpenLaid(nodes', open, v) /\ Chained(open, v) /\ v[t][Len(v[t])] = <<>>
        /\ \A i \in DOMAIN open : open[i].kind # "match" => Current(v, open[i]) = Current(w, open[i])
    <3>1. /\ Later(w, t) /\ Over(Stmts(open) \cup {t}, w) /\ ClosedLaid(nodes', blocks, w)
          /\ OpenLaid(nodes', open, w) /\ Chained(open, w)
      BY <1>3 DEF Added
    <3>2. Openable(open, blocks, w, t)
      BY <2>1, <2>2, <2>3 DEF Openable
    <3>3. Len(nodes') \in Nat /\ w \in [Id -> Seq(Seq(Id))]
      BY <1>1, <1>4
    <3>4. Opened(t, nodes', open, blocks, w, OpensBlock(w, t), t, Stmts(open) \cup {t})
      BY <1>s, <3>1, <3>2, <3>3, OpensPlaced
    <3> QED
      BY <3>4 DEF Opened
  <2> HIDE DEF v
  <2>5. open # <<>> /\ Top(open).kind # "match" =>
            Current(v, Top(open))[Len(Current(v, Top(open)))] = c.stmt
    <3> SUFFICES ASSUME open # <<>>, Top(open).kind # "match"
                 PROVE  Current(v, Top(open))[Len(Current(v, Top(open)))] = t
      BY <1>2
    <3>1. Len(open) \in DOMAIN open /\ Top(open) = open[Len(open)]
      BY OpenFacts, StackFacts DEF Top
    <3>2. Current(v, Top(open)) = Current(w, Top(open))
      BY <2>4, <3>1
    <3> QED
      BY <1>3, <3>2 DEF Added
  <2>6. Current(v, c) = <<>>
    BY <1>2, <2>4 DEF Current
  <2>7. PlacedIn(t, nodes', Append(open, c), blocks, v)
    BY <1>1, <1>2, <1>s, <2>4, <2>5, <2>6, PushPlaced
  <2> QED
    BY <1>1, <1>6, <2>7 DEF Placed, v
<1> QED
  BY <1>5, <1>6

LEMMA CasePlaced == ASSUME Fits, Source, Placed, Case PROVE Placed'
<1> DEFINE c == Construct(inner.stmt, "case")
           r == inner.stmt
           v == OpensBlock(written, r)
<1>1. /\ open # <<>> /\ inner = Top(open) /\ r \in Id /\ Top(open).kind = "match"
      /\ open' = Append(open, c) /\ written' = v
      /\ UNCHANGED <<body, nodes, blocks>> /\ Len(nodes) \in Nat /\ Len(nodes) \in 0 .. MaxStmtNodes
      /\ Len(open) \in DOMAIN open /\ inner = open[Len(open)] /\ Taken' = Taken
  BY OpenFacts, PoolFacts DEF Case, AtCase, AtTop, Fits, Taken
<1>2. /\ c \in Construct_ /\ c.stmt = r /\ c.kind = "case" /\ c.start = Len(nodes)
  BY <1>1, ConstructFacts DEF Kinds
<1>s. Stacked(open, Len(nodes)) /\ written \in [Id -> Seq(Seq(Id))]
  BY OpenFacts
<1> HIDE DEF c, r, v
<1>3. \A i \in DOMAIN open : open[i].kind # "match" => open[i].stmt # r
  <2> SUFFICES ASSUME NEW i \in DOMAIN open, open[i].kind # "match" PROVE open[i].stmt # r
    OBVIOUS
  <2>1. i < Len(open)
    <3>1. i # Len(open) /\ Len(open) \in Nat /\ i \in 1 .. Len(open)
      BY <1>1, OpenFacts, StackFacts
    <3> QED
      BY <3>1
  <2>2. open[i].stmt < r /\ open[i].stmt \in Nat
    BY <1>1, <2>1, OpenFacts DEF Source, Ascending, r
  <2>3. r \in Nat
    BY <1>1, OpenFacts
  <2> QED
    BY <2>2, <2>3
<1>4. \A i \in DOMAIN open : open[i].kind # "match" =>
          open[i].start \in Nat /\ Current(written, open[i]) \in Seq(Id)
  BY CurrentFacts
<1>5. /\ Later(v, Taken) /\ Over(Stmts(open), v) /\ ClosedLaid(nodes, blocks, v)
      /\ OpenLaid(nodes, open, v) /\ Chained(open, v) /\ v[r][Len(v[r])] = <<>>
  <2>1. Openable(open, blocks, written, r)
    BY <1>3, <1>4, BlockFacts DEF Openable
  <2> QED
    BY <1>1, <1>s, <2>1, OpensPlaced DEF Placed, PlacedIn, v, Opened
<1>6. Stmts(open) \cup {c.stmt} = Stmts(open)
  BY <1>1, <1>2 DEF Stmts, r
<1>7. Current(v, c) = <<>>
  BY <1>2, <1>5 DEF Current
<1>8. PlacedIn(Taken, nodes, Append(open, c), blocks, v)
  BY <1>1, <1>2, <1>5, <1>6, <1>7, <1>s, PushPlaced
<1> QED
  BY <1>1, <1>8 DEF Placed

LEMMA EndMatchPlaced == ASSUME Fits, Source, Placed, EndMatch PROVE Placed'
<1>1. /\ open # <<>> /\ open' = Counted(Front(open)) /\ UNCHANGED <<body, nodes, blocks, written>>
      /\ Stacked(open, Len(nodes)) /\ Len(nodes) \in Nat /\ Taken' = Taken /\ Ascending(open)
  BY OpenFacts DEF EndMatch, AtCase, AtTop, Taken, Source
<1>2. PlacedIn(Taken, nodes, Front(open), blocks, written)
  BY <1>1, FrontPlaced DEF Placed
<1>3. PICK k \in Nat : Stacked(Front(open), k)
  BY <1>1, FrontIsStacked
<1>4. PlacedIn(Taken, nodes, Counted(Front(open)), blocks, written)
  BY <1>2, <1>3, CountPlaced
<1> QED
  BY <1>1, <1>4 DEF Placed

\* The block that ends joins the closed ones.
LEMMA CloseLaid ==
    ASSUME Fits, Source, Placed, NEW followed_by_else \in BOOLEAN, Close(followed_by_else)
    PROVE  ClosedLaid(nodes, blocks', written)
<1> DEFINE p == [start |-> inner.start, count |-> inner.count]
           r == Top(open).stmt
<1>1. /\ open # <<>> /\ Top(open).kind # "match" /\ inner = Top(open)
      /\ Len(open) \in DOMAIN open /\ Top(open) = open[Len(open)] /\ r \in Id
      /\ blocks' = [blocks EXCEPT ![inner.stmt] = Append(@, p)]
  BY OpenFacts DEF Close, InBlock, AtTop
<1>2. p.start = Top(open).start
  BY <1>1
<1>3. /\ Len(written[r]) = Len(blocks[r]) + 1
      /\ Laid(nodes, written, Top(open).start, written[r][Len(written[r])])
  BY <1>1 DEF Source, InStep, Placed, PlacedIn, OpenLaid, Current
<1>4. blocks[r] \in Seq(Place) /\ p \in Place
  BY <1>1, OpenFacts DEF Place, Construct_
<1>5. blocks'[r] = Append(blocks[r], p) /\ \A s \in Id : s # r => blocks'[s] = blocks[s]
  BY <1>1, OpenFacts
<1> HIDE DEF p, r
<1>6. /\ DOMAIN blocks'[r] = DOMAIN blocks[r] \cup {Len(blocks[r]) + 1}
      /\ blocks'[r][Len(blocks[r]) + 1] = p /\ \A k \in DOMAIN blocks[r] : blocks'[r][k] = blocks[r][k]
  BY <1>4, <1>5
<1> SUFFICES ASSUME NEW s \in Id, NEW k \in DOMAIN blocks'[s]
             PROVE  Laid(nodes, written, blocks'[s][k].start, written[s][k])
  BY DEF ClosedLaid
<1>7. CASE s = r /\ k = Len(blocks[r]) + 1
  BY <1>2, <1>3, <1>6, <1>7
<1>8. CASE k \in DOMAIN blocks[s] /\ blocks'[s][k] = blocks[s][k]
  BY <1>8 DEF Placed, PlacedIn, ClosedLaid
<1> QED
  BY <1>5, <1>6, <1>7, <1>8

LEMMA ClosePlaced ==
    ASSUME Fits, Source, Placed, NEW followed_by_else \in BOOLEAN, Close(followed_by_else)
    PROVE  Placed'
<1> DEFINE r == Top(open).stmt
<1>1. /\ open # <<>> /\ Top(open).kind # "match" /\ inner = Top(open) /\ Below = Front(open)
      /\ UNCHANGED <<body, nodes>> /\ Taken' = Taken /\ r \in Id /\ Len(nodes) \in Nat
      /\ Stacked(open, Len(nodes)) /\ Ascending(open)
      /\ Len(open) \in DOMAIN open /\ Top(open) = open[Len(open)]
  BY OpenFacts DEF Close, InBlock, AtTop, Taken, Source
<1>2. ClosedLaid(nodes, blocks', written)
  BY CloseLaid
<1>3. PlacedIn(Taken, nodes, open, blocks', written)
  BY <1>2 DEF Placed, PlacedIn
<1>4. PlacedIn(Taken, nodes, Front(open), blocks', written)
  BY <1>1, <1>3, FrontPlaced
<1>5. PICK k \in Nat : Stacked(Front(open), k)
  BY <1>1, FrontIsStacked
<1>6. CASE ~followed_by_else /\ inner.kind = "case"
  BY <1>1, <1>4, <1>6 DEF Close, Placed
<1>7. CASE ~followed_by_else /\ inner.kind # "case"
  <2>1. open' = Counted(Front(open)) /\ written' = written
    BY <1>1, <1>7 DEF Close
  <2> QED
    BY <1>1, <1>4, <1>5, <2>1, CountPlaced DEF Placed
<1>8. CASE followed_by_else
  <2> DEFINE c == [Top(open) EXCEPT !.kind = "else", !.start = Len(nodes), !.count = 0]
             v == OpensBlock(written, r)
  <2>1. open' = Append(Front(open), c) /\ written' = v /\ Top(open).kind = "if"
    BY <1>1, <1>8 DEF Close
  <2>2. c \in Construct_ /\ c.kind = "else" /\ c.stmt = r /\ c.start = Len(nodes)
    <3>1. Top(open) \in Construct_ /\ Len(nodes) \in 0 .. MaxStmtNodes /\ 0 \in 0 .. MaxStmtNodes
      BY <1>1, OpenFacts, PoolFacts, BlocksAssumption DEF Fits
    <3> QED
      BY <3>1 DEF Construct_, Kinds
  <2>3. /\ \A i \in DOMAIN Front(open) : i \in DOMAIN open /\ Front(open)[i] = open[i]
        /\ r \notin Stmts(Front(open)) /\ Stmts(open) = Stmts(Front(open)) \cup {r}
    <3>1. Top(open).kind # "case"
      BY <2>1
    <3> QED
      BY <1>1, <3>1, FrontStmts
  <2> HIDE DEF c
  <2>4. \A i \in DOMAIN Front(open) : Front(open)[i].kind # "match" => Front(open)[i].stmt # r
    BY <2>3 DEF Stmts
  <2>5. \A i \in DOMAIN Front(open) : Front(open)[i].kind # "match" =>
            /\ Front(open)[i].start \in Nat
            /\ Current(written, Front(open)[i]) \in Seq(Id)
    BY <2>3, CurrentFacts
  <2>6. \A s \in Id : \A j \in DOMAIN blocks'[s] :
            j \in DOMAIN written[s] /\ blocks'[s][j].start \in Nat
    <3>1. Fits'
      BY CloseFits
    <3>2. blocks' \in [Id -> Seq(Place)]
      BY <3>1 DEF Fits, TypeOK, Place
    <3>3. \A s \in Id : \A j \in DOMAIN blocks'[s] : blocks'[s][j] \in Place
      BY <3>2
    <3>4. \A s \in Id : \A j \in DOMAIN blocks'[s] : j \in DOMAIN written[s]
      <4> DEFINE p == [start |-> inner.start, count |-> inner.count]
      <4>1. p \in Place /\ p.count = Top(open).count
        BY <1>1, OpenFacts DEF Place, Construct_
      <4>2. blocks' = [blocks EXCEPT ![inner.stmt] = Append(@, p)]
        BY DEF Close
      <4> HIDE DEF p
      <4> QED
        BY <1>1, <4>1, <4>2, BlockClosed
    <3>5. \A q \in Place : q.start \in Nat
      BY BlocksAssumption DEF Place
    <3> QED
      BY <3>3, <3>4, <3>5
  <2>7. written \in [Id -> Seq(Seq(Id))]
    BY OpenFacts
  <2>8. /\ Later(written, Taken) /\ Over(Stmts(open), written)
        /\ OpenLaid(nodes, Front(open), written) /\ Chained(Front(open), written)
    BY <1>3, <1>4 DEF PlacedIn
  <2>9. /\ Later(v, Taken) /\ Over(Stmts(open), v) /\ ClosedLaid(nodes, blocks', v)
        /\ OpenLaid(nodes, Front(open), v) /\ Chained(Front(open), v) /\ v[r][Len(v[r])] = <<>>
        /\ \A i \in DOMAIN Front(open) : Front(open)[i].kind # "match" =>
              Current(v, Front(open)[i]) = Current(written, Front(open)[i])
    <3>1. Openable(Front(open), blocks', written, r)
      BY <2>4, <2>5, <2>6 DEF Openable
    <3>2. Opened(Taken, nodes, Front(open), blocks', written, OpensBlock(written, r), r, Stmts(open))
      BY <1>1, <1>2, <1>5, <2>7, <2>8, <3>1, OpensPlaced
    <3> QED
      BY <3>2 DEF Opened
  <2> HIDE DEF v
  <2>10. Current(v, c) = <<>>
    BY <2>2, <2>9 DEF Current
  <2>11. Over(Stmts(Front(open)) \cup {c.stmt}, v)
    BY <2>2, <2>3, <2>9
  <2>12. Front(open) # <<>> /\ Top(Front(open)).kind # "match" =>
            Current(v, Top(Front(open)))[Len(Current(v, Top(Front(open))))] = c.stmt
    <3> SUFFICES ASSUME Front(open) # <<>>, Top(Front(open)).kind # "match"
                 PROVE  Current(v, Top(Front(open)))[Len(Current(v, Top(Front(open))))] = r
      BY <2>2
    <3>1. /\ Len(open) \in Nat /\ DOMAIN open = 1 .. Len(open)
          /\ Len(open) - 1 \in DOMAIN open /\ Top(Front(open)) = open[Len(open) - 1]
          /\ DOMAIN Front(open) = 1 .. Len(open) - 1
      BY <1>1, StackFacts, FrontFacts
    <3>2. PICK i \in Nat : i = Len(open) - 1
      <4>1. Len(open) - 1 \in 1 .. Len(open)
        BY <3>1
      <4>2. Len(open) - 1 \in Nat
        BY <4>1
      <4> QED
        BY <4>2
    <3>3. i \in DOMAIN Front(open) /\ i \in DOMAIN open /\ i + 1 \in DOMAIN open
          /\ Top(Front(open)) = open[i] /\ Front(open)[i] = open[i] /\ open[i + 1] = Top(open)
      BY <1>1, <2>3, <3>1, <3>2
    <3>4. Current(written, open[i])[Len(Current(written, open[i]))] = open[i + 1].stmt
      BY <3>3 DEF Placed, PlacedIn, Chained
    <3> QED
      BY <2>9, <3>3, <3>4
  <2>13. PlacedIn(Taken, nodes, Append(Front(open), c), blocks', v)
    BY <1>1, <1>5, <2>2, <2>9, <2>10, <2>11, <2>12, PushPlaced
  <2> QED
    BY <1>1, <2>1, <2>13 DEF Placed
<1> QED
  BY <1>6, <1>7, <1>8

LEMMA InitPlaced == Init => Placed
<1> SUFFICES ASSUME Init PROVE Placed
  OBVIOUS
<1>1. /\ DOMAIN open = {} /\ \A s \in Id : DOMAIN written[s] = {} /\ DOMAIN blocks[s] = {}
  BY DEF Init
<1> QED
  BY <1>1 DEF Placed, PlacedIn, Later, Over, ClosedLaid, OpenLaid, Chained

LEMMA StepPlaced == Fits /\ Numbered /\ Source /\ Placed /\ [Next]_vars => Placed'
<1> SUFFICES ASSUME Fits, Numbered, Source, Placed, [Next]_vars PROVE Placed'
  OBVIOUS
<1>1. CASE UNCHANGED <<body, nodes, blocks, open, written>>
  BY <1>1 DEF Placed, Taken
<1> QED
  BY <1>1, SimplePlaced, BeginPlaced, ClosePlaced, CasePlaced, EndMatchPlaced
     DEF Next, NoNode, TooManyCases, EndFunction, Reject, vars

LEMMA PlacedIsFaithful == Fits /\ Source /\ Placed => FaithfulIfFlat
<1> SUFFICES ASSUME Fits, Source, Placed, NEW s \in 1 .. Taken, Finished(s),
                    NEW b \in DOMAIN blocks[s]
             PROVE  Listed(s, b) = written[s][b] <=>
                       \A k \in 1 .. Len(written[s][b]) - 1 : ~HasNested(written[s][b][k])
  BY DEF FaithfulIfFlat
<1> DEFINE q == written[s][b]
           p == blocks[s][b].start
<1>1. s \in Id
  BY PoolFacts DEF Fits
<1>2. b \in DOMAIN written[s] /\ blocks[s][b].count = Len(q)
  BY <1>1 DEF Source, InStep
<1>3. q \in Seq(Id) /\ Len(q) \in Nat
  BY <1>1, <1>2, Members
<1>4. \A k \in 1 .. Len(q) : nodes[p + k] = q[k] <=> Flat(written, q, k - 1)
  BY <1>1 DEF Placed, PlacedIn, ClosedLaid, Laid
<1>5. Listed(s, b) = [k \in 1 .. Len(q) |-> nodes[p + k]]
  BY <1>2 DEF Listed
<1>6. \A i : HasNested(i) <=> Nests(written, i)
  BY DEF HasNested, Nests
<1> HIDE DEF q, p
<1>7. q = [k \in 1 .. Len(q) |-> q[k]]
  BY <1>3
<1>8. Listed(s, b) = q <=> \A k \in 1 .. Len(q) : nodes[p + k] = q[k]
  <2>1. ASSUME Listed(s, b) = q, NEW k \in 1 .. Len(q) PROVE nodes[p + k] = q[k]
    BY <1>5, <2>1
  <2>2. ASSUME \A k \in 1 .. Len(q) : nodes[p + k] = q[k] PROVE Listed(s, b) = q
    BY <1>5, <1>7, <2>2
  <2> QED
    BY <2>1, <2>2
<1>9. (\A k \in 1 .. Len(q) : Flat(written, q, k - 1)) <=>
          \A k \in 1 .. Len(q) - 1 : ~Nests(written, q[k])
  <2>1. ASSUME \A k \in 1 .. Len(q) : Flat(written, q, k - 1), NEW k \in 1 .. Len(q) - 1
        PROVE  ~Nests(written, q[k])
    <3>1. k + 1 \in 1 .. Len(q) /\ k \in 1 .. (k + 1) - 1
      BY <1>3
    <3> QED
      BY <2>1, <3>1 DEF Flat
  <2>2. ASSUME \A k \in 1 .. Len(q) - 1 : ~Nests(written, q[k]), NEW k \in 1 .. Len(q)
        PROVE  Flat(written, q, k - 1)
    <3>1. 1 .. k - 1 \subseteq 1 .. Len(q) - 1
      BY <1>3
    <3> QED
      BY <2>2, <3>1 DEF Flat
  <2> QED
    BY <2>1, <2>2
<1> QED
  BY <1>4, <1>6, <1>8, <1>9 DEF q
-----------------------------------------------------------------------------
\* Each part is inductive given the ones before it.
THEOREM Inductive == Spec => [](Fits /\ Numbered /\ Source /\ Placed)
<1>1. Init => Fits /\ Numbered /\ Source /\ Placed
  <2>1. Init => Numbered
    BY BlocksAssumption DEF Init, Numbered, EveryStatementOnce, Taken
  <2> QED
    BY <2>1, InitFits, InitSource, InitPlaced
<1>2. /\ Fits /\ Numbered /\ Source /\ Placed
      /\ [Next]_vars
      => (Fits /\ Numbered /\ Source /\ Placed)'
  BY StepFits, StepNumbered, StepSource, StepPlaced DEF Fits
<1> QED
  BY <1>1, <1>2, PTL DEF Spec

\* No array of statements is written past its end, for any nesting.
THEOREM TypeCorrect == Spec => []TypeOK
BY Inductive, PTL DEF Fits

\* beet_parser_next_stmt_node and the body's array give each statement one node.
THEOREM StatementsHaveOneNode == Spec => []EveryStatementOnce
BY Inductive, PTL DEF Numbered

\* Every closed block lies in the pool and counts what was written in it.
THEOREM BlocksLieInPool == Spec => []BlocksInPool
<1>1. Fits /\ Source => BlocksInPool
  BY SourceInPool
<1> QED
  BY <1>1, Inductive, PTL

\* The syntax tree has in a block what was written there exactly if no statement
\* but the block's last has nested ones: beet_parser_next_stmt_node hands out
\* the nodes of nested statements between those of the block, and the block
\* keeps only its first node and a count.
THEOREM FaithfulBlocks == Spec => []FaithfulIfFlat
<1>1. Fits /\ Source /\ Placed => FaithfulIfFlat
  BY PlacedIsFaithful
<1> QED
  BY <1>1, Inductive, PTL
=============================================================================
