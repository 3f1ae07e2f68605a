--------------------------- MODULE BytecodeProofs ---------------------------
(***************************************************************************)
(* What holds of the bytecode builder for every MaxCode and every input.   *)
(***************************************************************************)
EXTENDS Bytecode, SequenceTheorems, TLAPS

\* An instruction whose words say themselves how many they are.
WellEncoded(ins) ==
    /\ ins \in Seq(Int)
    /\ Len(ins) >= 2
    /\ ins[1] \in Opcodes
    /\ ins[1] = CALL => Len(ins) >= 4
    /\ Len(ins) = Width(ins[1], IF ins[1] = CALL THEN ins[4] ELSE 0)

\* The width the scan computes at s, without the bounds checks.
WidthAt(s) == Width(code[s], IF code[s] = CALL THEN code[s + 3] ELSE 0)

\* The instructions tile the code: each one that was emitted ends where the
\* next begins or at the end, and none begins inside another.
Tiled ==
    /\ starts \subseteq 0 .. code_count - 1
    /\ code_count > 0 => 0 \in starts
    /\ \A s \in starts :
          /\ code[s] \in Opcodes
          /\ WidthAt(s) \in Nat /\ WidthAt(s) >= 2
          /\ code[s] = CALL => s + 4 <= code_count
          /\ s + WidthAt(s) \in starts \cup {code_count}
          /\ \A t \in starts : s < t => s + WidthAt(s) <= t

CountDescribes(n, p) ==
    /\ \A s \in LabelsBelow(p) : code[s + 1] < n
    /\ n = 0 \/ \E s \in LabelsBelow(p) : code[s + 1] = n - 1

\* The scan has entered in the table exactly the labels behind it.
ScanSoFar ==
    phase = "scan" =>
       /\ ~jump_targets_ready
       /\ pc \in starts \cup {code_count}
       /\ TableDescribes(pc)
       /\ CountDescribes(max_label_id, pc)

IInv == TypeOK /\ Tiled /\ ScanSoFar /\ TargetsFresh
-----------------------------------------------------------------------------
(* The instruction set.                                                    *)

LEMMA OpcodeValues ==
    /\ Opcodes = 1 .. 20
    /\ LABEL = 18 /\ CALL = 4
    /\ LABEL \in TwoWordOps
    /\ Width(LABEL, 0) = 2
<1>1. LABEL \in TwoWordOps
  BY DEF TwoWordOps
<1>2. Width(LABEL, 0) = 2
  BY <1>1 DEF Width, CALL, LABEL, ThreeWordOps, BinaryOps, CONST_INT, STORE_LOCAL, LOAD_LOCAL, JUMP_IF_FALSE, ADD_INT, GE_INT
<1>3. Opcodes = 1 .. 20
  BY DEF Opcodes, CONST_INT, JUMP_IF_FALSE
<1> QED
  BY <1>1, <1>2, <1>3 DEF LABEL, CALL

\* How many words the opcodes of each class take.
LEMMA WidthCases ==
    /\ \A op \in TwoWordOps : op \in Opcodes /\ op # CALL /\ \A n : Width(op, n) = 2
    /\ \A op \in ThreeWordOps : op \in Opcodes /\ op # CALL /\ \A n : Width(op, n) = 3
    /\ \A op \in BinaryOps : op \in Opcodes /\ op # CALL /\ \A n : Width(op, n) = 4
    /\ CALL \in Opcodes /\ \A n : Width(CALL, n) = 4 + n
BY DEF Opcodes, LABEL, CALL, TwoWordOps, ThreeWordOps, BinaryOps, ReturnOps,
       RETURN_LOCAL, RETURN_CONST_INT, JUMP, Width, CONST_INT, JUMP_IF_FALSE,
       STORE_LOCAL, LOAD_LOCAL, ADD_INT, GE_INT

LEMMA OpcodesAreInts == Opcodes \subseteq Int
BY DEF Opcodes, CONST_INT, JUMP_IF_FALSE
-----------------------------------------------------------------------------
USE BytecodeAssumption

LEMMA InitInv == Init => IInv
BY DEF Init, IInv, TypeOK, Tiled, ScanSoFar, TargetsFresh, Slots, NoTarget

LEMMA ExtendTiled ==
    ASSUME TypeOK, Tiled, NEW ins, WellEncoded(ins), Extend(ins)
    PROVE  Tiled'
<1> PICK n \in Nat : n = code_count
  BY DEF TypeOK
<1>1. /\ Len(ins) \in Nat /\ n + Len(ins) <= MaxCode
      /\ code_count' = n + Len(ins)
      /\ starts' = starts \cup {n}
  BY DEF TypeOK, WellEncoded, Extend, Fits
<1>2. \A i \in 0 .. n - 1 : code'[i] = code[i]
  BY <1>1 DEF Extend, Slots
<1>3. \A i \in n .. n + Len(ins) - 1 : code'[i] = ins[i - n + 1]
  BY <1>1 DEF Extend, Slots
<1>4. WidthAt(n)' = Len(ins) /\ code'[n] \in Opcodes
      /\ (code'[n] = CALL => n + 4 <= code_count')
  <2>1. code'[n] = ins[1]
    BY <1>1, <1>3 DEF WellEncoded
  <2>2. ins[1] = CALL => code'[n + 3] = ins[4] /\ Len(ins) >= 4
    BY <1>1, <1>3 DEF WellEncoded
  <2> QED
    BY <1>1, <2>1, <2>2 DEF WellEncoded, WidthAt
<1>5. \A s \in starts : WidthAt(s)' = WidthAt(s) /\ code'[s] = code[s]
  BY <1>1, <1>2 DEF Tiled, WidthAt
<1>6. starts' \subseteq 0 .. code_count' - 1 /\ 0 \in starts'
  BY <1>1 DEF Tiled, WellEncoded
<1>7. ASSUME NEW s \in starts
      PROVE  /\ code'[s] \in Opcodes
             /\ WidthAt(s)' \in Nat /\ WidthAt(s)' >= 2
             /\ code'[s] = CALL => s + 4 <= code_count'
             /\ s + WidthAt(s)' \in starts' \cup {code_count'}
             /\ \A t \in starts' : s < t => s + WidthAt(s)' <= t
  <2>1. s + WidthAt(s) \in starts \cup {n}
    BY DEF Tiled
  <2>2. s + WidthAt(s) <= n
    BY <1>1, <2>1 DEF Tiled
  <2> QED
    BY <1>1, <1>5, <2>1, <2>2 DEF Tiled
<1>8. /\ code'[n] \in Opcodes
      /\ WidthAt(n)' \in Nat /\ WidthAt(n)' >= 2
      /\ code'[n] = CALL => n + 4 <= code_count'
      /\ n + WidthAt(n)' \in starts' \cup {code_count'}
      /\ \A t \in starts' : n < t => n + WidthAt(n)' <= t
  BY <1>1, <1>4 DEF Tiled, WellEncoded
<1> QED
  BY <1>1, <1>6, <1>7, <1>8 DEF Tiled

LEMMA EmitInv ==
    ASSUME IInv, NEW ins, WellEncoded(ins), Emit(ins), local_count' \in Nat
    PROVE  IInv'
<1> USE DEF IInv
<1>1. CASE Extend(ins)
  <2>1. Tiled'
    BY <1>1, ExtendTiled
  <2>2. TypeOK'
    <3> PICK n \in 0 .. MaxCode : n = code_count
      BY DEF TypeOK
    <3>1. Len(ins) \in Nat /\ Len(ins) >= 2 /\ n + Len(ins) <= MaxCode
      BY <1>1 DEF WellEncoded, Extend, Fits
    <3>2. \A i \in Slots : i \in n .. n + Len(ins) - 1 => ins[i - n + 1] \in Int
      BY <3>1 DEF WellEncoded, Slots
    <3>3. code' \in [Slots -> Int]
      BY <1>1, <3>2 DEF TypeOK, Extend
    <3>4. n \in Slots
      BY <3>1 DEF Slots
    <3>5. code_count' \in 0 .. MaxCode /\ starts' \subseteq Slots
      BY <1>1, <3>1, <3>4 DEF TypeOK, Extend
    <3>6. UNCHANGED <<jump_target_pcs, jump_target_count, phase, pc, max_label_id>>
      BY DEF Emit, tableVars, scanVars
    <3>7. jump_targets_ready' \in BOOLEAN /\ returned' \in BOOLEAN
      BY <1>1 DEF Extend
    <3> QED
      BY <3>3, <3>5, <3>6, <3>7 DEF TypeOK
  <2>3. ~jump_targets_ready' /\ phase' = "idle"
    BY <1>1 DEF Extend, Emit, scanVars
  <2> QED
    BY <2>1, <2>2, <2>3 DEF ScanSoFar, TargetsFresh
<1>2. CASE Refuse(ins)
  <2>1. UNCHANGED <<code, code_count, starts, tableVars, jump_targets_ready, scanVars>>
    BY <1>2 DEF Refuse, Emit
  <2>2. TypeOK'
    BY <1>2, <2>1 DEF TypeOK, Refuse, tableVars, scanVars
  <2>3. Tiled'
    BY <2>1 DEF Tiled, WidthAt
  <2>4. ScanSoFar' /\ TargetsFresh'
    BY <2>1 DEF ScanSoFar, TargetsFresh, TableDescribes, CountDescribes, LabelsBelow,
                tableVars, scanVars
  <2> QED
    BY <2>2, <2>3, <2>4
<1> QED
  BY <1>1, <1>2 DEF Emit

LEMMA Emit2WellEncoded ==
    ASSUME NEW op \in TwoWordOps, NEW a \in Int
    PROVE  WellEncoded(<<op, a>>)
<1> DEFINE ins == <<op, a>>
<1>1. op \in Opcodes /\ op \in Int /\ op # CALL /\ Width(op, 0) = 2
  BY WidthCases, OpcodesAreInts
<1>2. ins \in Seq(Int) /\ Len(ins) = 2 /\ ins[1] = op
  BY <1>1
<1> HIDE DEF ins
<1>3. WellEncoded(ins)
  BY <1>1, <1>2 DEF WellEncoded
<1> QED
  BY <1>3 DEF ins

LEMMA Emit3WellEncoded ==
    ASSUME NEW op \in ThreeWordOps, NEW a \in Int, NEW b \in Int
    PROVE  WellEncoded(<<op, a, b>>)
<1> DEFINE ins == <<op, a, b>>
<1>1. op \in Opcodes /\ op \in Int /\ op # CALL /\ Width(op, 0) = 3
  BY WidthCases, OpcodesAreInts
<1>2. ins \in Seq(Int) /\ Len(ins) = 3 /\ ins[1] = op
  BY <1>1
<1> HIDE DEF ins
<1>3. WellEncoded(ins)
  BY <1>1, <1>2 DEF WellEncoded
<1> QED
  BY <1>3 DEF ins

LEMMA Emit4WellEncoded ==
    ASSUME NEW op \in BinaryOps, NEW a \in Int, NEW b \in Int, NEW c \in Int
    PROVE  WellEncoded(<<op, a, b, c>>)
<1> DEFINE ins == <<op, a, b, c>>
<1>1. op \in Opcodes /\ op \in Int /\ op # CALL /\ Width(op, 0) = 4
  BY WidthCases, OpcodesAreInts
<1>2. ins \in Seq(Int) /\ Len(ins) = 4 /\ ins[1] = op
  BY <1>1
<1> HIDE DEF ins
<1>3. WellEncoded(ins)
  BY <1>1, <1>2 DEF WellEncoded
<1> QED
  BY <1>3 DEF ins

LEMMA CallWellEncoded ==
    ASSUME NEW a \in Int, NEW b \in Int, NEW args \in Seq(Int)
    PROVE  WellEncoded(<<CALL, a, b, Len(args)>> \o args)
<1> DEFINE head == <<CALL, a, b, Len(args)>>
<1>1. head \in Seq(Int) /\ Len(head) = 4 /\ head[1] = CALL /\ head[4] = Len(args)
  BY OpcodeValues
<1>2. head \o args \in Seq(Int) /\ Len(head \o args) = 4 + Len(args)
  BY <1>1
<1>3. (head \o args)[1] = CALL /\ (head \o args)[4] = Len(args)
  BY <1>1
<1> HIDE DEF head
<1>4. WellEncoded(head \o args)
  BY <1>2, <1>3, WidthCases DEF WellEncoded
<1> QED
  BY <1>4 DEF head

LEMMA EmitAnyInv == IInv /\ EmitAny => IInv'
<1> SUFFICES ASSUME IInv, EmitAny
             PROVE  IInv'
  OBVIOUS
<1>1. LABEL \in TwoWordOps /\ JUMP \in TwoWordOps /\ ReturnOps \subseteq TwoWordOps
  BY DEF TwoWordOps
<1>2. {CONST_INT, LOAD_LOCAL, STORE_LOCAL, JUMP_IF_FALSE} \subseteq ThreeWordOps
  BY DEF ThreeWordOps
<1>3. Operands \subseteq Int /\ LabelIds \subseteq Int /\ local_count \in Nat
  BY DEF IInv, TypeOK
<1>4. ASSUME NEW op \in TwoWordOps, NEW a \in Int, Emit2(op, a)
      PROVE  IInv'
  BY <1>3, <1>4, Emit2WellEncoded, EmitInv DEF Emit2
<1>5. ASSUME NEW op \in ThreeWordOps, NEW a \in Int, NEW b \in Int, Emit3(op, a, b)
      PROVE  IInv'
  BY <1>3, <1>5, Emit3WellEncoded, EmitInv DEF Emit3
<1>6. ASSUME NEW local \in Operands, NEW src \in Operands, EmitStoreLocal(local, src)
      PROVE  IInv'
  <2>1. local_count' \in Nat
    BY <1>3, <1>6 DEF EmitStoreLocal
  <2> QED
    BY <1>2, <1>3, <1>6, <2>1, Emit3WellEncoded, EmitInv DEF EmitStoreLocal
<1>7. ASSUME NEW op \in BinaryOps, NEW a \in Operands, NEW b \in Operands,
             NEW c \in Operands, EmitBinaryInt(op, a, b, c)
      PROVE  IInv'
  BY <1>3, <1>7, Emit4WellEncoded, EmitInv DEF EmitBinaryInt
<1>8. ASSUME NEW dst \in Operands, NEW f \in Operands, NEW args \in ArgLists,
             EmitCall(dst, f, args)
      PROVE  IInv'
  <2>1. args \in Seq(Int)
    BY <1>3, SeqMonotonic
  <2> QED
    BY <1>3, <1>8, <2>1, CallWellEncoded, EmitInv DEF EmitCall
<1> QED
  BY <1>1, <1>2, <1>3, <1>4, <1>5, <1>6, <1>7, <1>8 DEF EmitAny
-----------------------------------------------------------------------------
(* The scan.                                                               *)

\* Standing at an instruction, the scan reads the width the emit gave it.
LEMMA ScanDecodes ==
    ASSUME TypeOK, Tiled, pc \in starts
    PROVE  /\ pc < code_count
           /\ InstrWidth(pc) = WidthAt(pc)
           /\ WidthAt(pc) \in Nat /\ WidthAt(pc) >= 2
           /\ pc + WidthAt(pc) \in starts \cup {code_count}
           /\ pc + WidthAt(pc) <= code_count
           /\ Decodable
<1>1. /\ pc \in Nat /\ code_count \in Nat /\ pc < code_count
      /\ WidthAt(pc) \in Nat /\ WidthAt(pc) >= 2
      /\ code[pc] = CALL => pc + 4 <= code_count
      /\ pc + WidthAt(pc) \in starts \cup {code_count}
  BY DEF TypeOK, Tiled
<1>2. pc + WidthAt(pc) <= code_count
  BY <1>1 DEF Tiled
<1>3. InstrWidth(pc) = WidthAt(pc)
  <2>1. ~(pc >= code_count)
    BY <1>1
  <2>2. ~(code[pc] = CALL /\ pc + 4 > code_count)
    BY <1>1
  <2> QED
    BY <2>1, <2>2 DEF InstrWidth, WidthAt
<1> QED
  BY <1>1, <1>2, <1>3 DEF Decodable

\* Moving on by one instruction leaves exactly that one more behind.
LEMMA OneMoreBehind ==
    ASSUME TypeOK, Tiled, NEW p \in starts, NEW t \in starts
    PROVE  t < p + WidthAt(p) <=> t < p \/ t = p
BY DEF TypeOK, Tiled, Slots

LEMMA LabelInv == IInv /\ ScanLabel => IInv'
<1> SUFFICES ASSUME IInv, ScanLabel
             PROVE  IInv'
  OBVIOUS
<1> PICK p \in 0 .. MaxCode : p = pc
  BY DEF IInv, TypeOK
<1>1. TypeOK /\ Tiled /\ p \in starts
  BY DEF IInv, ScanLabel, ScanSoFar
<1>2. InstrWidth(p) = 2 /\ WidthAt(p) = 2
  BY <1>1, ScanDecodes, OpcodeValues DEF ScanLabel, WidthAt, Width, CALL
<1>3. p + 2 \in starts \cup {code_count} /\ p + 2 <= code_count
  BY <1>1, <1>2, ScanDecodes
<1> PICK l \in Slots : l = code[p + 1]
  BY DEF ScanLabel, Acceptable, LabelFree
<1>4. /\ UNCHANGED <<code, code_count, local_count, starts, jump_target_count,
                      jump_targets_ready, phase, returned>>
      /\ pc' = p + 2
      /\ jump_target_pcs' = [jump_target_pcs EXCEPT ![l] = p + 2]
      /\ max_label_id' = IF l + 1 > max_label_id THEN l + 1 ELSE max_label_id
  BY <1>2 DEF ScanLabel, codeVars
<1>5. TypeOK'
  BY <1>1, <1>3, <1>4 DEF TypeOK, Slots
<1>6. Tiled'
  BY <1>1, <1>4 DEF Tiled, WidthAt
<1>7. \A s : s \in LabelsBelow(p + 2)' <=> s \in LabelsBelow(p) \/ s = p
  BY <1>1, <1>2, <1>4, OneMoreBehind DEF LabelsBelow, ScanLabel
<1>8. /\ TableDescribes(p) /\ CountDescribes(max_label_id, p)
      /\ ~jump_targets_ready /\ jump_target_pcs[l] = NoTarget
  BY DEF IInv, ScanSoFar, ScanLabel, Acceptable, LabelFree
<1>9. TableDescribes(p + 2)'
  <2>1. ASSUME NEW s \in LabelsBelow(p + 2)'
        PROVE  code[s + 1] \in Slots /\ jump_target_pcs'[code[s + 1]] = s + 2
    <3>1. CASE s = p
      BY <1>1, <1>4, <3>1 DEF TypeOK
    <3>2. CASE s # p
      <4>1. s \in LabelsBelow(p) /\ s \in Slots
        BY <1>1, <1>7, <3>2 DEF LabelsBelow, TypeOK
      <4>2. code[s + 1] \in Slots /\ jump_target_pcs[code[s + 1]] = s + 2
        BY <1>8, <4>1 DEF TableDescribes
      <4>3. code[s + 1] # l
        BY <1>8, <4>1, <4>2 DEF NoTarget, Slots
      <4> QED
        BY <1>1, <1>4, <4>2, <4>3 DEF TypeOK
    <3> QED
      BY <3>1, <3>2
  <2>2. ASSUME NEW k \in Slots, jump_target_pcs'[k] # NoTarget
        PROVE  \E s \in LabelsBelow(p + 2)' : code[s + 1] = k
    <3>1. CASE k = l
      BY <1>7, <3>1
    <3>2. CASE k # l
      BY <1>1, <1>4, <1>7, <1>8, <2>2, <3>2 DEF TypeOK, TableDescribes
    <3> QED
      BY <3>1, <3>2
  <2> QED
    BY <1>4, <2>1, <2>2 DEF TableDescribes
<1> PICK m \in 0 .. MaxCode : m = max_label_id'
  BY <1>5 DEF TypeOK
<1>10. CountDescribes(m, p + 2)'
  <2>1. max_label_id \in Nat /\ l \in Nat
        /\ m = IF l + 1 > max_label_id THEN l + 1 ELSE max_label_id
    BY <1>1, <1>4 DEF TypeOK, Slots
  <2>2. ASSUME NEW s \in LabelsBelow(p + 2)'
        PROVE  code[s + 1] < m
    <3>1. CASE s = p
      BY <1>4, <2>1, <3>1
    <3>2. CASE s # p
      <4>1. s \in LabelsBelow(p)
        BY <1>7, <3>2
      <4>2. code[s + 1] < max_label_id /\ code[s + 1] \in Nat
        BY <1>8, <4>1 DEF CountDescribes, TableDescribes, Slots
      <4> QED
        BY <1>4, <2>1, <4>2
    <3> QED
      BY <3>1, <3>2
  <2>3. \E s \in LabelsBelow(p + 2)' : code[s + 1] = m - 1
    <3>1. CASE l + 1 > max_label_id
      <4>1. p \in LabelsBelow(p + 2)'
        BY <1>7
      <4>2. code[p + 1] = m - 1
        BY <2>1, <3>1
      <4> QED
        BY <4>1, <4>2
    <3>2. CASE ~(l + 1 > max_label_id)
      BY <1>4, <1>7, <1>8, <2>1, <3>2 DEF CountDescribes
    <3> QED
      BY <3>1, <3>2
  <2> QED
    BY <1>4, <2>2, <2>3 DEF CountDescribes
<1>11. ScanSoFar'
  BY <1>3, <1>4, <1>8, <1>9, <1>10 DEF ScanSoFar
<1>12. TargetsFresh'
  BY <1>4, <1>8 DEF TargetsFresh
<1> QED
  BY <1>5, <1>6, <1>11, <1>12 DEF IInv

LEMMA OtherInv == IInv /\ ScanOther => IInv'
<1> SUFFICES ASSUME IInv, ScanOther
             PROVE  IInv'
  OBVIOUS
<1> PICK p \in 0 .. MaxCode : p = pc
  BY DEF IInv, TypeOK
<1>1. TypeOK /\ Tiled /\ p \in starts
  BY DEF IInv, ScanOther, ScanSoFar
<1> PICK q \in 0 .. MaxCode : q = p + WidthAt(p)
  BY <1>1, ScanDecodes DEF TypeOK
<1>2. /\ UNCHANGED <<code, code_count, local_count, starts, jump_target_pcs,
                      jump_target_count, jump_targets_ready, phase, max_label_id,
                      returned>>
      /\ pc' = q
  BY <1>1, ScanDecodes DEF ScanOther, codeVars, tableVars
<1>3. q \in starts \cup {code_count}
  BY <1>1, ScanDecodes
<1>4. TypeOK'
  BY <1>1, <1>2 DEF TypeOK
<1>5. Tiled'
  BY <1>1, <1>2 DEF Tiled, WidthAt
<1>6. LabelsBelow(q)' = LabelsBelow(p)
  BY <1>1, <1>2, OneMoreBehind DEF LabelsBelow, ScanOther
<1>7. /\ TableDescribes(p) /\ CountDescribes(max_label_id, p)
      /\ ~jump_targets_ready
  BY DEF IInv, ScanSoFar, ScanOther
<1>8. TableDescribes(q)'
  BY <1>2, <1>6, <1>7 DEF TableDescribes
<1> PICK m \in 0 .. MaxCode : m = max_label_id
  BY <1>1 DEF TypeOK
<1>9. CountDescribes(m, q)'
  BY <1>2, <1>6, <1>7 DEF CountDescribes
<1>10. ScanSoFar'
  BY <1>2, <1>3, <1>7, <1>8, <1>9 DEF ScanSoFar
<1>11. TargetsFresh'
  BY <1>2, <1>7 DEF TargetsFresh
<1> QED
  BY <1>4, <1>5, <1>10, <1>11 DEF IInv

LEMMA DoneInv == IInv /\ ScanDone => IInv'
<1> SUFFICES ASSUME IInv, ScanDone
             PROVE  IInv'
  OBVIOUS
<1>1. /\ UNCHANGED <<code, code_count, local_count, starts, jump_target_pcs, pc,
                      max_label_id>>
      /\ jump_target_count' = max_label_id
      /\ phase' = "idle" /\ returned' \in BOOLEAN /\ jump_targets_ready' \in BOOLEAN
  BY DEF ScanDone, codeVars
<1>2. TypeOK' /\ Tiled'
  BY <1>1 DEF IInv, TypeOK, Tiled, WidthAt
<1>3. pc = code_count
  BY DEF IInv, TypeOK, Tiled, ScanDone, ScanSoFar
<1>4. TableDescribes(code_count) /\ CountDescribes(max_label_id, code_count)
  BY <1>3 DEF IInv, ScanDone, ScanSoFar
<1>5. LabelsBelow(code_count)' = LabelsBelow(code_count)
  BY <1>1 DEF LabelsBelow
<1>6. TableDescribes(code_count)'
  BY <1>1, <1>4, <1>5 DEF TableDescribes
<1>7. TargetsFresh'
  BY <1>1, <1>4, <1>5, <1>6 DEF TargetsFresh, CountDescribes
<1> QED
  BY <1>1, <1>2, <1>7 DEF IInv, ScanSoFar

LEMMA StartInv == IInv /\ PrepareStart => IInv'
<1> SUFFICES ASSUME IInv, PrepareStart
             PROVE  IInv'
  OBVIOUS
<1>1. /\ UNCHANGED <<code, code_count, local_count, starts, jump_target_count,
                      returned, jump_targets_ready>>
      /\ jump_target_pcs' = [l \in Slots |-> NoTarget]
      /\ max_label_id' = 0 /\ pc' = 0 /\ phase' = "scan"
      /\ ~jump_targets_ready
  BY DEF PrepareStart, codeVars
<1>2. TypeOK' /\ Tiled'
  BY <1>1 DEF IInv, TypeOK, Tiled, WidthAt
<1>3. pc' \in starts' \cup {code_count'}
  BY <1>1 DEF IInv, TypeOK, Tiled
<1>4. \A s : s \notin LabelsBelow(0)'
  <2>1. \A s \in starts' : s \in Nat
    BY <1>2 DEF TypeOK, Slots
  <2> QED
    BY <2>1 DEF LabelsBelow
<1>5. TableDescribes(0)' /\ CountDescribes(0, 0)'
  BY <1>1, <1>4 DEF TableDescribes, CountDescribes
<1> QED
  BY <1>1, <1>2, <1>3, <1>5 DEF IInv, ScanSoFar, TargetsFresh

LEMMA QuietInv == IInv /\ (PrepareCached \/ ScanReject \/ UNCHANGED vars) => IInv'
<1> SUFFICES ASSUME IInv, PrepareCached \/ ScanReject \/ UNCHANGED vars
             PROVE  IInv'
  OBVIOUS
<1>1. /\ UNCHANGED <<code, code_count, local_count, starts, jump_target_pcs,
                      jump_target_count, jump_targets_ready, pc, max_label_id>>
      /\ returned' \in BOOLEAN
      /\ phase' = phase \/ phase' = "idle"
  BY DEF IInv, TypeOK, PrepareCached, ScanReject, vars, codeVars, tableVars, scanVars
<1>2. TypeOK' /\ Tiled'
  BY <1>1 DEF IInv, TypeOK, Tiled, WidthAt
<1>3. ScanSoFar' /\ TargetsFresh'
  BY <1>1 DEF IInv, ScanSoFar, TargetsFresh, TableDescribes, CountDescribes, LabelsBelow
<1> QED
  BY <1>2, <1>3 DEF IInv

LEMMA StepInv == IInv /\ [Next]_vars => IInv'
BY EmitAnyInv, LabelInv, OtherInv, DoneInv, StartInv, QuietInv DEF Next, Scan

\* The inductive invariant: the instructions tile the code and the table
\* describes what the scan has passed.
THEOREM Inductive == Spec => []IInv
BY InitInv, StepInv, PTL DEF Spec

\* Every variable keeps its type: in particular no emit writes past the array
\* and no label id past the table, for every MaxCode and every sequence of
\* calls.
THEOREM TypeCorrect == Spec => []TypeOK
BY Inductive, PTL DEF IInv

\* The cached jump table is never stale (TargetsFresh): any interleaving of
\* emits and prepares, also failed ones, leaves the table either marked not
\* ready or equal to what the code says.
THEOREM TableNeverStale == Spec => []TargetsFresh
BY Inductive, PTL DEF IInv

\* The scan never stands inside an instruction and never meets a word it
\* cannot decode, so a prepare is refused for its labels only.
THEOREM ScanDecodesEverything == Spec => []ScanInStep
<1>1. IInv => ScanInStep
  BY ScanDecodes DEF IInv, ScanSoFar, ScanInStep, TypeOK
<1> QED
  BY <1>1, Inductive, PTL

\* Prepare succeeds exactly when every label id is in range and used once.
THEOREM VerdictExact == Spec => PrepareVerdict
<1>1. ASSUME IInv, Next, phase = "scan", phase' = "idle"
      PROVE  returned' <=> LabelsUsable
  <2> USE DEF IInv
  <2>1. CASE ScanReject
    <3>1. pc \in starts /\ Decodable /\ pc < code_count
      <4>1. pc \in starts
        BY <1>1, <2>1 DEF ScanReject, ScanSoFar, TypeOK
      <4> QED
        BY <1>1, <4>1, ScanDecodes
    <3>2. code[pc] = LABEL /\ ~LabelFree(code[pc + 1]) /\ ~returned'
      BY <2>1, <3>1 DEF ScanReject, Acceptable
    <3>3. pc \in LabelsBelow(code_count)
      BY <3>1, <3>2 DEF LabelsBelow
    <3>4. CASE code[pc + 1] \notin Slots
      BY <3>2, <3>3, <3>4 DEF LabelsUsable
    <3>5. CASE code[pc + 1] \in Slots /\ jump_target_pcs[code[pc + 1]] # NoTarget
      <4>1. PICK s \in LabelsBelow(pc) : code[s + 1] = code[pc + 1]
        BY <1>1, <3>5 DEF ScanSoFar, TableDescribes
      <4>2. s \in LabelsBelow(code_count) /\ s # pc
        BY <1>1, <3>1 DEF LabelsBelow, TypeOK, Slots
      <4> QED
        BY <3>2, <3>3, <4>1, <4>2 DEF LabelsUsable
    <3> QED
      BY <3>2, <3>4, <3>5 DEF LabelFree
  <2>2. CASE ScanDone
    <3>1. pc = code_count /\ returned'
      BY <1>1, <2>2 DEF TypeOK, Tiled, ScanDone, ScanSoFar
    <3>2. TableDescribes(code_count)
      BY <1>1, <3>1 DEF ScanSoFar
    <3>3. \A s \in LabelsBelow(code_count) : s \in Int
      BY <1>1 DEF LabelsBelow, TypeOK, Slots
    <3> QED
      BY <3>1, <3>2, <3>3 DEF TableDescribes, LabelsUsable
  <2>3. ~(PrepareCached \/ PrepareStart \/ ScanLabel \/ ScanOther)
    BY <1>1 DEF PrepareCached, PrepareStart, ScanLabel, ScanOther
  <2>4. ~EmitAny
    BY <1>1 DEF EmitAny, Emit2, Emit3, EmitStoreLocal, EmitBinaryInt, EmitCall, Emit
  <2> QED
    BY <1>1, <2>1, <2>2, <2>3, <2>4 DEF Next, Scan
<1>2. IInv /\ [Next]_vars
      => [phase = "scan" /\ phase' = "idle" => (returned' <=> LabelsUsable)]_vars
  BY <1>1
<1> QED
  BY <1>2, Inductive, PTL DEF Spec, PrepareVerdict
-----------------------------------------------------------------------------
(* The count of locals.                                                    *)

\* Instructions that were emitted before are not overwritten, and the one that
\* is emitted now is all that is new.
LEMMA EmitKeepsCode ==
    ASSUME IInv, NEW ins, WellEncoded(ins), Emit(ins)
    PROVE  \/ starts' = starts /\ code' = code
           \/ /\ starts' = starts \cup {code_count}
              /\ code'[code_count] = ins[1] /\ code'[code_count + 1] = ins[2]
              /\ \A s \in starts : code'[s] = code[s] /\ code'[s + 1] = code[s + 1]
<1>1. CASE Refuse(ins)
  BY <1>1 DEF Refuse
<1>2. CASE Extend(ins)
  <2> PICK n \in 0 .. MaxCode : n = code_count
    BY DEF IInv, TypeOK
  <2>1. Len(ins) \in Nat /\ Len(ins) >= 2 /\ n + Len(ins) <= MaxCode
    BY <1>2 DEF WellEncoded, Extend, Fits
  <2>2. code' = [i \in Slots |-> IF i \in n .. n + Len(ins) - 1 THEN ins[i - n + 1]
                                                                ELSE code[i]]
    BY <1>2 DEF Extend
  <2>3. \A s \in starts : s \in 0 .. n - 1 /\ s + 1 \in 0 .. n - 1
    BY DEF IInv, Tiled
  <2>4. \A s \in starts : code'[s] = code[s] /\ code'[s + 1] = code[s + 1]
    BY <2>1, <2>2, <2>3 DEF Slots
  <2>5. code'[n] = ins[1] /\ code'[n + 1] = ins[2]
    BY <2>1, <2>2 DEF Slots
  <2> QED
    BY <1>2, <2>4, <2>5 DEF Extend
<1> QED
  BY <1>1, <1>2 DEF Emit

LEMMA EmitCounts ==
    ASSUME IInv, LocalsCounted, NEW ins, WellEncoded(ins), Emit(ins),
           local_count' \in Nat, local_count' >= local_count,
           ins[1] = STORE_LOCAL => ins[2] < local_count'
    PROVE  LocalsCounted'
<1>1. \A s \in starts : s + 1 \in Slots /\ code[s + 1] \in Int
  <2> TAKE s \in starts
  <2>1. s + WidthAt(s) \in starts \cup {code_count} /\ WidthAt(s) >= 2 /\ WidthAt(s) \in Nat
    BY DEF IInv, Tiled
  <2>2. s \in 0 .. code_count - 1 /\ code_count \in 0 .. MaxCode
    BY DEF IInv, Tiled, TypeOK
  <2>3. s + WidthAt(s) <= code_count
    BY <2>1, <2>2 DEF IInv, Tiled
  <2>4. s + 1 \in Slots
    BY <2>1, <2>2, <2>3 DEF Slots
  <2> QED
    BY <2>4 DEF IInv, TypeOK
<1>2. \A s \in starts : code[s] = STORE_LOCAL => code[s + 1] < local_count'
  BY <1>1 DEF IInv, TypeOK, LocalsCounted
<1>3. CASE starts' = starts /\ code' = code
  BY <1>2, <1>3 DEF LocalsCounted
<1>4. CASE /\ starts' = starts \cup {code_count}
           /\ code'[code_count] = ins[1] /\ code'[code_count + 1] = ins[2]
           /\ \A s \in starts : code'[s] = code[s] /\ code'[s + 1] = code[s + 1]
  BY <1>2, <1>4 DEF LocalsCounted
<1> QED
  BY <1>3, <1>4, EmitKeepsCode

LEMMA CountedInv == IInv /\ LocalsCounted /\ [Next]_vars => LocalsCounted'
<1> SUFFICES ASSUME IInv, LocalsCounted, [Next]_vars PROVE LocalsCounted'
  OBVIOUS
<1>1. Operands \subseteq Int /\ LabelIds \subseteq Int /\ local_count \in Nat
  BY DEF IInv, TypeOK
<1>2. /\ LABEL \in TwoWordOps /\ JUMP \in TwoWordOps /\ ReturnOps \subseteq TwoWordOps
      /\ {CONST_INT, LOAD_LOCAL, STORE_LOCAL, JUMP_IF_FALSE} \subseteq ThreeWordOps
  BY DEF TwoWordOps, ThreeWordOps
<1>3. /\ STORE_LOCAL \notin TwoWordOps \cup BinaryOps \cup {CALL}
      /\ STORE_LOCAL \notin {CONST_INT, LOAD_LOCAL, JUMP_IF_FALSE}
  BY OpcodeValues DEF TwoWordOps, BinaryOps, ReturnOps, STORE_LOCAL, CALL, CONST_INT,
     LOAD_LOCAL, JUMP_IF_FALSE, LABEL, JUMP, ADD_INT, GE_INT, RETURN_LOCAL, RETURN_CONST_INT
<1>4. ASSUME NEW op \in TwoWordOps, NEW a \in Int, Emit2(op, a) PROVE LocalsCounted'
  <2>1. op # STORE_LOCAL
    BY <1>3
  <2> QED
    BY <1>1, <1>4, <2>1, Emit2WellEncoded, EmitCounts DEF Emit2
<1>5. ASSUME NEW op \in {CONST_INT, LOAD_LOCAL, JUMP_IF_FALSE}, NEW a \in Int, NEW b \in Int,
             Emit3(op, a, b)
      PROVE  LocalsCounted'
  <2>1. op # STORE_LOCAL /\ op \in ThreeWordOps
    BY <1>2, <1>3
  <2> QED
    BY <1>1, <1>5, <2>1, Emit3WellEncoded, EmitCounts DEF Emit3
<1>6. ASSUME NEW local \in Operands, NEW src \in Operands, EmitStoreLocal(local, src)
      PROVE  LocalsCounted'
  <2>1. local_count' \in Nat /\ local_count' >= local_count /\ local < local_count'
    BY <1>1, <1>6 DEF EmitStoreLocal
  <2> QED
    BY <1>1, <1>2, <1>6, <2>1, Emit3WellEncoded, EmitCounts DEF EmitStoreLocal
<1>7. ASSUME NEW op \in BinaryOps, NEW a \in Operands, NEW b \in Operands,
             NEW c \in Operands, EmitBinaryInt(op, a, b, c)
      PROVE  LocalsCounted'
  <2>1. op # STORE_LOCAL
    BY <1>3
  <2> QED
    BY <1>1, <1>7, <2>1, Emit4WellEncoded, EmitCounts DEF EmitBinaryInt
<1>8. ASSUME NEW dst \in Operands, NEW f \in Operands, NEW args \in ArgLists,
             EmitCall(dst, f, args)
      PROVE  LocalsCounted'
  <2>1. args \in Seq(Int)
    BY <1>1, SeqMonotonic
  <2> DEFINE ins == <<CALL, dst, f, Len(args)>> \o args
  <2>2. ins[1] # STORE_LOCAL
    <3>1. ins[1] = CALL
      BY <1>1, <2>1
    <3> QED
      BY <1>3, <3>1
  <2>3. WellEncoded(ins)
    BY <1>1, <2>1, CallWellEncoded
  <2>4. Emit(ins) /\ local_count' = local_count
    BY <1>8 DEF EmitCall
  <2> HIDE DEF ins
  <2> QED
    BY <1>1, <2>2, <2>3, <2>4, EmitCounts
<1>9. CASE PrepareCached \/ PrepareStart \/ Scan \/ UNCHANGED vars
  <2>1. UNCHANGED <<code, starts, local_count>>
    BY <1>9 DEF PrepareCached, PrepareStart, Scan, ScanReject, ScanLabel, ScanOther, ScanDone,
                vars, codeVars
  <2> QED
    BY <2>1 DEF LocalsCounted
<1> QED
  BY <1>1, <1>2, <1>4, <1>5, <1>6, <1>7, <1>8, <1>9 DEF Next, EmitAny

\* No store in the code is to a local that local_count does not count, whether
\* or not the stores that raised it found room.
THEOREM StoresAreCounted == Spec => []LocalsCounted
<1>1. Init => LocalsCounted
  BY DEF Init, LocalsCounted
<1> QED
  BY <1>1, CountedInv, Inductive, PTL DEF Spec
=============================================================================
