------------------------------ MODULE Bytecode ------------------------------
(***************************************************************************)
(* The bytecode of one function while it is being built (runtime/vm/src/   *)
(* bytecode.c): a fixed array of MaxCode words that the emit operations    *)
(* append to, and a table from label ids to code offsets that              *)
(* beet_bytecode_prepare_jump_targets computes once, caches, and drops     *)
(* whenever the code grows.                                                *)
(*                                                                         *)
(* An emit is one action.  The scan that fills the table is one action for *)
(* its preamble and one for each instruction it visits, as the C loop runs;*)
(* while it runs nothing else does (phase = "scan").                       *)
(*                                                                         *)
(* `starts` is an auxiliary variable: the offsets at which an emit began   *)
(* an instruction.  No guard reads it; the properties compare what the     *)
(* scan finds by decoding words with what was really emitted.              *)
(***************************************************************************)
EXTENDS Opcodes, Sequences

CONSTANTS MaxCode,     \* BEET_BC_MAX_CODE, the words of a function
          Operands,    \* the temps, locals, constants that callers pass
          LabelIds,    \* the label ids that callers pass
          ArgLists     \* the argument temps of the calls that callers emit

ASSUME BytecodeAssumption ==
    /\ MaxCode \in Nat \ {0}
    /\ Operands \subseteq Nat
    /\ LabelIds \subseteq Int
    /\ ArgLists \subseteq Seq(Operands)

VARIABLES code, code_count,      \* the words, and how many are in use
          local_count,           \* one more than the largest local stored to
          jump_target_pcs,       \* label id -> offset after the label
          jump_target_count,     \* one more than the largest label id
          jump_targets_ready,    \* the table describes the present code
          phase,                 \* "idle", or "scan" inside prepare
          pc, max_label_id,      \* the locals of prepare
          returned,              \* what the last call returned
          starts                 \* auxiliary: where instructions begin

codeVars  == <<code, code_count, local_count, starts>>
tableVars == <<jump_target_pcs, jump_target_count>>
scanVars  == <<phase, pc, max_label_id>>
vars == <<codeVars, tableVars, jump_targets_ready, scanVars, returned>>

Slots == 0 .. MaxCode - 1
NoTarget == -1        \* SIZE_MAX, an offset no instruction has

Init ==
    /\ code = [i \in Slots |-> 0]
    /\ code_count = 0
    /\ local_count = 0
    /\ jump_target_pcs = [l \in Slots |-> 0]
    /\ jump_target_count = 0
    /\ jump_targets_ready = FALSE
    /\ phase = "idle"
    /\ pc = 0
    /\ max_label_id = 0
    /\ returned = TRUE
    /\ starts = {}
-----------------------------------------------------------------------------
(* Emitting.  `ins` is the sequence of words of one instruction.           *)

\* Mutant: one word too many.
Fits_OneMore(ins) == code_count + Len(ins) <= MaxCode + 1

Fits(ins) == code_count + Len(ins) <= MaxCode

\* Mutant: the table is still taken as ready when the code has grown.
Extend_KeepsTable(ins) ==
    /\ Fits(ins)
    /\ code' = [i \in Slots |-> IF i \in code_count .. code_count + Len(ins) - 1
                                THEN ins[i - code_count + 1]
                                ELSE code[i]]
    /\ code_count' = code_count + Len(ins)
    /\ starts' = starts \cup {code_count}
    /\ returned' = TRUE
    /\ UNCHANGED jump_targets_ready

Extend(ins) ==
    /\ Fits(ins)
    /\ code' = [i \in Slots |-> IF i \in code_count .. code_count + Len(ins) - 1
                                THEN ins[i - code_count + 1]
                                ELSE code[i]]
    /\ code_count' = code_count + Len(ins)
    /\ starts' = starts \cup {code_count}
    /\ jump_targets_ready' = FALSE
    /\ returned' = TRUE

Refuse(ins) ==
    /\ ~Fits(ins)
    /\ returned' = FALSE
    /\ UNCHANGED <<code, code_count, starts, jump_targets_ready>>

Emit(ins) ==
    /\ phase = "idle"
    /\ Extend(ins) \/ Refuse(ins)
    /\ UNCHANGED <<tableVars, scanVars>>

Emit2(op, a) == Emit(<<op, a>>) /\ UNCHANGED local_count

Emit3(op, a, b) == Emit(<<op, a, b>>) /\ UNCHANGED local_count

\* Mutant: the count is the largest index, not one more.
EmitStoreLocal_Largest(local, src) ==
    /\ Emit(<<STORE_LOCAL, local, src>>)
    /\ local_count' = IF local > local_count THEN local ELSE local_count

\* The count of locals is raised before the room for the store is checked.
EmitStoreLocal(local, src) ==
    /\ Emit(<<STORE_LOCAL, local, src>>)
    /\ local_count' = IF local + 1 > local_count THEN local + 1 ELSE local_count

EmitBinaryInt(op, dst, lhs, rhs) ==
    /\ op \in BinaryOps
    /\ Emit(<<op, dst, lhs, rhs>>)
    /\ UNCHANGED local_count

EmitCall(dst, function, args) ==
    /\ Emit(<<CALL, dst, function, Len(args)>> \o args)
    /\ UNCHANGED local_count
-----------------------------------------------------------------------------
(* Preparing the jump targets.                                             *)

\* Mutant: the arguments of a call are not counted.
InstrWidth_NoArguments(p) ==
    CASE p >= code_count -> 0
      [] p < code_count /\ code[p] = CALL /\ p + 4 > code_count -> 0
      [] OTHER -> Width(code[p], 0)

\* What the scan takes the instruction at offset p to occupy: 0 is a refusal.
InstrWidth(p) ==
    CASE p >= code_count -> 0
      [] p < code_count /\ code[p] = CALL /\ p + 4 > code_count -> 0
      [] OTHER -> Width(code[p], IF code[p] = CALL THEN code[p + 3] ELSE 0)

PrepareCached ==
    /\ phase = "idle"
    /\ jump_targets_ready
    /\ returned' = TRUE
    /\ UNCHANGED <<codeVars, tableVars, jump_targets_ready, scanVars>>

PrepareStart ==
    /\ phase = "idle"
    /\ ~jump_targets_ready
    /\ jump_target_pcs' = [l \in Slots |-> NoTarget]
    /\ max_label_id' = 0
    /\ pc' = 0
    /\ phase' = "scan"
    /\ UNCHANGED <<codeVars, jump_target_count, jump_targets_ready, returned>>

Decodable == InstrWidth(pc) # 0 /\ pc + InstrWidth(pc) <= code_count

\* Mutant: a label that is used twice is accepted.
LabelFree_Again(l) == l \in Slots

LabelFree(l) == l \in Slots /\ jump_target_pcs[l] = NoTarget

Acceptable == Decodable /\ (code[pc] = LABEL => LabelFree(code[pc + 1]))

ScanReject ==
    /\ phase = "scan"
    /\ pc < code_count
    /\ ~Acceptable
    /\ phase' = "idle"
    /\ returned' = FALSE
    /\ UNCHANGED <<codeVars, tableVars, jump_targets_ready, pc, max_label_id>>

ScanLabel ==
    /\ phase = "scan"
    /\ pc < code_count
    /\ Acceptable
    /\ code[pc] = LABEL
    /\ LET l == code[pc + 1] IN
       /\ jump_target_pcs' = [jump_target_pcs EXCEPT ![l] = pc + InstrWidth(pc)]
       /\ max_label_id' = IF l + 1 > max_label_id THEN l + 1 ELSE max_label_id
    /\ pc' = pc + InstrWidth(pc)
    /\ UNCHANGED <<codeVars, jump_target_count, jump_targets_ready, phase,
                   returned>>

\* Mutant: the scan does not move past the instruction.
ScanOther_Stuck ==
    /\ phase = "scan"
    /\ pc < code_count
    /\ Acceptable
    /\ code[pc] # LABEL
    /\ UNCHANGED vars

ScanOther ==
    /\ phase = "scan"
    /\ pc < code_count
    /\ Acceptable
    /\ code[pc] # LABEL
    /\ pc' = pc + InstrWidth(pc)
    /\ UNCHANGED <<codeVars, tableVars, jump_targets_ready, phase, max_label_id,
                   returned>>

ScanDone ==
    /\ phase = "scan"
    /\ pc >= code_count
    /\ jump_target_count' = max_label_id
    /\ jump_targets_ready' = TRUE
    /\ phase' = "idle"
    /\ returned' = TRUE
    /\ UNCHANGED <<codeVars, jump_target_pcs, pc, max_label_id>>

Scan == ScanReject \/ ScanLabel \/ ScanOther \/ ScanDone
-----------------------------------------------------------------------------
EmitAny ==
    \/ \E l \in LabelIds : Emit2(LABEL, l) \/ Emit2(JUMP, l)
    \/ \E op \in ReturnOps, a \in Operands : Emit2(op, a)
    \/ \E a, b \in Operands : Emit3(CONST_INT, a, b) \/ Emit3(LOAD_LOCAL, a, b)
    \/ \E a \in Operands, l \in LabelIds : Emit3(JUMP_IF_FALSE, a, l)
    \/ \E local, src \in Operands : EmitStoreLocal(local, src)
    \/ \E op \in BinaryOps, a, b, c \in Operands : EmitBinaryInt(op, a, b, c)
    \/ \E dst, f \in Operands, args \in ArgLists : EmitCall(dst, f, args)

Next == EmitAny \/ PrepareCached \/ PrepareStart \/ Scan

\* The loop of prepare runs to its end once it is entered; whether the caller
\* emits or prepares anything is up to the caller.
Fairness == WF_vars(Scan)

Spec == Init /\ [][Next]_vars /\ Fairness
-----------------------------------------------------------------------------
(* Properties.                                                             *)

TypeOK ==
    /\ code \in [Slots -> Int]
    /\ code_count \in 0 .. MaxCode
    /\ local_count \in Nat
    /\ jump_target_pcs \in [Slots -> {NoTarget} \cup 0 .. MaxCode]
    /\ jump_target_count \in 0 .. MaxCode
    /\ jump_targets_ready \in BOOLEAN
    /\ phase \in {"idle", "scan"}
    /\ pc \in 0 .. MaxCode
    /\ max_label_id \in 0 .. MaxCode
    /\ returned \in BOOLEAN
    /\ starts \subseteq Slots

\* The offsets below p at which a label was emitted.
LabelsBelow(p) == {s \in starts : s < p /\ code[s] = LABEL}

\* The table says, for the code below p, exactly where each label is: every
\* label that was emitted has its own entry and every entry is such a label.
TableDescribes(p) ==
    /\ \A s \in LabelsBelow(p) :
          /\ code[s + 1] \in Slots
          /\ jump_target_pcs[code[s + 1]] = s + 2
    /\ \A l \in Slots : jump_target_pcs[l] # NoTarget =>
          \E s \in LabelsBelow(p) : code[s + 1] = l

\* The cached table is never stale: whenever it is marked ready it gives every
\* label of the whole code its offset, no label has two offsets, and a label
\* that was not emitted has none.  The interpreter jumps through it unchecked.
TargetsFresh ==
    jump_targets_ready =>
       /\ TableDescribes(code_count)
       /\ \A s \in LabelsBelow(code_count) : code[s + 1] < jump_target_count
       /\ jump_target_count = 0
          \/ \E s \in LabelsBelow(code_count) : code[s + 1] = jump_target_count - 1

\* The scan decodes what the emits encoded: it only ever stands at the first
\* word of an instruction or at the end, never in the middle of one, whatever
\* the argument counts of the calls before it, so it never finds an opcode or
\* a width it cannot take.
ScanInStep ==
    phase = "scan" =>
       /\ pc \in starts \cup {code_count}
       /\ pc < code_count => Decodable

\* Labels are usable if each id is in range and used once.
LabelsUsable ==
    /\ \A s \in LabelsBelow(code_count) : code[s + 1] \in Slots
    /\ \A s, t \in LabelsBelow(code_count) : code[s + 1] = code[t + 1] => s = t

\* Preparing refuses exactly the functions whose labels are ambiguous or out of
\* range: a scan that ends reports success if and only if they are usable.
PrepareVerdict ==
    [][phase = "scan" /\ phase' = "idle" => (returned' <=> LabelsUsable)]_vars

\* Every store in the code is to a local below local_count, also when the
\* store was refused for want of room after the count was raised.
LocalsCounted ==
    \A s \in starts : code[s] = STORE_LOCAL => code[s + 1] < local_count

\* A prepare that was entered returns: the scan always moves forward.
PrepareReturns == phase = "scan" ~> phase = "idle"
=============================================================================
