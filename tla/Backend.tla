------------------------------- MODULE Backend -------------------------------
(***************************************************************************)
(* Code generation and the register machine together: MIR goes in, the     *)
(* machine runs what codegen.c makes of it, and the whole behaves as the   *)
(* MIR says (module MirMachine), call for call and turn for turn.          *)
(***************************************************************************)
EXTENDS VM, Sequences

CONSTANTS MirPrograms, MaxFunctions

Gen == INSTANCE Codegen

\* The programs that come out of the code generator.  The MIR each was made
\* from is kept beside it, for the refinement mapping only.
Compile(m) ==
    LET p == Gen!codegen_program(m) IN
    [functions |-> p.functions, entry |-> p.entry, mir |-> m]

Compiled == {Compile(m) : m \in {n \in MirPrograms : Gen!Compiles(n)}}
-----------------------------------------------------------------------------
(* What the code generator is given: functions as the lowering leaves them. *)
(* A temporary or label is numbered by a counter that rises with every     *)
(* instruction that needs one, and a function has at most                  *)
(* BEET_MIR_MAX_INSTRS = BEET_VM_MAX_REGS < BEET_BC_MAX_CODE of them and   *)
(* BEET_MIR_MAX_LOCALS = BEET_VM_MAX_LOCALS locals, parameters first.      *)

\* What an instruction carries besides names.
Lowered(ins) ==
    CASE ins.op = "const_int" -> ins.dst \in Regs /\ ins.value \in Word
      [] ins.op \in {"bind_local", "store_local", "load_local", "return_temp"} ->
            ins.dst \in Regs
      [] ins.op = "call" -> ins.dst \in Regs /\ ins.args \in Seq(Regs)
      [] ins.op \in DOMAIN Gen!BinaryOpcode ->
            ins.dst \in Regs /\ ins.lhs \in Regs /\ ins.rhs \in Regs
      [] ins.op = "label" -> ins.value \in 0 .. MaxCode - 1
      [] ins.op = "jump" -> ins.value \in Int
      [] ins.op = "jump_if_false" -> ins.dst \in Regs /\ ins.value \in Int
      [] ins.op = "return_local" -> TRUE
      [] ins.op = "return_const_int" -> ins.value \in Word
      [] OTHER -> FALSE

LoweredFunction(f) ==
    /\ f.locals \in Seq({f.locals[k] : k \in DOMAIN f.locals}) /\ Len(f.locals) <= MaxLocals
    /\ f.param_count \in 0 .. Len(f.locals)
    /\ f.instrs \in Seq({f.instrs[k] : k \in DOMAIN f.instrs})
    /\ \A k \in DOMAIN f.instrs : Lowered(f.instrs[k])

ASSUME BackendAssumption ==
    /\ Programs = Compiled /\ MaxFunctions \in Nat
    /\ \A m \in MirPrograms :
          /\ m \in Seq({m[i] : i \in DOMAIN m})
          /\ \A i \in DOMAIN m : LoweredFunction(m[i])
-----------------------------------------------------------------------------
(* The refinement mapping.  A frame's offset is seen as the position of the *)
(* instruction that begins there, its slots as the names they stand for.   *)

\* The position of the instruction that begins at offset pc of code g.
Position(g, pc) == 1 + Cardinality({s \in g.starts : s < pc})

\* The activation that a frame of the machine running program p stands for.
Activation(p, fr) ==
    LET f == p.mir[fr.function_index + 1] IN
    [function |-> f,
     at       |-> Position(p.functions[fr.function_index], fr.pc),
     temps    |-> fr.regs,
     locals   |-> [n \in {f.locals[k] : k \in DOMAIN f.locals} |->
                     fr.locals[Gen!find_local_index(f, n)]],
     dest     |-> fr.return_dest]

Stack == SubSeq([i \in 1 .. MaxFrames |-> Activation(program, frames[i - 1])], 1, frame_count)

Mir == INSTANCE MirMachine WITH
    MirPrograms <- {p.mir : p \in Programs},
    Temps       <- Regs,
    MaxDepth    <- MaxFrames,
    mir         <- program.mir,
    stack       <- Stack

\* What the machine does with generated code is what the MIR means: the same
\* values in the same variables after the same instructions, the same calls
\* and results, and an end whenever the MIR comes to one.  Slots, operand
\* order, callee indexes, argument order, label offsets and widths must all
\* agree between codegen.c and interpreter.c for this to hold.
ImplementsMir == Mir!Spec
=============================================================================
