--------------------------------- MODULE VM ---------------------------------
(***************************************************************************)
(* The register machine that runs a bytecode program (runtime/vm/src/      *)
(* interpreter.c, beet_vm_execute_program): a stack of at most MaxFrames   *)
(* frames, each with its own registers, locals, program counter and the    *)
(* register of its caller that receives its result.                        *)
(*                                                                         *)
(* One action is one turn of the interpreter's loop.  A function is a      *)
(* record of its words (`code`, indexed from 0 as in C), how many are in   *)
(* use (`count`), its parameters, and `starts`, where its instructions     *)
(* begin.  The loop never reads `starts`: it stands for the scan of        *)
(* beet_bytecode_prepare_jump_targets, whose verdict and table are the     *)
(* operators Preparable and Target below (module Bytecode shows that the   *)
(* scan computes them).                                                    *)
(***************************************************************************)
EXTENDS Opcodes, Ints, FiniteSets

CONSTANTS Programs,    \* the programs to run
          MaxRegs,     \* BEET_VM_MAX_REGS
          MaxLocals,   \* BEET_VM_MAX_LOCALS
          MaxFrames,   \* BEET_VM_MAX_CALL_FRAMES
          MaxCode      \* BEET_BC_MAX_CODE, the label ids a table has room for

VARIABLES program,      \* the program, which does not change
          frames,       \* the array of frames, stale above frame_count
          frame_count,
          status,       \* "ready", "running", "returned", "failed", "trapped"
          result        \* *out_result

vars == <<program, frames, frame_count, status, result>>

Regs   == 0 .. MaxRegs - 1
Locals == 0 .. MaxLocals - 1

Compute(op, x, y) ==
    CASE op = ADD_INT -> Wrap(x + y)
      [] op = SUB_INT -> Wrap(x - y)
      [] op = MUL_INT -> Wrap(x * y)
      [] op = DIV_INT -> Wrap(Quotient(x, y))
      [] op = EQ_INT  -> Bool(x = y)
      [] op = NE_INT  -> Bool(x # y)
      [] op = LT_INT  -> Bool(x < y)
      [] op = LE_INT  -> Bool(x <= y)
      [] op = GT_INT  -> Bool(x > y)
      [] op = GE_INT  -> Bool(x >= y)
-----------------------------------------------------------------------------
(* Functions, as beet_bytecode_prepare_jump_targets leaves them.           *)

\* The words taken by the instruction of f at offset s.
WidthAt(f, s) == Width(f.code[s], IF f.code[s] = CALL THEN f.code[s + 3] ELSE 0)

Labels(f) == {s \in f.starts : f.code[s] = LABEL}

Preparable(f) ==
    /\ \A s \in Labels(f) : f.code[s + 1] \in 0 .. MaxCode - 1
    /\ \A s, t \in Labels(f) : f.code[s + 1] = f.code[t + 1] => s = t

HasTarget(f, l) == \E s \in Labels(f) : f.code[s + 1] = l
\* Mutant: a jump goes to the word behind the opcode of its label.
Target_InLabel(f, l) == 1 + CHOOSE s \in Labels(f) : f.code[s + 1] = l

Target(f, l) == 2 + CHOOSE s \in Labels(f) : f.code[s + 1] = l
-----------------------------------------------------------------------------
NewFrame(function_index, return_dest) ==
    [regs           |-> [r \in Regs |-> 0],
     locals         |-> [l \in Locals |-> 0],
     function_index |-> function_index,
     pc             |-> 0,
     return_dest    |-> return_dest]

FunctionIndexes == DOMAIN program.functions

Init ==
    /\ program \in Programs
    /\ frames = [i \in 0 .. MaxFrames - 1 |-> NewFrame(0, 0)]
    /\ frame_count = 0
    /\ status = "ready"
    /\ result = 0

Stop(s) == status' = s /\ UNCHANGED <<program, frames, frame_count, result>>

Startable ==
    /\ program.entry \in FunctionIndexes
    /\ \A i \in FunctionIndexes : Preparable(program.functions[i])

Start ==
    /\ status = "ready"
    /\ Startable
    /\ frames' = [frames EXCEPT ![0] = NewFrame(program.entry, -1)]
    /\ frame_count' = 1
    /\ status' = "running"
    /\ UNCHANGED <<program, result>>

StartRefused == status = "ready" /\ ~Startable /\ Stop("failed")
-----------------------------------------------------------------------------
top == frame_count - 1
frame == frames[top]
function == program.functions[frame.function_index]

Op == function.code[frame.pc]
Arg(k) == function.code[frame.pc + k]
Reg(k) == frame.regs[Arg(k)]

\* The loop finds an opcode that it knows.
Fetch == status = "running" /\ frame.pc < function.count /\ Op \in Opcodes

\* Control has run off the end of the function: the source did not return.
RanOff == status = "running" /\ ~Fetch /\ Stop("failed")

Advance(f) == frames' = [frames EXCEPT ![top] = f]
KeepRunning == UNCHANGED <<program, frame_count, status, result>>

SetReg(r, value, width) ==
    /\ Advance([frame EXCEPT !.regs[r] = value, !.pc = @ + width])
    /\ KeepRunning

ConstInt  == Fetch /\ Op = CONST_INT  /\ SetReg(Arg(1), Arg(2), 3)
LoadLocal == Fetch /\ Op = LOAD_LOCAL /\ SetReg(Arg(1), frame.locals[Arg(2)], 3)

StoreLocal ==
    /\ Fetch /\ Op = STORE_LOCAL
    /\ Advance([frame EXCEPT !.locals[Arg(1)] = Reg(2), !.pc = @ + 3])
    /\ KeepRunning

Binary ==
    /\ Fetch /\ Op \in BinaryOps
    /\ Op = DIV_INT => Reg(3) # 0
    /\ SetReg(Arg(1), Compute(Op, Reg(2), Reg(3)), 4)

DivideByZero == Fetch /\ Op = DIV_INT /\ Reg(3) = 0 /\ Stop("failed")

\* The one quotient that overflows: some processors trap on it, others yield
\* the wrapped value, which is Binary.
DivideTrap ==
    /\ Fetch /\ Op = DIV_INT
    /\ Reg(2) = MinInt /\ Reg(3) = -1
    /\ Stop("trapped")

\* Mutant: a label is not stepped over.
Label_Stuck ==
    /\ Fetch /\ Op = LABEL
    /\ Advance(frame)
    /\ KeepRunning

Label ==
    /\ Fetch /\ Op = LABEL
    /\ Advance([frame EXCEPT !.pc = @ + 2])
    /\ KeepRunning

Jump ==
    /\ Fetch /\ Op = JUMP
    /\ HasTarget(function, Arg(1))
    /\ Advance([frame EXCEPT !.pc = Target(function, Arg(1))])
    /\ KeepRunning

\* Mutant: a conditional jump that is not taken is stepped over as if it had two
\* words, like the other jump.
JumpIfFalse_TwoWords ==
    /\ Fetch /\ Op = JUMP_IF_FALSE
    /\ Reg(1) = 0 => HasTarget(function, Arg(2))
    /\ Advance([frame EXCEPT !.pc = IF Reg(1) = 0 THEN Target(function, Arg(2))
                                                  ELSE @ + 2])
    /\ KeepRunning

JumpIfFalse ==
    /\ Fetch /\ Op = JUMP_IF_FALSE
    /\ Reg(1) = 0 => HasTarget(function, Arg(2))
    /\ Advance([frame EXCEPT !.pc = IF Reg(1) = 0 THEN Target(function, Arg(2))
                                                  ELSE @ + 3])
    /\ KeepRunning

JumpNowhere ==
    /\ Fetch
    /\ IF Op = JUMP THEN ~HasTarget(function, Arg(1))
                    ELSE Op = JUMP_IF_FALSE /\ Reg(1) = 0 /\ ~HasTarget(function, Arg(2))
    /\ Stop("failed")

\* Mutant: one call more than there are frames.
Callable_OneMore ==
    /\ Arg(2) \in FunctionIndexes
    /\ Arg(3) = program.functions[Arg(2)].param_count
    /\ Arg(3) <= MaxLocals
    /\ frame_count <= MaxFrames

Callable ==
    /\ Arg(2) \in FunctionIndexes
    /\ Arg(3) = program.functions[Arg(2)].param_count
    /\ Arg(3) <= MaxLocals
    /\ frame_count < MaxFrames

\* Mutants: the pushed frame is not cleared; its destination is read from the
\* word that has the callee.
Pushed_Stale(next) ==
    LET argc == Arg(3) IN
    [frames[top + 1] EXCEPT
        !.function_index = Arg(2), !.pc = 0, !.return_dest = Arg(1),
        !.locals = [l \in Locals |-> IF l < argc
                                     THEN frame.regs[function.code[next - argc + l]] ELSE @[l]]]

Pushed_WrongWord(next) ==
    LET argc   == Arg(3)
        arg(i) == frame.regs[function.code[next - argc + i]]
        fresh  == NewFrame(Arg(2), Arg(2))
    IN [fresh EXCEPT !.locals =
           [l \in Locals |-> IF l < argc THEN arg(l) ELSE fresh.locals[l]]]

\* The frame that a call pushes.  The caller's pc is already past the call, at
\* `next`, and the arguments are found by counting back from it.
Pushed(next) ==
    LET argc   == Arg(3)
        arg(i) == frame.regs[function.code[next - argc + i]]
        fresh  == NewFrame(Arg(2), Arg(1))
    IN [fresh EXCEPT !.locals =
           [l \in Locals |-> IF l < argc THEN arg(l) ELSE fresh.locals[l]]]

Call ==
    /\ Fetch /\ Op = CALL
    /\ Callable
    /\ LET next == frame.pc + 4 + Arg(3) IN
       frames' = [frames EXCEPT ![top].pc = next, ![top + 1] = Pushed(next)]
    /\ frame_count' = frame_count + 1
    /\ UNCHANGED <<program, status, result>>

CallRefused == Fetch /\ Op = CALL /\ ~Callable /\ Stop("failed")

ReturnValue ==
    CASE Op = RETURN_LOCAL     -> frame.locals[Arg(1)]
      [] Op = RETURN_TEMP      -> Reg(1)
      [] Op = RETURN_CONST_INT -> Arg(1)

\* Mutant: the result goes to the register that the return names.
Return_OwnRegister ==
    /\ Fetch /\ Op \in ReturnOps
    /\ frame_count > 1
    /\ frames' = [frames EXCEPT ![top - 1].regs[Arg(1)] = ReturnValue]
    /\ frame_count' = frame_count - 1
    /\ UNCHANGED <<program, status, result>>

Return ==
    /\ Fetch /\ Op \in ReturnOps
    /\ frame_count > 1
    /\ frames' = [frames EXCEPT ![top - 1].regs[frame.return_dest] = ReturnValue]
    /\ frame_count' = frame_count - 1
    /\ UNCHANGED <<program, status, result>>

Finish ==
    /\ Fetch /\ Op \in ReturnOps
    /\ frame_count = 1
    /\ frame_count' = 0
    /\ result' = ReturnValue
    /\ status' = "returned"
    /\ UNCHANGED <<program, frames>>

Next ==
    \/ Start \/ StartRefused \/ RanOff
    \/ ConstInt \/ StoreLocal \/ LoadLocal
    \/ Binary \/ DivideByZero \/ DivideTrap
    \/ Label \/ Jump \/ JumpIfFalse \/ JumpNowhere
    \/ Call \/ CallRefused \/ Return \/ Finish

\* The loop takes its next turn as long as it has one.
Spec == Init /\ [][Next]_vars /\ WF_vars(Next)
-----------------------------------------------------------------------------
(* What the machine is given: programs whose functions are made of whole   *)
(* instructions with operands in range, as the code generator makes them.  *)

\* The operands of the instruction at s that name registers, that name locals,
\* and that are values.
RegOperands(f, s) ==
    CASE f.code[s] \in {CONST_INT, LOAD_LOCAL, JUMP_IF_FALSE, RETURN_TEMP} -> {1}
      [] f.code[s] = STORE_LOCAL -> {2}
      [] f.code[s] \in BinaryOps -> {1, 2, 3}
      [] f.code[s] = CALL -> {1} \cup 4 .. 3 + f.code[s + 3]
      [] OTHER -> {}

LocalOperands(f, s) ==
    CASE f.code[s] \in {STORE_LOCAL, RETURN_LOCAL} -> {1}
      [] f.code[s] = LOAD_LOCAL -> {2}
      [] OTHER -> {}

Immediates(f, s) ==
    CASE f.code[s] = CONST_INT -> {2}
      [] f.code[s] = RETURN_CONST_INT -> {1}
      [] OTHER -> {}

InBounds(f, s) ==
    /\ s + WidthAt(f, s) <= f.count
    /\ \A k \in RegOperands(f, s) : f.code[s + k] \in Regs
    /\ \A k \in LocalOperands(f, s) : f.code[s + k] \in Locals
    /\ \A k \in Immediates(f, s) : f.code[s + k] \in Word

\* Where control may stand in f.
Boundary(f) == f.starts \cup {f.count}

WellFormed(f) ==
    /\ f.count \in Nat
    /\ f.code \in [0 .. f.count - 1 -> Int]
    /\ f.param_count \in Nat
    /\ f.starts \subseteq 0 .. f.count - 1
    /\ 0 \in Boundary(f)
    /\ \A s \in f.starts :
          /\ f.code[s] \in Opcodes
          /\ f.code[s] = CALL => s + 3 < f.count /\ f.code[s + 3] \in Nat
          /\ s + WidthAt(f, s) \in Boundary(f)
          /\ InBounds(f, s)

ASSUME VMAssumption ==
    /\ MaxRegs \in Nat \ {0} /\ MaxLocals \in Nat \ {0}
    /\ MaxFrames \in Nat \ {0} /\ MaxCode \in Nat
    /\ MinInt \in Int /\ MinInt < -1

ASSUME ProgramsAssumption ==
    \A p \in Programs :
        /\ DOMAIN p.functions \subseteq Nat
        /\ \A i \in DOMAIN p.functions : WellFormed(p.functions[i])
-----------------------------------------------------------------------------
(* Properties.                                                             *)

Frame == [regs : [Regs -> Word], locals : [Locals -> Word],
          function_index : Int, pc : Nat, return_dest : Int]

TypeOK ==
    /\ program \in Programs
    /\ frames \in [0 .. MaxFrames - 1 -> Frame]
    /\ frame_count \in 0 .. MaxFrames
    /\ status \in {"ready", "running", "returned", "failed", "trapped"}
    /\ result \in Word

Live == 0 .. frame_count - 1
CodeOf(i) == program.functions[frames[i].function_index]

\* Control stands at an instruction or at the end of its function in every
\* active frame, whatever calls and jumps led there, never inside one.
ControlInStep ==
    \A i \in Live :
        /\ frames[i].function_index \in FunctionIndexes
        /\ frames[i].pc \in Boundary(CodeOf(i))

\* Offset p of `caller` is just behind a call of that callee for that register.
ReturnPoint(caller, p, callee, dest) ==
    \E s \in caller.starts :
        /\ caller.code[s] = CALL
        /\ s + WidthAt(caller, s) = p
        /\ caller.code[s + 1] = dest
        /\ caller.code[s + 2] = callee

\* Every frame but the first was pushed by the call just behind its caller's
\* pc: same callee, and the register that will receive the result is the one
\* that call names.  A return never writes to a register another call chose.
Linked ==
    \A i \in 1 .. frame_count - 1 :
        ReturnPoint(CodeOf(i - 1), frames[i - 1].pc,
                    frames[i].function_index, frames[i].return_dest)

\* No turn of the loop reads or writes outside the code, the registers or the
\* locals: the machine checks none of these indexes when it uses them.
AccessesInBounds ==
    Fetch =>
       /\ InBounds(function, frame.pc)
       /\ Op \in ReturnOps /\ frame_count > 1 => frame.return_dest \in Regs

\* Frames below the running one are not touched, except that a return gives
\* the caller the callee's value in the one register its call named.
CallersPreserved ==
    [][status = "running" =>
       \A i \in 0 .. frame_count - 2 :
           IF i < frame_count' - 1
           THEN frames'[i] = frames[i]
           ELSE frames'[i] = [frames[i] EXCEPT !.regs =
                    [r \in Regs |-> IF r = frame.return_dest THEN ReturnValue
                                                             ELSE frames[i].regs[r]]]]_vars

\* A callee starts at its first instruction and sees its arguments in its
\* first locals, in order, and nothing else: no value left in its frame by an
\* earlier call.
CalleeStartsClean ==
    [][frame_count' > frame_count /\ frame_count > 0 =>
       LET argc == program.functions[Arg(2)].param_count IN
       frames'[frame_count] =
           [NewFrame(Arg(2), Arg(1)) EXCEPT !.locals =
               [l \in Locals |-> IF l < argc THEN Reg(4 + l) ELSE 0]]]_vars

\* A program without backward jumps stops, also when it calls itself without
\* end: the stack of frames is bounded.
JumpsForward ==
    \A i \in FunctionIndexes : LET f == program.functions[i] IN
        \A s \in f.starts :
            LET l == f.code[s + (IF f.code[s] = JUMP THEN 1 ELSE 2)] IN
            f.code[s] \in {JUMP, JUMP_IF_FALSE} /\ HasTarget(f, l) => Target(f, l) > s

Halts == JumpsForward ~> status \notin {"ready", "running"}
=============================================================================
