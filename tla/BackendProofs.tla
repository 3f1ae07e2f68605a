---------------------------- MODULE BackendProofs ----------------------------
(***************************************************************************)
(* What holds of code generation and the register machine together, for    *)
(* every MIR program that the lowering leaves: the code generator gives    *)
(* the machine only well-formed functions, and the machine that runs them  *)
(* takes only steps that the MIR takes (module MirMachine).  First what    *)
(* holds of the machine alone, for every set of well-formed programs.      *)
(*                                                                         *)
(* The argument goes from the words of one instruction (Shape) to the      *)
(* layout of a function (Layout, by induction over the pieces of code),    *)
(* from there to what the machine fetches (Decode), and then turn by turn: *)
(* the lemma XSeen says which step of the MIR the turn X is.               *)
(***************************************************************************)
EXTENDS Backend, FiniteSetTheorems, SequenceTheorems, WellFoundedInduction, TLAPS

-----------------------------------------------------------------------------
(* The register machine, for every number of registers, locals and frames  *)
(* and every width of int.                                                 *)

\* A frame is running exactly while the loop runs.
CountMatchesStatus ==
    /\ status = "ready" => frame_count = 0
    /\ status = "running" => frame_count > 0

IInv == TypeOK /\ CountMatchesStatus /\ ControlInStep /\ Linked
-----------------------------------------------------------------------------
(* The instruction set.                                                    *)

\* How many words the opcodes of each class take.
LEMMA WidthCases ==
    /\ \A op \in TwoWordOps : op \in Opcodes /\ op # CALL /\ \A n : Width(op, n) = 2
    /\ \A op \in ThreeWordOps : op \in Opcodes /\ op # CALL /\ \A n : Width(op, n) = 3
    /\ \A op \in BinaryOps : op \in Opcodes /\ op # CALL /\ \A n : Width(op, n) = 4
    /\ CALL \in Opcodes /\ \A n : Width(CALL, n) = 4 + n
BY DEF Opcodes, LABEL, CALL, TwoWordOps, ThreeWordOps, BinaryOps, ReturnOps,
       RETURN_LOCAL, RETURN_CONST_INT, JUMP, Width, CONST_INT, JUMP_IF_FALSE,
       STORE_LOCAL, LOAD_LOCAL, ADD_INT, GE_INT

\* Which opcode is in which class.
LEMMA OpcodeClasses ==
    /\ TwoWordOps = {RETURN_LOCAL, RETURN_TEMP, RETURN_CONST_INT, LABEL, JUMP}
    /\ ReturnOps = {RETURN_LOCAL, RETURN_TEMP, RETURN_CONST_INT}
    /\ BinaryOps = {ADD_INT, SUB_INT, MUL_INT, DIV_INT, EQ_INT, NE_INT, LT_INT,
                    LE_INT, GT_INT, GE_INT}
    /\ Opcodes = TwoWordOps \cup ThreeWordOps \cup BinaryOps \cup {CALL}
BY DEF Opcodes, TwoWordOps, ThreeWordOps, BinaryOps, ReturnOps, CONST_INT, STORE_LOCAL,
       LOAD_LOCAL, CALL, ADD_INT, SUB_INT, MUL_INT, DIV_INT, EQ_INT, NE_INT, LT_INT,
       LE_INT, GT_INT, GE_INT, RETURN_LOCAL, RETURN_TEMP, RETURN_CONST_INT, LABEL,
       JUMP, JUMP_IF_FALSE
-----------------------------------------------------------------------------
(* Arithmetic.                                                             *)

LEMMA WordFacts ==
    /\ MinInt \in Int /\ MaxInt \in Int /\ MinInt < -1 /\ MaxInt > 0
    /\ 0 \in Word /\ 1 \in Word
    /\ Word \subseteq Int
BY VMAssumption DEF Word, MaxInt

LEMMA WrapInWord == ASSUME NEW x \in Int PROVE Wrap(x) \in Word
<1> DEFINE m == MaxInt - MinInt + 1
<1>1. m \in Nat /\ m > 0
  BY WordFacts
<1>2. x - MinInt \in Int
  BY WordFacts
<1>3. (x - MinInt) % m \in 0 .. m - 1
  <2> HIDE DEF m
  <2> QED
    BY <1>1, <1>2
<1> QED
  BY <1>3, WordFacts DEF Wrap, Word

LEMMA ComputeInWord ==
    ASSUME NEW op \in BinaryOps, NEW x \in Word, NEW y \in Word,
           op = DIV_INT => y # 0
    PROVE  Compute(op, x, y) \in Word
<1>1. x \in Int /\ y \in Int
  BY WordFacts
<1>2. Wrap(x + y) \in Word /\ Wrap(x - y) \in Word /\ Wrap(x * y) \in Word
  BY <1>1, WrapInWord
<1>3. op = DIV_INT => Wrap(Quotient(x, y)) \in Word
  <2> SUFFICES ASSUME op = DIV_INT
               PROVE  Quotient(x, y) \in Int
    BY WrapInWord
  <2>1. Magnitude(x) \in Int /\ Magnitude(y) \in Nat /\ Magnitude(y) > 0
    BY <1>1 DEF Magnitude
  <2>2. Magnitude(x) \div Magnitude(y) \in Int
    BY <2>1
  <2> QED
    BY <2>2 DEF Quotient
<1>4. \A b : Bool(b) \in Word
  BY WordFacts DEF Bool
<1>5. op \in {ADD_INT, SUB_INT, MUL_INT, DIV_INT, EQ_INT, NE_INT, LT_INT, LE_INT,
              GT_INT, GE_INT}
  BY DEF BinaryOps, ADD_INT, SUB_INT, MUL_INT, DIV_INT, EQ_INT, NE_INT, LT_INT,
         LE_INT, GT_INT, GE_INT
<1> QED
  BY <1>2, <1>3, <1>4, <1>5 DEF Compute, ADD_INT, SUB_INT, MUL_INT, DIV_INT, EQ_INT,
     NE_INT, LT_INT, LE_INT, GT_INT, GE_INT
-----------------------------------------------------------------------------
(* The running frame.                                                      *)

LEMMA InitInv == Init => IInv
<1> SUFFICES ASSUME Init PROVE IInv
  OBVIOUS
<1>1. NewFrame(0, 0) \in Frame
  BY WordFacts DEF NewFrame, Frame
<1> QED
  BY <1>1, WordFacts, VMAssumption
     DEF Init, IInv, TypeOK, CountMatchesStatus, ControlInStep, Linked, Live

\* What an instruction that is fetched can rely on.
LEMMA Fetched ==
    ASSUME IInv, Fetch
    PROVE  /\ top \in 0 .. MaxFrames - 1 /\ frame_count = top + 1
           /\ frame \in Frame
           /\ frame.function_index \in FunctionIndexes
           /\ WellFormed(function)
           /\ frame.pc \in function.starts
           /\ Op \in Opcodes
           /\ InBounds(function, frame.pc)
           /\ frame.pc + WidthAt(function, frame.pc) \in Boundary(function)
           /\ function.code \in [0 .. function.count - 1 -> Int]
           /\ frame.pc \in Nat /\ function.count \in Nat
<1>1. top \in 0 .. MaxFrames - 1 /\ frame_count = top + 1 /\ top \in Live
  BY VMAssumption DEF IInv, TypeOK, CountMatchesStatus, Fetch, top, Live
<1>2. frame \in Frame /\ frame.pc \in Nat
  BY <1>1 DEF IInv, TypeOK, frame, Frame
<1>3. frame.function_index \in FunctionIndexes /\ frame.pc \in Boundary(function)
  BY <1>1 DEF IInv, ControlInStep, CodeOf, frame, function
<1>4. WellFormed(function)
  BY <1>3, ProgramsAssumption DEF IInv, TypeOK, FunctionIndexes, function
<1>5. frame.pc \in function.starts
  BY <1>2, <1>3, <1>4 DEF Fetch, Boundary, WellFormed
<1> QED
  BY <1>1, <1>2, <1>3, <1>4, <1>5 DEF WellFormed, Fetch

\* Where the operands of each kind of instruction are.
LEMMA OperandKinds ==
    ASSUME NEW f, NEW s
    PROVE  /\ f.code[s] \in {CONST_INT, LOAD_LOCAL, JUMP_IF_FALSE, RETURN_TEMP}
              => RegOperands(f, s) = {1}
           /\ f.code[s] = STORE_LOCAL => RegOperands(f, s) = {2}
           /\ f.code[s] \in BinaryOps => RegOperands(f, s) = {1, 2, 3}
           /\ f.code[s] = CALL => RegOperands(f, s) = {1} \cup 4 .. 3 + f.code[s + 3]
           /\ f.code[s] \in {STORE_LOCAL, RETURN_LOCAL} => LocalOperands(f, s) = {1}
           /\ f.code[s] = LOAD_LOCAL => LocalOperands(f, s) = {2}
           /\ f.code[s] = CONST_INT => Immediates(f, s) = {2}
           /\ f.code[s] = RETURN_CONST_INT => Immediates(f, s) = {1}
BY DEF RegOperands, LocalOperands, Immediates, BinaryOps, CONST_INT, STORE_LOCAL,
       LOAD_LOCAL, CALL, ADD_INT, GE_INT, RETURN_LOCAL, RETURN_TEMP,
       RETURN_CONST_INT, JUMP_IF_FALSE

\* What the operands of the fetched instruction are.
LEMMA Operands ==
    ASSUME IInv, Fetch
    PROVE  /\ Op \in {CONST_INT, LOAD_LOCAL, JUMP_IF_FALSE, RETURN_TEMP} \cup BinaryOps
              => Arg(1) \in Regs /\ Reg(1) \in Word
           /\ Op \in BinaryOps \cup {STORE_LOCAL} => Reg(2) \in Word
           /\ Op \in BinaryOps => Reg(3) \in Word
           /\ Op \in {STORE_LOCAL, RETURN_LOCAL}
              => Arg(1) \in Locals /\ frame.locals[Arg(1)] \in Word
           /\ Op = LOAD_LOCAL => frame.locals[Arg(2)] \in Word
           /\ Op = CONST_INT => Arg(2) \in Word
           /\ Op = RETURN_CONST_INT => Arg(1) \in Word
<1>1. /\ \A k \in RegOperands(function, frame.pc) : Arg(k) \in Regs
      /\ \A k \in LocalOperands(function, frame.pc) : Arg(k) \in Locals
      /\ \A k \in Immediates(function, frame.pc) : Arg(k) \in Word
  BY Fetched DEF InBounds, Arg
<1>2. /\ \A k : Arg(k) \in Regs => Reg(k) \in Word
      /\ \A k : Arg(k) \in Locals => frame.locals[Arg(k)] \in Word
  BY Fetched DEF Frame, Reg
<1> QED
  BY <1>1, <1>2, OperandKinds DEF Op

\* Where the next instruction is.
LEMMA NextInstruction ==
    ASSUME IInv, Fetch
    PROVE  /\ Op \in TwoWordOps => frame.pc + 2 \in Boundary(function)
           /\ Op \in ThreeWordOps => frame.pc + 3 \in Boundary(function)
           /\ Op \in BinaryOps => frame.pc + 4 \in Boundary(function)
           /\ Op = CALL => /\ Arg(3) \in Nat
                           /\ frame.pc + (4 + Arg(3)) \in Boundary(function)
                           /\ WidthAt(function, frame.pc) = 4 + Arg(3)
<1>1. /\ Op \in TwoWordOps => WidthAt(function, frame.pc) = 2
      /\ Op \in ThreeWordOps => WidthAt(function, frame.pc) = 3
      /\ Op \in BinaryOps => WidthAt(function, frame.pc) = 4
      /\ Op = CALL => WidthAt(function, frame.pc) = 4 + Arg(3)
  BY WidthCases DEF WidthAt, Op, Arg
<1>2. Op = CALL => Arg(3) \in Nat
  BY Fetched DEF WellFormed, Op, Arg
<1> QED
  BY <1>1, <1>2, Fetched

\* A label found in a function is followed by a place where control may stand.
LEMMA TargetInStep ==
    ASSUME NEW f, WellFormed(f), NEW l, HasTarget(f, l)
    PROVE  Target(f, l) \in Boundary(f)
<1>1. PICK s \in f.starts : f.code[s] = LABEL /\ s + 2 = Target(f, l)
  <2> DEFINE s == CHOOSE s \in Labels(f) : f.code[s + 1] = l
  <2>1. s \in Labels(f)
    BY DEF HasTarget
  <2>2. s \in f.starts /\ f.code[s] = LABEL
    BY <2>1 DEF Labels
  <2>3. s \in Int /\ Target(f, l) = 2 + s
    BY <2>2 DEF WellFormed, Target
  <2> HIDE DEF s
  <2> QED
    BY <2>2, <2>3
<1>2. WidthAt(f, s) = 2
  BY <1>1, WidthCases, OpcodeClasses DEF WidthAt, CALL, LABEL
<1> QED
  BY <1>1, <1>2 DEF WellFormed
-----------------------------------------------------------------------------
(* The turns of the loop.                                                  *)

\* A turn that changes the running frame only, and leaves it somewhere control
\* may stand, keeps the invariant.
LEMMA AdvanceInv ==
    ASSUME IInv, Fetch, NEW f \in Frame, Advance(f), KeepRunning,
           f.function_index = frame.function_index,
           f.return_dest = frame.return_dest,
           f.pc \in Boundary(function)
    PROVE  IInv'
<1> PICK t \in 0 .. MaxFrames - 1 : t = top
  BY Fetched
<1>1. /\ UNCHANGED <<program, frame_count, status, result>>
      /\ frames' = [frames EXCEPT ![t] = f]
      /\ frame_count = t + 1
      /\ frames \in [0 .. MaxFrames - 1 -> Frame]
      /\ MaxFrames \in Nat
  BY Fetched, VMAssumption DEF Advance, KeepRunning, IInv, TypeOK
<1>2. TypeOK' /\ CountMatchesStatus'
  BY <1>1 DEF IInv, TypeOK, CountMatchesStatus
<1>3. /\ frames'[t] = f
      /\ \A i \in 0 .. MaxFrames - 1 : i # t => frames'[i] = frames[i]
      /\ frames[t] = frame
  BY <1>1 DEF frame
<1>4. \A i \in 0 .. MaxFrames - 1 :
         /\ frames'[i].function_index = frames[i].function_index
         /\ frames'[i].return_dest = frames[i].return_dest
         /\ CodeOf(i)' = CodeOf(i)
  BY <1>1, <1>3 DEF CodeOf
<1>5. ControlInStep'
  <2> SUFFICES ASSUME NEW i \in 0 .. t
               PROVE  /\ frames'[i].function_index \in FunctionIndexes
                      /\ frames'[i].pc \in Boundary(CodeOf(i))
    BY <1>1, <1>4 DEF ControlInStep, Live, FunctionIndexes
  <2>1. frames[i].function_index \in FunctionIndexes
        /\ frames[i].pc \in Boundary(CodeOf(i))
    BY <1>1 DEF IInv, ControlInStep, Live
  <2> QED
    BY <1>1, <1>3, <1>4, <2>1 DEF CodeOf, function
<1>6. Linked'
  <2> SUFFICES ASSUME NEW i \in 1 .. t
               PROVE  ReturnPoint(CodeOf(i - 1), frames'[i - 1].pc,
                                  frames'[i].function_index, frames'[i].return_dest)
    BY <1>1, <1>4 DEF Linked
  <2>1. i - 1 # t /\ frames'[i - 1] = frames[i - 1]
    BY <1>1, <1>3
  <2> QED
    BY <1>1, <1>4, <2>1 DEF IInv, Linked
<1> QED
  BY <1>2, <1>5, <1>6 DEF IInv

LEMMA FrameFields ==
    ASSUME NEW f \in Frame
    PROVE  /\ f.regs \in [Regs -> Word] /\ f.locals \in [Locals -> Word]
           /\ f.pc \in Nat /\ f.return_dest \in Int /\ f.function_index \in Int
           /\ f = [regs |-> f.regs, locals |-> f.locals, pc |-> f.pc,
                   function_index |-> f.function_index, return_dest |-> f.return_dest]
BY DEF Frame

\* A turn that stores a word in a register.
LEMMA SetRegInv ==
    ASSUME IInv, Fetch, NEW r \in Regs, NEW v \in Word, NEW w \in Nat,
           frame.pc + w \in Boundary(function), SetReg(r, v, w)
    PROVE  IInv'
<1> DEFINE f == [frame EXCEPT !.regs[r] = v, !.pc = @ + w]
<1>1. frame \in Frame
  BY Fetched
<1>2. f = [frame EXCEPT !.regs = [frame.regs EXCEPT ![r] = v], !.pc = frame.pc + w]
  BY <1>1 DEF Frame
<1> HIDE DEF f
<1>3. f \in Frame /\ f.function_index = frame.function_index
      /\ f.return_dest = frame.return_dest /\ f.pc = frame.pc + w
  <2> DEFINE regs == [frame.regs EXCEPT ![r] = v]
  <2>1. regs \in [Regs -> Word] /\ frame.pc + w \in Nat
    BY <1>1 DEF Frame
  <2>2. f = [frame EXCEPT !.regs = regs, !.pc = frame.pc + w]
    BY <1>2
  <2> HIDE DEF regs
  <2> QED
    BY <1>1, <2>1, <2>2 DEF Frame
<1>4. Advance(f) /\ KeepRunning
  BY DEF SetReg, f
<1> QED
  BY <1>3, <1>4, AdvanceInv

LEMMA RegisterSteps == IInv /\ (ConstInt \/ LoadLocal \/ Binary) => IInv'
<1>1. ASSUME IInv, ConstInt PROVE IInv'
  <2>1. Fetch /\ Op = CONST_INT /\ SetReg(Arg(1), Arg(2), 3)
    BY <1>1 DEF ConstInt
  <2>2. Arg(1) \in Regs /\ Arg(2) \in Word
    BY <1>1, <2>1, Operands
  <2>3. frame.pc + 3 \in Boundary(function)
    BY <1>1, <2>1, NextInstruction DEF ThreeWordOps
  <2> QED
    BY <1>1, <2>1, <2>2, <2>3, SetRegInv
<1>2. ASSUME IInv, LoadLocal PROVE IInv'
  <2>1. Fetch /\ Op = LOAD_LOCAL /\ SetReg(Arg(1), frame.locals[Arg(2)], 3)
    BY <1>2 DEF LoadLocal
  <2>2. Arg(1) \in Regs /\ frame.locals[Arg(2)] \in Word
    BY <1>2, <2>1, Operands
  <2>3. frame.pc + 3 \in Boundary(function)
    BY <1>2, <2>1, NextInstruction DEF ThreeWordOps
  <2> QED
    BY <1>2, <2>1, <2>2, <2>3, SetRegInv
<1>3. ASSUME IInv, Binary PROVE IInv'
  <2>1. Fetch /\ Op \in BinaryOps /\ (Op = DIV_INT => Reg(3) # 0)
        /\ SetReg(Arg(1), Compute(Op, Reg(2), Reg(3)), 4)
    BY <1>3 DEF Binary
  <2>2. Arg(1) \in Regs /\ Reg(2) \in Word /\ Reg(3) \in Word
    BY <1>3, <2>1, Operands
  <2>3. Compute(Op, Reg(2), Reg(3)) \in Word
    BY <2>1, <2>2, ComputeInWord
  <2>4. frame.pc + 4 \in Boundary(function)
    BY <1>3, <2>1, NextInstruction
  <2> QED
    BY <1>3, <2>1, <2>2, <2>3, <2>4, SetRegInv
<1> QED
  BY <1>1, <1>2, <1>3

LEMMA StoreInv == IInv /\ StoreLocal => IInv'
<1> SUFFICES ASSUME IInv, StoreLocal PROVE IInv'
  OBVIOUS
<1> DEFINE f == [frame EXCEPT !.locals[Arg(1)] = Reg(2), !.pc = @ + 3]
<1>1. Fetch /\ Op = STORE_LOCAL /\ Advance(f) /\ KeepRunning
  BY DEF StoreLocal
<1>2. frame \in Frame /\ Arg(1) \in Locals /\ Reg(2) \in Word
  BY <1>1, Fetched, Operands
<1>3. frame.pc + 3 \in Boundary(function)
  BY <1>1, NextInstruction DEF ThreeWordOps
<1>4. f = [frame EXCEPT !.locals = [frame.locals EXCEPT ![Arg(1)] = Reg(2)],
                        !.pc = frame.pc + 3]
  BY <1>2 DEF Frame
<1> HIDE DEF f
<1>5. f \in Frame /\ f.function_index = frame.function_index
      /\ f.return_dest = frame.return_dest /\ f.pc = frame.pc + 3
  <2> DEFINE locals == [frame.locals EXCEPT ![Arg(1)] = Reg(2)]
  <2>1. locals \in [Locals -> Word] /\ frame.pc + 3 \in Nat
    BY <1>2 DEF Frame
  <2>2. f = [frame EXCEPT !.locals = locals, !.pc = frame.pc + 3]
    BY <1>4
  <2> HIDE DEF locals
  <2> QED
    BY <1>2, <2>1, <2>2 DEF Frame
<1> QED
  BY <1>1, <1>3, <1>5, AdvanceInv

\* A turn that only moves the running frame's pc.
LEMMA MoveInv ==
    ASSUME IInv, Fetch, NEW p \in Nat, p \in Boundary(function),
           Advance([frame EXCEPT !.pc = p]), KeepRunning
    PROVE  IInv'
<1> DEFINE f == [frame EXCEPT !.pc = p]
<1>1. frame \in Frame
  BY Fetched
<1>2. f \in Frame /\ f.function_index = frame.function_index
      /\ f.return_dest = frame.return_dest /\ f.pc = p /\ Advance(f)
  BY <1>1 DEF Frame
<1> HIDE DEF f
<1> QED
  BY <1>2, AdvanceInv

LEMMA JumpSteps == IInv /\ (Label \/ Jump \/ JumpIfFalse) => IInv'
<1> SUFFICES ASSUME IInv, Label \/ Jump \/ JumpIfFalse PROVE IInv'
  OBVIOUS
<1>1. Fetch /\ frame \in Frame /\ frame.pc \in Nat /\ KeepRunning
      /\ WellFormed(function)
  BY Fetched DEF Label, Jump, JumpIfFalse
<1>2. \A p \in Boundary(function) : p \in Nat
  BY <1>1 DEF WellFormed, Boundary
<1>3. CASE Label
  <2>1. frame.pc + 2 \in Boundary(function)
    BY <1>1, <1>3, NextInstruction DEF Label, TwoWordOps
  <2>2. Advance([frame EXCEPT !.pc = frame.pc + 2])
    BY <1>3 DEF Label
  <2> QED
    BY <1>1, <1>2, <2>1, <2>2, MoveInv
<1>4. CASE Jump
  <2>1. Target(function, Arg(1)) \in Boundary(function)
    BY <1>1, <1>4, TargetInStep DEF Jump
  <2> QED
    BY <1>1, <1>2, <1>4, <2>1, MoveInv DEF Jump
<1>5. CASE JumpIfFalse
  <2> DEFINE p == IF Reg(1) = 0 THEN Target(function, Arg(2)) ELSE frame.pc + 3
  <2>1. frame.pc + 3 \in Boundary(function)
    BY <1>1, <1>5, NextInstruction DEF JumpIfFalse, ThreeWordOps
  <2>2. Reg(1) = 0 => Target(function, Arg(2)) \in Boundary(function)
    BY <1>1, <1>5, TargetInStep DEF JumpIfFalse
  <2>3. p \in Boundary(function)
    BY <2>1, <2>2
  <2>4. Advance([frame EXCEPT !.pc = p])
    BY <1>5 DEF JumpIfFalse
  <2> HIDE DEF p
  <2> QED
    BY <1>1, <1>2, <2>3, <2>4, MoveInv
<1> QED
  BY <1>3, <1>4, <1>5

LEMMA NewFrameType ==
    ASSUME NEW index \in Int, NEW dest \in Int
    PROVE  NewFrame(index, dest) \in Frame
BY WordFacts DEF NewFrame, Frame

LEMMA CallInv == IInv /\ Call => IInv'
<1> SUFFICES ASSUME IInv, Call PROVE IInv'
  OBVIOUS
<1> PICK t \in 0 .. MaxFrames - 1 : t = top
  BY Fetched DEF Call
<1> DEFINE argc == Arg(3)
           next == frame.pc + 4 + argc
           arg(i) == frame.regs[function.code[next - argc + i]]
           fresh == NewFrame(Arg(2), Arg(1))
           locals == [l \in Locals |-> IF l < argc THEN arg(l) ELSE fresh.locals[l]]
           callee == [fresh EXCEPT !.locals = locals]
           caller == [frame EXCEPT !.pc = next]
<1>1. /\ Fetch /\ Op = CALL /\ Callable
      /\ frame \in Frame /\ frame.pc \in function.starts
      /\ frame.pc \in Nat /\ frame_count = t + 1 /\ t + 1 \in 0 .. MaxFrames - 1
      /\ WellFormed(function)
      /\ MaxFrames \in Nat
  BY Fetched, VMAssumption DEF Call, Callable
<1>2. /\ argc \in Nat /\ next = frame.pc + WidthAt(function, frame.pc)
      /\ next \in Boundary(function) /\ next \in Nat
      /\ WidthAt(function, frame.pc) = 4 + argc
  BY <1>1, NextInstruction
<1>3. Arg(2) \in FunctionIndexes /\ Arg(2) \in Nat /\ Arg(1) \in Regs
      /\ \A l \in Nat : l < argc => Arg(4 + l) \in Regs
  <2>1. RegOperands(function, frame.pc) = {1} \cup 4 .. 3 + argc
    BY <1>1, OperandKinds DEF Op, Arg
  <2>2. \A k \in RegOperands(function, frame.pc) : Arg(k) \in Regs
    BY <1>1, Fetched DEF InBounds, Arg
  <2>3. Arg(2) \in FunctionIndexes /\ Arg(2) \in Nat
    BY <1>1, ProgramsAssumption DEF IInv, TypeOK, Callable, FunctionIndexes
  <2> QED
    BY <1>2, <2>1, <2>2, <2>3
<1>4. frames' = [frames EXCEPT ![t].pc = next, ![t + 1] = callee]
  BY <1>1 DEF Call, Pushed
<1>4a. /\ UNCHANGED <<program, status, result>>
       /\ frame_count' = t + 2 /\ t + 2 \in 0 .. MaxFrames
       /\ status = "running"
  BY <1>1 DEF Call, Fetch
<1>5. callee \in Frame /\ callee.function_index = Arg(2)
      /\ callee.return_dest = Arg(1) /\ callee.pc = 0
  <2>1. fresh \in Frame /\ fresh.function_index = Arg(2)
        /\ fresh.return_dest = Arg(1) /\ fresh.pc = 0
    BY <1>3, NewFrameType DEF NewFrame, Regs
  <2>2. \A l \in Nat : l < argc => arg(l) \in Word
    <3> SUFFICES ASSUME NEW l \in Nat, l < argc PROVE arg(l) \in Word
      OBVIOUS
    <3>1. next - argc + l = frame.pc + (4 + l)
      BY <1>1, <1>2
    <3> QED
      BY <1>1, <1>3, <3>1 DEF Arg, Frame
  <2>3. locals \in [Locals -> Word]
    <3>1. \A l \in Locals : l \in Nat /\ fresh.locals[l] \in Word
      BY <2>1, VMAssumption DEF Locals, Frame
    <3> HIDE DEF arg, fresh, argc, next
    <3> QED
      BY <2>2, <3>1
  <2> HIDE DEF fresh, locals
  <2> QED
    BY <2>1, <2>3 DEF Frame
<1> HIDE DEF callee, next, argc
<1>6. caller \in Frame /\ caller.pc = next
      /\ caller.function_index = frame.function_index
      /\ caller.return_dest = frame.return_dest
  BY <1>1, <1>2 DEF Frame
<1>7. frames \in [0 .. MaxFrames - 1 -> Frame] /\ frames[t] = frame
  BY DEF IInv, TypeOK, frame
<1>8. /\ frames'[t] = caller /\ frames'[t + 1] = callee
      /\ \A i \in 0 .. t - 1 : frames'[i] = frames[i]
  BY <1>1, <1>4, <1>7
<1>9. frames' \in [0 .. MaxFrames - 1 -> Frame]
  <2>1. frames' = [i \in 0 .. MaxFrames - 1 |->
                     IF i = t + 1 THEN callee ELSE IF i = t THEN caller ELSE frames[i]]
    BY <1>1, <1>4, <1>7
  <2> HIDE DEF caller
  <2> QED
    BY <1>5, <1>6, <1>7, <2>1
<1> HIDE DEF caller
<1>10. TypeOK' /\ CountMatchesStatus'
  BY <1>4a, <1>9 DEF IInv, TypeOK, CountMatchesStatus
<1>11. /\ CodeOf(t)' = function
       /\ \A i \in 0 .. t - 1 : CodeOf(i)' = CodeOf(i)
       /\ CodeOf(t + 1)' = program.functions[Arg(2)]
       /\ CodeOf(t) = function
  BY <1>4a, <1>5, <1>6, <1>7, <1>8 DEF CodeOf, function
<1>12. ControlInStep'
  <2> SUFFICES ASSUME NEW i \in 0 .. t + 1
               PROVE  /\ frames'[i].function_index \in FunctionIndexes
                      /\ frames'[i].pc \in Boundary(CodeOf(i)')
    BY <1>4a DEF ControlInStep, Live, FunctionIndexes
  <2>1. CASE i = t + 1
    <3>1. WellFormed(program.functions[Arg(2)])
      BY <1>3, ProgramsAssumption DEF IInv, TypeOK, FunctionIndexes
    <3> QED
      BY <1>3, <1>5, <1>8, <1>11, <2>1, <3>1 DEF WellFormed
  <2>2. CASE i = t
    BY <1>1, <1>2, <1>6, <1>8, <1>11, <2>2, Fetched
  <2>3. CASE i \in 0 .. t - 1
    BY <1>1, <1>8, <1>11, <2>3 DEF IInv, ControlInStep, Live
  <2> QED
    BY <2>1, <2>2, <2>3
<1>13. Linked'
  <2> SUFFICES ASSUME NEW i \in 1 .. t + 1
               PROVE  ReturnPoint(CodeOf(i - 1)', frames'[i - 1].pc,
                                  frames'[i].function_index, frames'[i].return_dest)
    BY <1>4a DEF Linked
  <2>1. CASE i = t + 1
    <3>1. i - 1 = t
      BY <2>1
    <3>2. ReturnPoint(function, next, Arg(2), Arg(1))
      BY <1>1, <1>2 DEF ReturnPoint, Op, Arg
    <3> QED
      BY <1>5, <1>6, <1>8, <1>11, <2>1, <3>1, <3>2
  <2>2. CASE i \in 1 .. t
    <3>1. ReturnPoint(CodeOf(i - 1), frames[i - 1].pc, frames[i].function_index,
                      frames[i].return_dest)
      BY <1>1, <2>2 DEF IInv, Linked
    <3>2. i - 1 \in 0 .. t - 1 /\ i - 1 # t
      BY <2>2
    <3>3. frames'[i].function_index = frames[i].function_index
          /\ frames'[i].return_dest = frames[i].return_dest
      BY <1>6, <1>7, <1>8, <2>2
    <3> QED
      BY <1>8, <1>11, <3>1, <3>2, <3>3
  <2> QED
    BY <2>1, <2>2
<1> QED
  BY <1>10, <1>12, <1>13 DEF IInv

LEMMA ReturnValueInWord ==
    ASSUME IInv, Fetch, Op \in ReturnOps
    PROVE  ReturnValue \in Word
<1>1. Op \in {RETURN_LOCAL, RETURN_TEMP, RETURN_CONST_INT}
  BY OpcodeClasses
<1>2. /\ Op = RETURN_LOCAL => frame.locals[Arg(1)] \in Word
      /\ Op = RETURN_TEMP => Reg(1) \in Word
      /\ Op = RETURN_CONST_INT => Arg(1) \in Word
  BY Operands
<1> QED
  BY <1>1, <1>2 DEF ReturnValue, RETURN_LOCAL, RETURN_TEMP, RETURN_CONST_INT

\* The register a return writes is one of the caller's.
LEMMA ReturnDest ==
    ASSUME IInv, Fetch, frame_count > 1
    PROVE  frame.return_dest \in Regs
<1> PICK t \in 0 .. MaxFrames - 1 : t = top /\ frame_count = t + 1
  BY Fetched
<1>1. t \in 1 .. frame_count - 1 /\ t - 1 \in Live /\ frames[t] = frame
  BY DEF Live, frame
<1>2. ReturnPoint(CodeOf(t - 1), frames[t - 1].pc, frame.function_index, frame.return_dest)
  BY <1>1 DEF IInv, Linked
<1>3. WellFormed(CodeOf(t - 1))
  BY <1>1, ProgramsAssumption DEF IInv, TypeOK, ControlInStep, CodeOf, FunctionIndexes
<1>4. PICK s \in CodeOf(t - 1).starts :
         CodeOf(t - 1).code[s] = CALL /\ CodeOf(t - 1).code[s + 1] = frame.return_dest
  BY <1>2 DEF ReturnPoint
<1>5. 1 \in RegOperands(CodeOf(t - 1), s) /\ InBounds(CodeOf(t - 1), s)
  BY <1>3, <1>4, OperandKinds DEF WellFormed
<1> QED
  BY <1>4, <1>5 DEF InBounds

LEMMA ReturnInv == IInv /\ Return => IInv'
<1> SUFFICES ASSUME IInv, Return PROVE IInv'
  OBVIOUS
<1> PICK t \in 0 .. MaxFrames - 1 : t = top /\ frame_count = t + 1
  BY Fetched DEF Return
<1> PICK c \in 0 .. MaxFrames - 1 : c = t - 1
  BY VMAssumption DEF Return
<1> PICK v \in Word : v = ReturnValue
  BY ReturnValueInWord DEF Return
<1> PICK d \in Regs : d = frame.return_dest
  BY ReturnDest DEF Return
<1>1. /\ UNCHANGED <<program, status, result>> /\ frame_count' = t /\ t > 0
      /\ frames' = [frames EXCEPT ![c].regs[d] = v]
      /\ frames \in [0 .. MaxFrames - 1 -> Frame] /\ MaxFrames \in Nat
  BY VMAssumption DEF Return, IInv, TypeOK
<1> DEFINE regs == [frames[c].regs EXCEPT ![d] = v]
           caller == [frames[c] EXCEPT !.regs = regs]
<1>2. caller \in Frame /\ caller.pc = frames[c].pc
      /\ caller.function_index = frames[c].function_index
      /\ caller.return_dest = frames[c].return_dest
  <2>1. frames[c] \in Frame
    BY <1>1
  <2>2. regs \in [Regs -> Word]
    BY <2>1 DEF Frame
  <2> HIDE DEF regs
  <2> QED
    BY <2>1, <2>2 DEF Frame
<1>3. frames' = [frames EXCEPT ![c] = caller]
  BY <1>1
<1> HIDE DEF caller
<1>4. /\ frames' \in [0 .. MaxFrames - 1 -> Frame]
      /\ \A i \in 0 .. MaxFrames - 1 :
            /\ frames'[i].pc = frames[i].pc
            /\ frames'[i].function_index = frames[i].function_index
            /\ frames'[i].return_dest = frames[i].return_dest
  BY <1>1, <1>2, <1>3
<1>5. \A i \in 0 .. MaxFrames - 1 : CodeOf(i)' = CodeOf(i)
  BY <1>1, <1>4 DEF CodeOf
<1>6. TypeOK' /\ CountMatchesStatus'
  BY <1>1, <1>4 DEF IInv, TypeOK, CountMatchesStatus
<1>7. ControlInStep'
  <2> SUFFICES ASSUME NEW i \in 0 .. t - 1
               PROVE  /\ frames'[i].function_index \in FunctionIndexes
                      /\ frames'[i].pc \in Boundary(CodeOf(i)')
    BY <1>1 DEF ControlInStep, Live, FunctionIndexes
  <2> QED
    BY <1>1, <1>4, <1>5 DEF IInv, ControlInStep, Live
<1>8. Linked'
  <2> SUFFICES ASSUME NEW i \in 1 .. t - 1
               PROVE  ReturnPoint(CodeOf(i - 1)', frames'[i - 1].pc,
                                  frames'[i].function_index, frames'[i].return_dest)
    BY <1>1 DEF Linked
  <2> QED
    BY <1>1, <1>4, <1>5 DEF IInv, Linked
<1> QED
  BY <1>6, <1>7, <1>8 DEF IInv

LEMMA FinishInv == IInv /\ Finish => IInv'
<1> SUFFICES ASSUME IInv, Finish PROVE IInv'
  OBVIOUS
<1>1. ReturnValue \in Word
  BY ReturnValueInWord DEF Finish
<1>2. /\ UNCHANGED <<program, frames>> /\ frame_count' = 0 /\ status' = "returned"
      /\ result' \in Word
  BY <1>1 DEF Finish
<1> QED
  BY <1>2, VMAssumption DEF IInv, TypeOK, CountMatchesStatus, ControlInStep, Linked, Live

LEMMA StartInv == IInv /\ Start => IInv'
<1> SUFFICES ASSUME IInv, Start PROVE IInv'
  OBVIOUS
<1> PICK e \in FunctionIndexes : e = program.entry
  BY DEF Start, Startable
<1>1. e \in Nat /\ WellFormed(program.functions[e])
  BY ProgramsAssumption DEF IInv, TypeOK, FunctionIndexes
<1>2. NewFrame(e, -1) \in Frame
  BY <1>1, NewFrameType
<1>3. /\ UNCHANGED <<program, result>> /\ frame_count' = 1 /\ status' = "running"
      /\ frames' = [frames EXCEPT ![0] = NewFrame(e, -1)]
      /\ frames \in [0 .. MaxFrames - 1 -> Frame]
      /\ 0 \in 0 .. MaxFrames - 1 /\ 1 \in 0 .. MaxFrames
  BY VMAssumption DEF Start, IInv, TypeOK
<1>4. TypeOK' /\ CountMatchesStatus'
  BY <1>2, <1>3 DEF IInv, TypeOK, CountMatchesStatus
<1>5. frames'[0].function_index = e /\ frames'[0].pc = 0
  BY <1>3 DEF NewFrame
<1>6. ControlInStep'
  BY <1>1, <1>3, <1>5 DEF ControlInStep, Live, CodeOf, FunctionIndexes, WellFormed
<1> QED
  BY <1>3, <1>4, <1>6 DEF IInv, Linked

LEMMA StopInv ==
    ASSUME IInv, NEW s \in {"failed", "trapped"}, Stop(s) \/ UNCHANGED vars
    PROVE  IInv'
<1>1. /\ UNCHANGED <<program, frames, frame_count, result>>
      /\ status' \in {status, "failed", "trapped"}
  BY DEF Stop, vars
<1> QED
  BY <1>1 DEF IInv, TypeOK, CountMatchesStatus, ControlInStep, Linked, Live, CodeOf,
              FunctionIndexes

LEMMA StepInv == IInv /\ [Next]_vars => IInv'
<1> SUFFICES ASSUME IInv, [Next]_vars PROVE IInv'
  OBVIOUS
<1>1. CASE StartRefused \/ RanOff \/ DivideByZero \/ JumpNowhere \/ CallRefused
           \/ UNCHANGED vars
  BY <1>1, StopInv DEF StartRefused, RanOff, DivideByZero, JumpNowhere, CallRefused
<1>2. CASE DivideTrap
  BY <1>2, StopInv DEF DivideTrap
<1> QED
  BY <1>1, <1>2, StartInv, RegisterSteps, StoreInv, JumpSteps, CallInv, ReturnInv,
     FinishInv DEF Next
-----------------------------------------------------------------------------
\* The inductive invariant: frames have their types, control stands between
\* instructions, and each frame was pushed by the call behind its caller's pc.
THEOREM Inductive == Spec => []IInv
BY InitInv, StepInv, PTL DEF Spec

\* Registers and locals hold ints and the stack stays within its bound, for
\* every well-formed program.
THEOREM TypeCorrect == Spec => []TypeOK
BY Inductive, PTL DEF IInv

\* Control never stands inside an instruction, in any active frame.
THEOREM ControlStaysInStep == Spec => []ControlInStep
BY Inductive, PTL DEF IInv

\* Every result goes to the register named by the call it answers.
THEOREM ReturnsAreLinked == Spec => []Linked
BY Inductive, PTL DEF IInv

\* The unchecked indexes of the interpreter's loop are all in range, for every
\* well-formed program, however it calls and jumps.
THEOREM MemorySafe == Spec => []AccessesInBounds
<1>1. IInv => AccessesInBounds
  BY Fetched, ReturnDest DEF AccessesInBounds
<1> QED
  BY <1>1, Inductive, PTL
-----------------------------------------------------------------------------
(* What a single turn does to the other frames.                            *)

\* A turn that only changes the running frame.
LEMMA AdvanceKeeps ==
    ASSUME IInv, Fetch, NEW f, Advance(f)
    PROVE  \A i \in 0 .. frame_count - 2 : frames'[i] = frames[i]
<1>1. top \in 0 .. MaxFrames - 1 /\ frame_count = top + 1
  BY Fetched
<1> QED
  BY <1>1 DEF IInv, TypeOK, Advance

LEMMA CallKeeps ==
    ASSUME IInv, Call
    PROVE  /\ frame_count' = frame_count + 1 /\ frame_count \in Nat
           /\ frames'[frame_count] = Pushed(frame.pc + 4 + Arg(3))
           /\ frames'[frame_count - 1] = [frame EXCEPT !.pc = frame.pc + 4 + Arg(3)]
           /\ \A i \in 0 .. frame_count - 2 : frames'[i] = frames[i]
<1>1. top \in 0 .. MaxFrames - 1 /\ frame_count = top + 1
  BY Fetched DEF Call
<1>2. frame_count < MaxFrames /\ MaxFrames \in Nat /\ frame_count' = frame_count + 1
  BY VMAssumption DEF Call, Callable
<1>3. frames \in [0 .. MaxFrames - 1 -> Frame]
  BY DEF IInv, TypeOK
<1> DEFINE next == frame.pc + 4 + Arg(3)
           callee == Pushed(next)
<1>4. frames' = [frames EXCEPT ![top].pc = next, ![top + 1] = callee]
  BY DEF Call
<1> HIDE DEF next, callee
<1>5. frames'[top + 1] = callee /\ frames'[top] = [frame EXCEPT !.pc = next]
  BY <1>1, <1>2, <1>3, <1>4 DEF frame
<1>6. \A i \in 0 .. frame_count - 2 : frames'[i] = frames[i]
  BY <1>1, <1>2, <1>3, <1>4
<1> QED
  BY <1>1, <1>2, <1>5, <1>6 DEF next, callee

\* The pushed frame has the arguments in its first locals, in order, and zeros.
LEMMA PushedIs ==
    ASSUME IInv, Call
    PROVE  Pushed(frame.pc + 4 + Arg(3)) =
              [NewFrame(Arg(2), Arg(1)) EXCEPT !.locals =
                  [l \in Locals |-> IF l < Arg(3) THEN Reg(4 + l) ELSE 0]]
<1>1. Arg(3) \in Nat /\ frame.pc \in Nat
  <2>1. Fetch /\ Op = CALL /\ frame.pc \in Nat
    BY Fetched DEF Call
  <2> QED
    BY <2>1, NextInstruction
<1>2. \A l \in Locals : ((frame.pc + 4 + Arg(3)) - Arg(3)) + l = frame.pc + (4 + l)
  BY <1>1, VMAssumption DEF Locals
<1> DEFINE argc == Arg(3)
           next == frame.pc + 4 + argc
           fresh == NewFrame(Arg(2), Arg(1))
           passed == [l \in Locals |->
                         IF l < argc THEN frame.regs[function.code[next - argc + l]]
                                     ELSE fresh.locals[l]]
           asked == [l \in Locals |-> IF l < argc THEN Reg(4 + l) ELSE 0]
<1>3. Pushed(next) = [fresh EXCEPT !.locals = passed]
  BY DEF Pushed
<1>4. ASSUME NEW l \in Locals PROVE passed[l] = asked[l]
  <2>1. frame.regs[function.code[next - argc + l]] = Reg(4 + l)
    <3>1. next - argc + l = frame.pc + (4 + l)
      BY <1>2
    <3> HIDE DEF next, argc
    <3> QED
      BY <3>1 DEF Reg, Arg
  <2>2. fresh.locals[l] = 0
    BY DEF NewFrame
  <2> QED
    BY <2>1, <2>2
<1>5. passed = asked
  <2> HIDE DEF argc, next, fresh
  <2> QED
    BY <1>4
<1> QED
  BY <1>3, <1>5

LEMMA ReturnDelivers ==
    ASSUME IInv, Return
    PROVE  /\ frame_count' = frame_count - 1 /\ frame_count \in Nat
           /\ \A i \in 0 .. frame_count - 3 : frames'[i] = frames[i]
           /\ frames'[frame_count - 2] = [frames[frame_count - 2] EXCEPT !.regs =
                 [r \in Regs |-> IF r = frame.return_dest THEN ReturnValue
                                 ELSE frames[frame_count - 2].regs[r]]]
<1>1. top \in 0 .. MaxFrames - 1 /\ frame_count = top + 1 /\ top \in Int
      /\ frame_count > 1
  BY Fetched DEF Return
<1> PICK c \in 0 .. MaxFrames - 1 : c = top - 1
  BY <1>1, VMAssumption
<1> PICK d \in Regs : d = frame.return_dest
  BY ReturnDest DEF Return
<1> DEFINE v == ReturnValue
<1>2. frames \in [0 .. MaxFrames - 1 -> Frame]
  BY DEF IInv, TypeOK
<1>3. frames' = [frames EXCEPT ![c].regs[d] = v]
  BY DEF Return
<1> HIDE DEF v
<1>4. [frames[c].regs EXCEPT ![d] = v]
         = [r \in Regs |-> IF r = d THEN v ELSE frames[c].regs[r]]
  BY <1>2 DEF Frame
<1>5. frames'[c] = [frames[c] EXCEPT !.regs =
                       [r \in Regs |-> IF r = d THEN v ELSE frames[c].regs[r]]]
  BY <1>2, <1>3, <1>4
<1>6. \A i \in 0 .. frame_count - 3 : frames'[i] = frames[i]
  BY <1>1, <1>2, <1>3
<1> QED
  BY <1>1, <1>5, <1>6 DEF Return, v

\* Every turn that stays in the running frame.
LocalTurn ==
    ConstInt \/ StoreLocal \/ LoadLocal \/ Binary \/ Label \/ Jump \/ JumpIfFalse

LEMMA LocalTurnKeeps ==
    ASSUME IInv, LocalTurn
    PROVE  /\ frame_count' = frame_count
           /\ \A i \in 0 .. frame_count - 2 : frames'[i] = frames[i]
<1>1. Fetch /\ (\E f : Advance(f)) /\ frame_count' = frame_count
  BY DEF LocalTurn, ConstInt, StoreLocal, LoadLocal, Binary, Label, Jump, JumpIfFalse,
         SetReg, KeepRunning
<1> QED
  BY <1>1, AdvanceKeeps

Halt == StartRefused \/ RanOff \/ DivideByZero \/ DivideTrap \/ JumpNowhere \/ CallRefused

LEMMA HaltKeeps == ASSUME Halt \/ UNCHANGED vars PROVE UNCHANGED <<frames, frame_count>>
BY DEF Halt, StartRefused, RanOff, DivideByZero, DivideTrap, JumpNowhere, CallRefused, Stop,
       vars

\* Frames below the running one are left alone; only a return writes to one,
\* and there to the one register that the call named.
THEOREM CallersArePreserved == Spec => CallersPreserved
<1> DEFINE Kept(i) ==
        IF i < frame_count' - 1
        THEN frames'[i] = frames[i]
        ELSE frames'[i] = [frames[i] EXCEPT !.regs =
                 [r \in Regs |-> IF r = frame.return_dest THEN ReturnValue
                                                          ELSE frames[i].regs[r]]]
           Preserved == status = "running" => \A i \in 0 .. frame_count - 2 : Kept(i)
<1>1. IInv /\ [Next]_vars => Preserved
  <2> SUFFICES ASSUME IInv, [Next]_vars, status = "running",
                      NEW i \in 0 .. frame_count - 2
               PROVE  Kept(i)
    OBVIOUS
  <2>0. frame_count \in Nat /\ i \in Int
    BY VMAssumption DEF IInv, TypeOK
  <2>1. CASE LocalTurn
    BY <2>0, <2>1, LocalTurnKeeps
  <2>2. CASE Call
    BY <2>0, <2>2, CallKeeps
  <2>3. CASE Return
    <3>1. CASE i = frame_count - 2
      BY <2>0, <2>3, <3>1, ReturnDelivers
    <3>2. CASE i \in 0 .. frame_count - 3
      BY <2>0, <2>3, <3>2, ReturnDelivers
    <3> QED
      BY <2>0, <3>1, <3>2
  <2>4. CASE Finish
    BY <2>4, <2>0 DEF Finish
  <2>5. CASE Halt \/ UNCHANGED vars
    BY <2>0, <2>5, HaltKeeps
  <2> QED
    BY <2>1, <2>2, <2>3, <2>4, <2>5 DEF Next, LocalTurn, Halt, Start
<1>2. [][Preserved]_vars => CallersPreserved
  BY PTL DEF CallersPreserved
<1> QED
  BY <1>1, <1>2, Inductive, PTL DEF Spec

\* A callee sees its arguments and zeros, never what an earlier call left in
\* the frame it is given.
THEOREM CalleesStartClean == Spec => CalleeStartsClean
<1> DEFINE Clean ==
        frame_count' > frame_count /\ frame_count > 0 =>
           LET argc == program.functions[Arg(2)].param_count IN
           frames'[frame_count] =
               [NewFrame(Arg(2), Arg(1)) EXCEPT !.locals =
                   [l \in Locals |-> IF l < argc THEN Reg(4 + l) ELSE 0]]
<1>1. IInv /\ [Next]_vars => Clean
  <2> SUFFICES ASSUME IInv, [Next]_vars, frame_count' > frame_count, frame_count > 0
               PROVE  Clean
    OBVIOUS
  <2>0. frame_count \in Nat
    BY VMAssumption DEF IInv, TypeOK
  <2>1. Call
    <3>1. CASE LocalTurn
      BY <3>1, <2>0, LocalTurnKeeps
    <3>2. CASE Return \/ Finish
      BY <3>2, <2>0 DEF Return, Finish
    <3>3. CASE Halt \/ UNCHANGED vars
      BY <3>3, <2>0, HaltKeeps
    <3>4. CASE Start
      BY <3>4, <2>0 DEF Start, IInv, CountMatchesStatus
    <3> QED
      BY <3>1, <3>2, <3>3, <3>4 DEF Next, LocalTurn, Halt
  <2>2. Arg(3) = program.functions[Arg(2)].param_count
    BY <2>1 DEF Call, Callable
  <2> QED
    BY <2>0, <2>1, <2>2, PushedIs, CallKeeps
<1>2. [][Clean]_vars => CalleeStartsClean
  BY PTL DEF CalleeStartsClean
<1> QED
  BY <1>1, <1>2, Inductive, PTL DEF Spec
-----------------------------------------------------------------------------
(* Why programs without backward jumps stop.                               *)

\* At some depth d the stack moves on: what is below d stands where it stood,
\* and frame d has gone further in its function or is gone.  The stacks of a
\* program are finitely many (ControlStaysInStep), and moving on is an order.
MovesOn ==
    JumpsForward /\ status = "running" /\ status' = "running" =>
    \E d \in Live :
        /\ \A i \in 0 .. d - 1 : /\ frames'[i].pc = frames[i].pc
                                 /\ frames'[i].function_index = frames[i].function_index
        /\ \/ frame_count' = d
           \/ /\ frame_count' > d
              /\ frames'[d].pc > frames[d].pc
              /\ frames'[d].function_index = frames[d].function_index

LEMMA JumpGoesForward ==
    ASSUME IInv, Fetch, JumpsForward
    PROVE  /\ Op = JUMP /\ HasTarget(function, Arg(1)) => Target(function, Arg(1)) > frame.pc
           /\ Op = JUMP_IF_FALSE /\ HasTarget(function, Arg(2))
                 => Target(function, Arg(2)) > frame.pc
<1>1. frame.function_index \in FunctionIndexes /\ frame.pc \in function.starts
  BY Fetched
<1> DEFINE l == function.code[frame.pc + (IF Op = JUMP THEN 1 ELSE 2)]
<1>2. Op \in {JUMP, JUMP_IF_FALSE} /\ HasTarget(function, l) => Target(function, l) > frame.pc
  BY <1>1 DEF JumpsForward, function, Op
<1>3. /\ Op = JUMP => l = Arg(1)
      /\ Op = JUMP_IF_FALSE => l = Arg(2)
  BY DEF Arg, JUMP, JUMP_IF_FALSE
<1> HIDE DEF l
<1> QED
  BY <1>2, <1>3

\* A turn that stays in the running frame goes further in it.
LEMMA LocalTurnMovesOn ==
    ASSUME IInv, LocalTurn, JumpsForward
    PROVE  /\ frames'[top].pc > frame.pc
           /\ frames'[top].function_index = frame.function_index
<1>1. Fetch /\ top \in 0 .. MaxFrames - 1 /\ frame \in Frame /\ frame.pc \in Nat
  <2>1. Fetch
    BY DEF LocalTurn, ConstInt, StoreLocal, LoadLocal, Binary, Label, Jump, JumpIfFalse
  <2> QED
    BY <2>1, Fetched
<1>2. frames \in [0 .. MaxFrames - 1 -> Frame]
  BY DEF IInv, TypeOK
<1>3. ASSUME NEW f, Advance(f) PROVE frames'[top] = f
  BY <1>1, <1>2, <1>3 DEF Advance
<1>4. ASSUME NEW r, NEW v, NEW w \in Nat \ {0}, SetReg(r, v, w)
      PROVE  frames'[top].pc > frame.pc /\ frames'[top].function_index = frame.function_index
  <2>1. frames'[top] = [frame EXCEPT !.regs[r] = v, !.pc = @ + w]
    BY <1>3, <1>4 DEF SetReg
  <2>2. frames'[top].pc = frame.pc + w /\ frames'[top].function_index = frame.function_index
    BY <1>1, <2>1 DEF Frame
  <2> QED
    BY <1>1, <2>2
<1>5. ASSUME NEW p \in Nat, p > frame.pc, Advance([frame EXCEPT !.pc = p])
      PROVE  frames'[top].pc > frame.pc /\ frames'[top].function_index = frame.function_index
  BY <1>1, <1>3, <1>5 DEF Frame
<1>6. CASE ConstInt \/ LoadLocal \/ Binary
  BY <1>4, <1>6 DEF ConstInt, LoadLocal, Binary
<1>7. CASE StoreLocal
  <2>1. frames'[top] = [frame EXCEPT !.locals[Arg(1)] = Reg(2), !.pc = @ + 3]
    BY <1>3, <1>7 DEF StoreLocal
  <2>2. frames'[top].pc = frame.pc + 3 /\ frames'[top].function_index = frame.function_index
    BY <1>1, <2>1 DEF Frame
  <2> QED
    BY <1>1, <2>2
<1>8. CASE Label
  <2>1. Advance([frame EXCEPT !.pc = frame.pc + 2])
    BY <1>8 DEF Label
  <2>2. frame.pc + 2 \in Nat /\ frame.pc + 2 > frame.pc
    BY <1>1
  <2> QED
    BY <1>5, <2>1, <2>2
<1>9. WellFormed(function) /\ \A p \in Boundary(function) : p \in Nat
  BY <1>1, Fetched DEF WellFormed, Boundary
<1>10. CASE Jump
  <2>1. Target(function, Arg(1)) > frame.pc /\ Target(function, Arg(1)) \in Nat
    BY <1>1, <1>9, <1>10, JumpGoesForward, TargetInStep DEF Jump
  <2> QED
    BY <1>5, <1>10, <2>1 DEF Jump
<1>11. CASE JumpIfFalse
  <2> DEFINE p == IF Reg(1) = 0 THEN Target(function, Arg(2)) ELSE frame.pc + 3
  <2>1. Reg(1) = 0 => Target(function, Arg(2)) > frame.pc /\ Target(function, Arg(2)) \in Nat
    BY <1>1, <1>9, <1>11, JumpGoesForward, TargetInStep DEF JumpIfFalse
  <2>2. p > frame.pc /\ p \in Nat
    BY <1>1, <2>1
  <2>3. Advance([frame EXCEPT !.pc = p])
    BY <1>11 DEF JumpIfFalse
  <2> HIDE DEF p
  <2> QED
    BY <1>5, <2>2, <2>3
<1> QED
  BY <1>6, <1>7, <1>8, <1>10, <1>11 DEF LocalTurn

\* Each turn moves on in a program without backward jumps, whatever it calls:
\* what bounds the turns of the loop, and the argument behind Halts.
THEOREM ForwardCodeMovesOn == Spec => [][MovesOn]_vars
<1>1. IInv /\ [Next]_vars => MovesOn \/ UNCHANGED vars
  <2> SUFFICES ASSUME IInv, Next, JumpsForward, status = "running", status' = "running"
               PROVE  MovesOn
    BY DEF MovesOn
  <2>0. frame_count \in Nat /\ frame_count > 0
    BY VMAssumption DEF IInv, TypeOK, CountMatchesStatus
  <2>1. CASE LocalTurn
    <3>1. top \in Live /\ top = frame_count - 1
      BY <2>0 DEF Live, top
    <3>2. frame_count' = frame_count /\ \A i \in 0 .. frame_count - 2 : frames'[i] = frames[i]
      BY <2>1, LocalTurnKeeps
    <3>3. frames'[top].pc > frames[top].pc
          /\ frames'[top].function_index = frames[top].function_index
      BY <2>1, LocalTurnMovesOn DEF frame
    <3> QED
      BY <2>0, <3>1, <3>2, <3>3 DEF MovesOn
  <2>2. CASE Call
    <3>1. top \in Live /\ top = frame_count - 1
      BY <2>0 DEF Live, top
    <3>2. /\ frame_count' = frame_count + 1
          /\ frames'[top] = [frame EXCEPT !.pc = frame.pc + 4 + Arg(3)]
          /\ \A i \in 0 .. frame_count - 2 : frames'[i] = frames[i]
      BY <2>2, <3>1, CallKeeps
    <3>3. frame \in Frame /\ frame.pc \in Nat /\ Arg(3) \in Nat
      BY <2>2, Fetched, NextInstruction DEF Call
    <3>4. /\ frames'[top].pc = frame.pc + 4 + Arg(3)
          /\ frames'[top].function_index = frame.function_index
      BY <3>2, <3>3 DEF Frame
    <3>5. frames'[top].pc > frames[top].pc
          /\ frames'[top].function_index = frames[top].function_index
      BY <3>3, <3>4 DEF frame
    <3>6. /\ frame_count' > top
          /\ \A i \in 0 .. top - 1 : frames'[i] = frames[i]
      <4>1. frame_count' > top /\ 0 .. top - 1 = 0 .. frame_count - 2
        BY <2>0, <3>1, <3>2
      <4> QED
        BY <3>2, <4>1
    <3> QED
      BY <3>1, <3>5, <3>6 DEF MovesOn
  <2>3. CASE Return
    <3>1. frame_count > 1 /\ frame_count - 1 \in Live
      BY <2>0, <2>3 DEF Live, Return
    <3>2. /\ frame_count' = frame_count - 1
          /\ \A i \in 0 .. frame_count - 3 : frames'[i] = frames[i]
          /\ frames'[frame_count - 2] = [frames[frame_count - 2] EXCEPT !.regs =
                 [r \in Regs |-> IF r = frame.return_dest THEN ReturnValue
                                 ELSE frames[frame_count - 2].regs[r]]]
      BY <2>3, ReturnDelivers
    <3>3. frames[frame_count - 2] \in Frame
      BY <2>0, <3>1, VMAssumption DEF IInv, TypeOK
    <3>4. /\ frames'[frame_count - 2].pc = frames[frame_count - 2].pc
          /\ frames'[frame_count - 2].function_index = frames[frame_count - 2].function_index
      BY <3>2, <3>3 DEF Frame
    <3>5. \A i \in 0 .. (frame_count - 1) - 1 : i = frame_count - 2 \/ i \in 0 .. frame_count - 3
      BY <2>0
    <3> QED
      BY <3>1, <3>2, <3>4, <3>5 DEF MovesOn
  <2>4. CASE Halt \/ Finish \/ Start
    BY <2>4 DEF Halt, StartRefused, RanOff, DivideByZero, DivideTrap, JumpNowhere, CallRefused,
                Stop, Finish, Start
  <2> QED
    BY <2>1, <2>2, <2>3, <2>4 DEF Next, LocalTurn, Halt
<1> QED
  BY <1>1, Inductive, PTL DEF Spec

-----------------------------------------------------------------------------
(* Prefixes of sequences.                                                  *)

\* Induction over an interval, in terms of sets.
LEMMA Induction ==
    ASSUME NEW n \in Nat, NEW S, 0 \in S, \A i \in 0 .. n - 1 : i \in S => i + 1 \in S
    PROVE  \A i \in 0 .. n : i \in S
<1> DEFINE T == {i \in 0 .. n : i \notin S}
           R == OpToRel(<, Nat)
<1> SUFFICES ASSUME T # {} PROVE FALSE
  OBVIOUS
<1>1. IsWellFoundedOn(R, Nat)
  BY NatLessThanWellFounded
<1>2. \A x, y \in Nat : x < y => <<x, y>> \in R
  BY DEF OpToRel
<1>3. PICK t \in T : \A u \in T : <<u, t>> \notin R
  <2>1. T \subseteq Nat
    OBVIOUS
  <2> HIDE DEF T, R
  <2> QED
    BY <1>1, <2>1, WFMin
<1> HIDE DEF R
<1>4. t \in 1 .. n
  <2>1. t \in 0 .. n /\ t \notin S
    BY <1>3
  <2> QED
    BY <2>1
<1>5. t - 1 \notin T
  <2>1. t - 1 \in Nat /\ t \in Nat /\ t - 1 < t
    BY <1>4
  <2>2. <<t - 1, t>> \in R
    BY <1>2, <2>1
  <2> QED
    BY <1>3, <2>2
<1>6. t - 1 \in S /\ t - 1 \in 0 .. n - 1
  BY <1>4, <1>5
<1>7. t \in S
  <2>1. (t - 1) + 1 \in S
     BY <1>6
  <2> QED
    BY <1>4, <2>1
<1> QED
  BY <1>3, <1>7

\* The prefixes of some sequences, each the one before and one sequence more.
LEMMA PrefixesRecursion ==
    ASSUME NEW n \in Nat, NEW W \in [1 .. n -> Seq(Int)], Len(W) = n
    PROVE  /\ Gen!Prefixes(W) \in [0 .. n -> Seq(Int)]
           /\ Gen!Prefixes(W)[0] = <<>>
           /\ \A i \in 1 .. n : Gen!Prefixes(W)[i] = Gen!Prefixes(W)[i - 1] \o W[i]
<1> DEFINE Until(e, m) == /\ e \in [0 .. m -> Seq(Int)]
                          /\ e[0] = <<>>
                          /\ \A i \in 1 .. m : e[i] = e[i - 1] \o W[i]
           S == {m \in 0 .. n : \E e : Until(e, m)}
<1>1. 0 \in S
  <2> DEFINE e == [i \in 0 .. 0 |-> <<>>]
  <2>1. Until(e, 0)
    OBVIOUS
  <2> HIDE DEF e, Until
  <2> QED
    BY <2>1
<1>2. ASSUME NEW m \in 0 .. n - 1, m \in S PROVE m + 1 \in S
  <2> PICK e : Until(e, m)
    BY <1>2
  <2> DEFINE next == e[m] \o W[m + 1]
             d == [i \in 0 .. m + 1 |-> IF i = m + 1 THEN next ELSE e[i]]
  <2>1. next \in Seq(Int)
    OBVIOUS
  <2> HIDE DEF next
  <2>2. d \in [0 .. m + 1 -> Seq(Int)] /\ d[0] = <<>>
    BY <2>1
  <2>3. ASSUME NEW i \in 1 .. m + 1 PROVE d[i] = d[i - 1] \o W[i]
    <3>1. CASE i = m + 1
      <4>1. d[i] = next /\ d[i - 1] = e[m]
        BY <3>1
      <4> QED
        BY <3>1, <4>1 DEF next
    <3>2. CASE i \in 1 .. m
      <4>1. d[i] = e[i] /\ d[i - 1] = e[i - 1]
        BY <3>2
      <4> QED
        BY <3>2, <4>1
    <3> HIDE DEF d, next
    <3>3. i \in 1 .. m \/ i = m + 1
      OBVIOUS
    <3> QED
      BY <3>1, <3>2, <3>3
  <2> HIDE DEF d
  <2>4. Until(d, m + 1)
    BY <2>2, <2>3
  <2> HIDE DEF Until
  <2> QED
    BY <2>4
<1>3. n \in S
  <2> HIDE DEF S
  <2>1. \A i \in 0 .. n : i \in S
    BY <1>1, <1>2, Induction
  <2> QED
    BY <2>1
<1> PICK e : Until(e, n)
  <2> HIDE DEF Until
  <2> QED
    BY <1>3
<1> DEFINE Rec(g) == g = [i \in 0 .. n |-> IF i = 0 THEN <<>> ELSE g[i - 1] \o W[i]]
<1>4. Rec(e)
  <2>1. ASSUME NEW i \in 0 .. n PROVE e[i] = IF i = 0 THEN <<>> ELSE e[i - 1] \o W[i]
    <3>1. i = 0 \/ i \in 1 .. n
      OBVIOUS
    <3> QED
      BY <3>1
  <2> QED
    BY <2>1
<1>5. Rec(Gen!Prefixes(W))
  <2>1. Gen!Prefixes(W) = CHOOSE g : Rec(g)
    BY DEF Gen!Prefixes
  <2> HIDE DEF Rec
  <2> QED
    BY <1>4, <2>1
<1> DEFINE E == Gen!Prefixes(W)
<1>6. E[0] = <<>> /\ \A i \in 1 .. n : E[i] = E[i - 1] \o W[i]
  <2> HIDE DEF E
  <2>1. E = [i \in 0 .. n |-> IF i = 0 THEN <<>> ELSE E[i - 1] \o W[i]]
    BY <1>5 DEF E
  <2>2. \A i \in 0 .. n : E[i] = IF i = 0 THEN <<>> ELSE E[i - 1] \o W[i]
    BY <2>1, Zenon
  <2>3. 0 \in 0 .. n
    OBVIOUS
  <2>4. E[0] = <<>>
    BY <2>2, <2>3, Zenon
  <2>5. ASSUME NEW i \in 1 .. n PROVE E[i] = E[i - 1] \o W[i]
    <3>1. i \in 0 .. n /\ i # 0
      OBVIOUS
    <3> QED
      BY <2>2, <3>1, Zenon
  <2> QED
    BY <2>4, <2>5, Zenon
<1>7. E \in [0 .. n -> Seq(Int)]
  <2> DEFINE Q == {m \in 0 .. n : E[m] \in Seq(Int)}
  <2>1. 0 \in Q
    BY <1>6
  <2>2. ASSUME NEW m \in 0 .. n - 1, m \in Q PROVE m + 1 \in Q
    <3> DEFINE i == m + 1
    <3>0. i \in 1 .. n /\ i - 1 = m
      OBVIOUS
    <3> HIDE DEF i, E
    <3>1. E[i] = E[m] \o W[i]
      BY <1>6, <3>0, Zenon
    <3>2. E[m] \in Seq(Int) /\ W[i] \in Seq(Int)
      BY <2>2, <3>0
    <3>3. E[i] \in Seq(Int)
      BY <3>1, <3>2
    <3> QED
      BY <3>0, <3>3 DEF i
  <2>3. \A m \in 0 .. n : m \in Q
    <3> HIDE DEF Q
    <3> QED
      BY <2>1, <2>2, Induction
  <2> HIDE DEF E
  <2>4. E = [i \in 0 .. n |-> E[i]]
    BY <1>5 DEF E
  <2> QED
    BY <2>3, <2>4
<1> QED
  BY <1>6, <1>7

\* A sequence of sequences of words, none of them empty.
Pieces(n, W) ==
    /\ n \in Nat /\ W \in [1 .. n -> Seq(Int)] /\ Len(W) = n
    /\ \A i \in 1 .. n : Len(W[i]) >= 1

\* How long the first i pieces are together.
End(W, i) == Len(Gen!Prefixes(W)[i])

\* Where each piece ends, counted from the end of the piece before it.
LEMMA Ends ==
    ASSUME NEW n, NEW W, Pieces(n, W)
    PROVE  /\ \A i \in 0 .. n : End(W, i) \in Nat /\ Gen!Prefixes(W)[i] \in Seq(Int)
           /\ End(W, 0) = 0
           /\ \A i \in 1 .. n : End(W, i) = End(W, i - 1) + Len(W[i])
<1> DEFINE E == Gen!Prefixes(W)
<1>1. /\ n \in Nat /\ W \in [1 .. n -> Seq(Int)]
      /\ E \in [0 .. n -> Seq(Int)]
      /\ E[0] = <<>>
  BY PrefixesRecursion DEF Pieces
<1>4. \A i \in 1 .. n : E[i] = E[i - 1] \o W[i]
  BY PrefixesRecursion DEF Pieces
<1> HIDE DEF E
<1>2. \A i \in 1 .. n : Len(E[i]) = Len(E[i - 1]) + Len(W[i])
  <2> SUFFICES ASSUME NEW i \in 1 .. n PROVE Len(E[i]) = Len(E[i - 1]) + Len(W[i])
    OBVIOUS
  <2>1. E[i - 1] \in Seq(Int) /\ W[i] \in Seq(Int)
    BY <1>1
  <2> QED
    BY <1>4, <2>1, ConcatProperties
<1>3. Len(E[0]) = 0 /\ \A i \in 0 .. n : Len(E[i]) \in Nat /\ E[i] \in Seq(Int)
  BY <1>1
<1> QED
  BY <1>2, <1>3 DEF End, E

\* Pieces follow each other, and what is behind them does not move them.
LEMMA EndsRise ==
    ASSUME NEW n, NEW W, Pieces(n, W), NEW j \in 0 .. n, NEW i \in 0 .. j
    PROVE  /\ End(W, i) <= End(W, j)
           /\ i < j => End(W, i) < End(W, j)
           /\ \A p \in 1 .. End(W, i) : Gen!Prefixes(W)[j][p] = Gen!Prefixes(W)[i][p]
<1> DEFINE E == Gen!Prefixes(W)
           Same(a) == \A p \in 1 .. End(W, i) : E[a][p] = E[i][p]
           S == {d \in 0 .. n - i : /\ End(W, i) + d <= End(W, i + d) /\ Same(i + d)}
<1>0. /\ n \in Nat /\ W \in [1 .. n -> Seq(Int)]
      /\ E \in [0 .. n -> Seq(Int)]
      /\ \A k \in 1 .. n : E[k] = E[k - 1] \o W[k] /\ Len(W[k]) >= 1
      /\ \A k \in 0 .. n : Len(E[k]) = End(W, k) /\ End(W, k) \in Nat
      /\ \A k \in 1 .. n : End(W, k) = End(W, k - 1) + Len(W[k])
  BY PrefixesRecursion, Ends DEF Pieces, End
<1> HIDE DEF E
<1>1. 0 \in S
  BY <1>0
<1>2. ASSUME NEW d \in 0 .. (n - i) - 1, d \in S PROVE d + 1 \in S
  <2> DEFINE a == i + d
             b == i + (d + 1)
  <2>0. a \in 0 .. n /\ b \in 1 .. n /\ b - 1 = a /\ d \in Nat /\ i \in Nat
    BY <1>0
  <2> HIDE DEF a, b
  <2>1. End(W, i) + d <= End(W, a) /\ Same(a)
    BY <1>2 DEF a
  <2>2. /\ E[b] = E[a] \o W[b] /\ Len(W[b]) >= 1
        /\ End(W, b) = End(W, a) + Len(W[b])
    BY <1>0, <2>0
  <2>6. /\ E[a] \in Seq(Int) /\ W[b] \in Seq(Int) /\ Len(E[a]) = End(W, a)
        /\ End(W, a) \in Nat /\ End(W, i) \in Nat /\ Len(W[b]) \in Nat
    BY <1>0, <2>0
  <2>3. End(W, i) + (d + 1) <= End(W, b)
    BY <2>0, <2>1, <2>2, <2>6
  <2>4. Same(b)
    <3> SUFFICES ASSUME NEW p \in 1 .. End(W, i) PROVE E[b][p] = E[i][p]
      OBVIOUS
    <3>1. p \in 1 .. Len(E[a])
      BY <2>0, <2>1, <2>6
    <3>2. /\ p \in 1 .. Len(E[a]) + Len(W[b]) /\ p <= Len(E[a])
      BY <2>6, <3>1
    <3>3. E[b][p] = (E[a] \o W[b])[p]
      BY <2>2
    <3>4. (E[a] \o W[b])[p] = E[a][p]
      BY <2>6, <3>2, ConcatProperties
    <3> QED
      BY <2>1, <3>1, <3>3, <3>4
  <2>5. d + 1 \in 0 .. n - i
    BY <1>0
  <2> QED
    BY <2>3, <2>4, <2>5 DEF b
<1>3. j - i \in S
  <2>1. n - i \in Nat /\ j - i \in 0 .. n - i
    BY <1>0
  <2> HIDE DEF S
  <2>2. \A d \in 0 .. n - i : d \in S
    BY <1>1, <1>2, <2>1, Induction
  <2> QED
    BY <2>1, <2>2
<1>4. i + (j - i) = j /\ i \in Nat /\ j \in Nat /\ End(W, i) \in Nat /\ End(W, j) \in Nat
  BY <1>0
<1>5. End(W, i) + (j - i) <= End(W, j) /\ Same(j)
  BY <1>3, <1>4
<1> QED
  BY <1>4, <1>5 DEF E

\* Word p of piece i is the one that far behind the pieces before it.
LEMMA PieceAt ==
    ASSUME NEW n, NEW W, Pieces(n, W), NEW i \in 1 .. n, NEW p \in 1 .. Len(W[i])
    PROVE  /\ End(W, i - 1) + p \in 1 .. End(W, i)
           /\ Gen!Prefixes(W)[n][End(W, i - 1) + p] = W[i][p]
<1> DEFINE E == Gen!Prefixes(W)
           q == End(W, i - 1) + p
<1>1. /\ n \in Nat /\ i - 1 \in 0 .. n /\ i \in 0 .. n /\ n \in 0 .. n
      /\ W[i] \in Seq(Int) /\ E[i - 1] \in Seq(Int)
      /\ End(W, i - 1) \in Nat /\ Len(W[i]) \in Nat
      /\ End(W, i) = End(W, i - 1) + Len(W[i])
      /\ Len(E[i - 1]) = End(W, i - 1)
  <2>1. i - 1 \in 0 .. n /\ n \in Nat
    BY DEF Pieces
  <2>2. W[i] \in Seq(Int) /\ Len(W[i]) \in Nat
    BY DEF Pieces
  <2>3. i \in 0 .. n /\ n \in 0 .. n
    BY <2>1
  <2>4. /\ End(W, i - 1) \in Nat /\ E[i - 1] \in Seq(Int)
        /\ End(W, i) = End(W, i - 1) + Len(W[i])
    BY <2>1, Ends
  <2> QED
    BY <2>1, <2>2, <2>3, <2>4 DEF End
<1>5. E[i] = E[i - 1] \o W[i]
  BY PrefixesRecursion DEF Pieces
<1> HIDE DEF E
<1>2. q \in 1 .. End(W, i)
  BY <1>1
<1>3. E[i][q] = W[i][p]
  <2>1. /\ q \in 1 .. Len(E[i - 1]) + Len(W[i])
        /\ ~(q <= Len(E[i - 1])) /\ q - Len(E[i - 1]) = p
    <3>1. \A x, y \in Nat : \A z \in 1 .. y :
             x + z \in 1 .. x + y /\ ~(x + z <= x) /\ (x + z) - x = z
      OBVIOUS
    <3>2. p \in 1 .. Len(W[i]) /\ Len(W[i]) \in Nat /\ Len(E[i - 1]) \in Nat
          /\ q = Len(E[i - 1]) + p
      BY <1>1
    <3> HIDE DEF q
    <3> QED
      BY <3>1, <3>2
  <2> HIDE DEF q
  <2>2. (E[i - 1] \o W[i])[q] = W[i][p]
    BY <1>1, <2>1, ConcatProperties
  <2> QED
    BY <1>5, <2>2
<1>4. E[n][q] = E[i][q]
  <2>1. n \in 0 .. n /\ i \in 0 .. n
    BY <1>1
  <2>2. \A p2 \in 1 .. End(W, i) : E[n][p2] = E[i][p2]
    BY <2>1, EndsRise DEF E
  <2> HIDE DEF q
  <2> QED
    BY <1>2, <2>2
<1> QED
  BY <1>2, <1>3, <1>4 DEF E

\* As many pieces begin before the end of k as k.
LEMMA EndsBelow ==
    ASSUME NEW n, NEW W, Pieces(n, W), NEW k \in 0 .. n
    PROVE  Cardinality({s \in {End(W, i - 1) : i \in 1 .. n} : s < End(W, k)}) = k
<1> DEFINE B == {s \in {End(W, i - 1) : i \in 1 .. n} : s < End(W, k)}
           b == [i \in 1 .. k |-> End(W, i - 1)]
<1>1. n \in Nat /\ k \in Nat
  BY DEF Pieces
<1>2. \A i \in 1 .. k : i \in 1 .. n /\ End(W, i - 1) < End(W, k)
  <2> SUFFICES ASSUME NEW i \in 1 .. k
               PROVE  i \in 1 .. n /\ End(W, i - 1) < End(W, k)
    OBVIOUS
  <2>1. i \in 1 .. n /\ i - 1 \in 0 .. k /\ i - 1 < k
    BY <1>1
  <2> QED
    BY <2>1, EndsRise
<1>3. b \in [1 .. k -> B]
  BY <1>2
<1>4. \A s \in B : \E i \in 1 .. k : b[i] = s
  <2> SUFFICES ASSUME NEW i \in 1 .. n, End(W, i - 1) < End(W, k)
               PROVE  i \in 1 .. k
    OBVIOUS
  <2> SUFFICES ASSUME i - 1 >= k PROVE FALSE
    BY <1>1
  <2>1. i - 1 \in 0 .. n /\ k \in 0 .. i - 1
    BY <1>1
  <2>2. End(W, k) <= End(W, i - 1) /\ End(W, k) \in Nat /\ End(W, i - 1) \in Nat
    BY <2>1, EndsRise, Ends
  <2> QED
    BY <2>2
<1>5. \A i, j \in 1 .. k : i < j => b[i] # b[j]
  <2> SUFFICES ASSUME NEW i \in 1 .. k, NEW j \in 1 .. k, i < j
               PROVE  End(W, i - 1) # End(W, j - 1)
    OBVIOUS
  <2>1. i - 1 \in 0 .. j - 1 /\ j - 1 \in 0 .. n /\ i - 1 < j - 1 /\ i - 1 \in 0 .. n
    BY <1>1
  <2>2. End(W, i - 1) < End(W, j - 1) /\ End(W, i - 1) \in Nat /\ End(W, j - 1) \in Nat
    BY <2>1, EndsRise, Ends
  <2> QED
    BY <2>2
<1>6. b \in Bijection(1 .. k, B)
  <2> HIDE DEF b, B
  <2>1. \A i, j \in 1 .. k : b[i] = b[j] => i = j
    BY <1>1, <1>5
  <2>2. b \in Surjection(1 .. k, B)
    BY <1>3, <1>4 DEF Surjection
  <2>3. b \in Injection(1 .. k, B)
    BY <1>3, <2>1 DEF Injection, IsInjective
  <2> QED
    BY <2>2, <2>3 DEF Bijection
<1>7. IsFiniteSet(1 .. k) /\ Cardinality(1 .. k) = k
  BY <1>1, FS_Interval
<1> HIDE DEF b, B
<1>8. Cardinality(B) = k
  BY <1>6, <1>7, FS_Bijection DEF ExistsBijection
<1> QED
  BY <1>8 DEF B

-----------------------------------------------------------------------------
(* Operations and names.                                                   *)

MirOps == {"const_int", "bind_local", "store_local", "load_local", "call", "label", "jump",
           "jump_if_false", "return_local", "return_temp", "return_const_int"}

\* The operations of the two ends have the same names and the same meaning.
LEMMA Operations ==
    /\ DOMAIN Gen!BinaryOpcode = Mir!Operators
    /\ Mir!Operators \cap MirOps = {}
    /\ \A op \in Mir!Operators : Gen!BinaryOpcode[op] \in BinaryOps
<1>1. DOMAIN Gen!BinaryOpcode = Mir!Operators
  BY DEF Gen!BinaryOpcode, Mir!Operators
<1>2. Mir!Operators \cap MirOps = {}
  BY DEF MirOps, Mir!Operators
<1>3. ASSUME NEW op \in Mir!Operators PROVE Gen!BinaryOpcode[op] \in BinaryOps
  BY DEF Gen!BinaryOpcode, Mir!Operators, BinaryOps, ADD_INT, GE_INT,
     Gen!ADD_INT, Gen!SUB_INT, Gen!MUL_INT, Gen!DIV_INT, Gen!EQ_INT, Gen!NE_INT,
     Gen!LT_INT, Gen!LE_INT, Gen!GT_INT, Gen!GE_INT
<1> QED
  BY <1>1, <1>2, <1>3

\* The machine computes for each operator what the MIR means by it.
LEMMA SameOperation ==
    ASSUME NEW op \in Mir!Operators, NEW x, NEW y
    PROVE  /\ Compute(Gen!BinaryOpcode[op], x, y) = Mir!Apply(op, x, y)
           /\ Gen!BinaryOpcode[op] = DIV_INT <=> op = "div"
BY DEF Gen!BinaryOpcode, Mir!Operators, Compute, Mir!Apply, ADD_INT, SUB_INT, MUL_INT,
   DIV_INT, EQ_INT, NE_INT, LT_INT, LE_INT, GT_INT, GE_INT, Gen!ADD_INT, Gen!SUB_INT,
   Gen!MUL_INT, Gen!DIV_INT, Gen!EQ_INT, Gen!NE_INT, Gen!LT_INT, Gen!LE_INT, Gen!GT_INT,
   Gen!GE_INT, Wrap, Mir!Wrap, Mir!MaxInt, MaxInt, Quotient, Mir!Quotient, Magnitude,
   Mir!Magnitude, Bool, Mir!Bool

\* A set of numbers that is not empty has a smallest.
LEMMA SmallestExists ==
    ASSUME NEW S, S \subseteq Nat, S # {}
    PROVE  \E k \in S : \A j \in S : k <= j
<1> DEFINE R == OpToRel(<, Nat)
<1>1. IsWellFoundedOn(R, Nat)
  BY NatLessThanWellFounded
<1>2. \A x, y \in Nat : x < y => <<x, y>> \in R
  BY DEF OpToRel
<1> HIDE DEF R
<1>3. PICK k \in S : \A j \in S : <<j, k>> \notin R
  BY <1>1, WFMin
<1>4. ASSUME NEW j \in S PROVE k <= j
  <2>1. j \in Nat /\ k \in Nat /\ ~(j < k)
    BY <1>2, <1>3
  <2> QED
    BY <2>1
<1> QED
  BY <1>4

\* The index that a search for the first place yields.
LEMMA FirstIs ==
    ASSUME NEW n \in Nat, NEW S, S \subseteq 1 .. n
    PROVE  /\ S = {} => Gen!First(S) = -1
           /\ S # {} => /\ Gen!First(S) \in 0 .. n - 1
                        /\ Gen!First(S) + 1 \in S
                        /\ \A j \in S : Gen!First(S) + 1 <= j
<1>1. S = {} => Gen!First(S) = -1
  BY DEF Gen!First
<1>2. ASSUME S # {}
      PROVE  /\ Gen!First(S) \in 0 .. n - 1 /\ Gen!First(S) + 1 \in S
             /\ \A j \in S : Gen!First(S) + 1 <= j
  <2> DEFINE c == CHOOSE i \in S : \A j \in S : i <= j
  <2>1. S \subseteq Nat
    OBVIOUS
  <2>2. c \in S /\ \A j \in S : c <= j
    BY <1>2, <2>1, SmallestExists
  <2>3. Gen!First(S) = c - 1
    BY <1>2 DEF Gen!First
  <2> HIDE DEF c
  <2>4. c \in 1 .. n /\ (c - 1) + 1 = c
    BY <2>2
  <2> QED
    BY <2>2, <2>3, <2>4
<1> QED
  BY <1>1, <1>2

\* The programs that the lowering leaves.
LoweredProgram(mir) ==
    /\ mir \in Seq({mir[i] : i \in DOMAIN mir})
    /\ \A i \in DOMAIN mir : LoweredFunction(mir[i])

\* A name is found among the locals exactly if it is one, at its first place.
LEMMA LocalIndex ==
    ASSUME NEW f, LoweredFunction(f), NEW n
    PROVE  /\ Len(f.locals) \in Nat /\ DOMAIN f.locals = 1 .. Len(f.locals)
           /\ Gen!find_local_index(f, n) \in Int
           /\ Gen!find_local_index(f, n) >= 0 <=> n \in Mir!Names(f)
           /\ n \in Mir!Names(f) =>
                 /\ Gen!find_local_index(f, n) \in 0 .. Len(f.locals) - 1
                 /\ Gen!find_local_index(f, n) \in Locals
                 /\ Mir!Declared(f, n) = Gen!find_local_index(f, n) + 1
<1> DEFINE S == {i \in DOMAIN f.locals : f.locals[i] = n}
           d == Mir!Declared(f, n)
<1>1. Len(f.locals) \in Nat /\ DOMAIN f.locals = 1 .. Len(f.locals)
  BY LenProperties DEF LoweredFunction
<1>2. S \subseteq 1 .. Len(f.locals)
  BY <1>1
<1>3. Gen!find_local_index(f, n) = Gen!First(S)
  BY DEF Gen!find_local_index
<1>4. n \in Mir!Names(f) <=> S # {}
  BY DEF Mir!Names
<1>5. /\ S = {} => Gen!First(S) = -1
      /\ S # {} => /\ Gen!First(S) \in 0 .. Len(f.locals) - 1
                   /\ Gen!First(S) + 1 \in S
                   /\ \A j \in S : Gen!First(S) + 1 <= j
  <2> HIDE DEF S
  <2> QED
    BY <1>1, <1>2, FirstIs
<1>6. Len(f.locals) <= MaxLocals /\ MaxLocals \in Nat
  BY VMAssumption DEF LoweredFunction
<1>7. ASSUME S # {} PROVE d = Gen!First(S) + 1
  <2>1. d = CHOOSE i \in S : \A j \in S : i <= j
    BY DEF Mir!Declared
  <2>2. d \in S /\ \A j \in S : d <= j
    <3> HIDE DEF S, d
    <3> QED
      BY <1>5, <1>7, <2>1
  <2>3. d \in Int /\ Gen!First(S) + 1 \in Int /\ d <= Gen!First(S) + 1 /\ Gen!First(S) + 1 <= d
    <3> HIDE DEF S, d
    <3> QED
      BY <1>1, <1>2, <1>5, <1>7, <2>2
  <2> HIDE DEF S, d
  <2> QED
    BY <2>3
<1> HIDE DEF S, d
<1>8. Gen!First(S) \in Int /\ (Gen!First(S) >= 0 <=> S # {})
  BY <1>1, <1>5
<1>9. S # {} => Gen!First(S) \in Locals
  BY <1>1, <1>5, <1>6 DEF Locals
<1> QED
  BY <1>1, <1>3, <1>4, <1>5, <1>7, <1>8, <1>9 DEF d

\* A callee that is found is a function of the program with that name.
LEMMA FunctionIndex ==
    ASSUME NEW mir, LoweredProgram(mir), NEW n
    PROVE  /\ Len(mir) \in Nat /\ DOMAIN mir = 1 .. Len(mir)
           /\ Gen!find_function_index(mir, n) \in Int
           /\ Gen!find_function_index(mir, n) >= 0 =>
                 /\ Gen!find_function_index(mir, n) \in 0 .. Len(mir) - 1
                 /\ Gen!find_function_index(mir, n) + 1 \in DOMAIN mir
                 /\ mir[Gen!find_function_index(mir, n) + 1].name = n
<1> DEFINE S == {i \in DOMAIN mir : mir[i].name = n}
<1>1. Len(mir) \in Nat /\ DOMAIN mir = 1 .. Len(mir)
  BY LenProperties DEF LoweredProgram
<1>2. S \subseteq 1 .. Len(mir)
  BY <1>1
<1>3. Gen!find_function_index(mir, n) = Gen!First(S)
  BY DEF Gen!find_function_index
<1>4. /\ S = {} => Gen!First(S) = -1
      /\ S # {} => Gen!First(S) \in 0 .. Len(mir) - 1 /\ Gen!First(S) + 1 \in S
  <2> HIDE DEF S
  <2> QED
    BY <1>1, <1>2, FirstIs
<1>5. CASE S = {}
  BY <1>1, <1>3, <1>4, <1>5
<1>6. CASE S # {}
  BY <1>1, <1>3, <1>4, <1>6
<1> QED
  BY <1>5, <1>6

\* The words of each instruction.
LEMMA WordsOf ==
    ASSUME NEW mir, NEW f, NEW ins, NEW w, w = Gen!Words(mir, f, ins), Lowered(ins)
    PROVE  /\ ins.op \in MirOps \cup Mir!Operators
           /\ ins.op = "const_int" => w = <<CONST_INT, ins.dst, ins.value>>
           /\ ins.op \in {"bind_local", "store_local"} =>
                 w = <<STORE_LOCAL, Gen!find_local_index(f, ins.name), ins.dst>>
           /\ ins.op = "load_local" =>
                 w = <<LOAD_LOCAL, ins.dst, Gen!find_local_index(f, ins.name)>>
           /\ ins.op = "call" =>
                 w = <<CALL, ins.dst, Gen!find_function_index(mir, ins.name), Len(ins.args)>>
                        \o ins.args
           /\ ins.op \in Mir!Operators =>
                 w = <<Gen!BinaryOpcode[ins.op], ins.dst, ins.lhs, ins.rhs>>
           /\ ins.op = "label" => w = <<LABEL, ins.value>>
           /\ ins.op = "jump" => w = <<JUMP, ins.value>>
           /\ ins.op = "jump_if_false" => w = <<JUMP_IF_FALSE, ins.dst, ins.value>>
           /\ ins.op = "return_local" =>
                 w = <<RETURN_LOCAL, Gen!find_local_index(f, ins.name)>>
           /\ ins.op = "return_temp" => w = <<RETURN_TEMP, ins.dst>>
           /\ ins.op = "return_const_int" => w = <<RETURN_CONST_INT, ins.value>>
<1>1. DOMAIN Gen!BinaryOpcode = Mir!Operators /\ Mir!Operators \cap MirOps = {}
  BY Operations
<1>2. ins.op \in MirOps \cup Mir!Operators
  BY <1>1 DEF Lowered, MirOps
<1>3. /\ CONST_INT = Gen!CONST_INT /\ STORE_LOCAL = Gen!STORE_LOCAL
      /\ LOAD_LOCAL = Gen!LOAD_LOCAL /\ CALL = Gen!CALL /\ LABEL = Gen!LABEL
      /\ JUMP = Gen!JUMP /\ JUMP_IF_FALSE = Gen!JUMP_IF_FALSE
      /\ RETURN_LOCAL = Gen!RETURN_LOCAL /\ RETURN_TEMP = Gen!RETURN_TEMP
      /\ RETURN_CONST_INT = Gen!RETURN_CONST_INT
  BY DEF CONST_INT, Gen!CONST_INT, STORE_LOCAL, Gen!STORE_LOCAL, LOAD_LOCAL, Gen!LOAD_LOCAL,
     CALL, Gen!CALL, LABEL, Gen!LABEL, JUMP, Gen!JUMP, JUMP_IF_FALSE, Gen!JUMP_IF_FALSE,
     RETURN_LOCAL, Gen!RETURN_LOCAL, RETURN_TEMP, Gen!RETURN_TEMP, RETURN_CONST_INT,
     Gen!RETURN_CONST_INT
<1>4. CASE ins.op \in Mir!Operators
  BY <1>1, <1>4 DEF Gen!Words, MirOps
<1>5. CASE ins.op \in MirOps
  BY <1>1, <1>3, <1>5 DEF Gen!Words, MirOps
<1> QED
  BY <1>2, <1>4, <1>5

-----------------------------------------------------------------------------
(* The words of one instruction.                                           *)

\* What the words of an instruction are, one by one.
Shape(mir, f, ins, w) ==
    \/ /\ ins.op = "const_int" /\ Len(w) = 3
       /\ w[1] = CONST_INT /\ w[2] = ins.dst /\ w[3] = ins.value
       /\ ins.dst \in Regs /\ ins.value \in Word
    \/ /\ ins.op \in {"bind_local", "store_local"} /\ Len(w) = 3
       /\ w[1] = STORE_LOCAL /\ w[2] = Gen!find_local_index(f, ins.name) /\ w[3] = ins.dst
       /\ ins.name \in Mir!Names(f) /\ ins.dst \in Regs
    \/ /\ ins.op = "load_local" /\ Len(w) = 3
       /\ w[1] = LOAD_LOCAL /\ w[2] = ins.dst /\ w[3] = Gen!find_local_index(f, ins.name)
       /\ ins.name \in Mir!Names(f) /\ ins.dst \in Regs
    \/ /\ ins.op = "call" /\ Len(w) = 4 + Len(ins.args)
       /\ w[1] = CALL /\ w[2] = ins.dst /\ w[3] = Gen!find_function_index(mir, ins.name)
       /\ w[4] = Len(ins.args)
       /\ \A i \in 1 .. Len(ins.args) : w[4 + i] = ins.args[i]
       /\ Gen!find_function_index(mir, ins.name) >= 0
       /\ ins.dst \in Regs /\ ins.args \in Seq(Regs)
    \/ /\ ins.op \in Mir!Operators /\ Len(w) = 4
       /\ w[1] = Gen!BinaryOpcode[ins.op]
       /\ w[2] = ins.dst /\ w[3] = ins.lhs /\ w[4] = ins.rhs
       /\ ins.dst \in Regs /\ ins.lhs \in Regs /\ ins.rhs \in Regs
    \/ /\ ins.op = "label" /\ Len(w) = 2 /\ w[1] = LABEL /\ w[2] = ins.value
       /\ ins.value \in 0 .. MaxCode - 1
    \/ /\ ins.op = "jump" /\ Len(w) = 2 /\ w[1] = JUMP /\ w[2] = ins.value
       /\ ins.value \in Int
    \/ /\ ins.op = "jump_if_false" /\ Len(w) = 3
       /\ w[1] = JUMP_IF_FALSE /\ w[2] = ins.dst /\ w[3] = ins.value
       /\ ins.dst \in Regs /\ ins.value \in Int
    \/ /\ ins.op = "return_local" /\ Len(w) = 2
       /\ w[1] = RETURN_LOCAL /\ w[2] = Gen!find_local_index(f, ins.name)
       /\ ins.name \in Mir!Names(f)
    \/ /\ ins.op = "return_temp" /\ Len(w) = 2 /\ w[1] = RETURN_TEMP /\ w[2] = ins.dst
       /\ ins.dst \in Regs
    \/ /\ ins.op = "return_const_int" /\ Len(w) = 2
       /\ w[1] = RETURN_CONST_INT /\ w[2] = ins.value /\ ins.value \in Word

\* Registers and words are integers.
LEMMA RangesAreInts == (\A r \in Regs : r \in Int) /\ (\A v \in Word : v \in Int)
BY WordFacts DEF Regs

\* Short sequences and their lengths.
LEMMA Tuples ==
    ASSUME NEW a \in Int, NEW b \in Int, NEW c \in Int, NEW d \in Int
    PROVE  /\ <<a, b>> \in Seq(Int) /\ Len(<<a, b>>) = 2
           /\ <<a, b, c>> \in Seq(Int) /\ Len(<<a, b, c>>) = 3
           /\ <<a, b, c, d>> \in Seq(Int) /\ Len(<<a, b, c, d>>) = 4
  OBVIOUS

\* The words generated for an instruction whose names are found.
LEMMA WordsHaveShape ==
    ASSUME NEW mir, LoweredProgram(mir), NEW f, LoweredFunction(f),
           NEW ins, Lowered(ins), Gen!NamesFound(mir, f, ins),
           NEW w, w = Gen!Words(mir, f, ins)
    PROVE  w \in Seq(Int) /\ Shape(mir, f, ins, w)
<1>1. ins.op \in MirOps \cup Mir!Operators
  BY WordsOf
<1>2. DOMAIN Gen!BinaryOpcode = Mir!Operators /\ Mir!Operators \cap MirOps = {}
  BY Operations
<1>3. CASE ins.op = "const_int"
  <2>1. w = <<CONST_INT, ins.dst, ins.value>>
    BY <1>3, WordsOf
  <2>2. ins.dst \in Regs /\ ins.value \in Word
    BY <1>2, <1>3 DEF Lowered, MirOps
  <2>3. CONST_INT \in Int /\ ins.dst \in Int /\ ins.value \in Int
    BY <2>2, RangesAreInts DEF CONST_INT
  <2>4. w \in Seq(Int) /\ Len(w) = 3
    BY <2>1, <2>3, Tuples
  <2> QED
    BY <1>3, <2>1, <2>2, <2>4 DEF Shape
<1>4. CASE ins.op \in {"bind_local", "store_local"}
  <2>1. w = <<STORE_LOCAL, Gen!find_local_index(f, ins.name), ins.dst>>
    BY <1>4, WordsOf
  <2>2. ins.dst \in Regs
    BY <1>2, <1>4 DEF Lowered, MirOps
  <2>3. ins.name \in Mir!Names(f) /\ Gen!find_local_index(f, ins.name) \in Int
    BY <1>4, LocalIndex DEF Gen!NamesFound, Gen!LocalOps
  <2>4. STORE_LOCAL \in Int /\ ins.dst \in Int
    BY <2>2, RangesAreInts DEF STORE_LOCAL
  <2>5. w \in Seq(Int) /\ Len(w) = 3
    BY <2>1, <2>3, <2>4, Tuples
  <2> QED
    BY <1>4, <2>1, <2>2, <2>3, <2>5 DEF Shape
<1>5. CASE ins.op = "load_local"
  <2>1. w = <<LOAD_LOCAL, ins.dst, Gen!find_local_index(f, ins.name)>>
    BY <1>5, WordsOf
  <2>2. ins.dst \in Regs
    BY <1>2, <1>5 DEF Lowered, MirOps
  <2>3. ins.name \in Mir!Names(f) /\ Gen!find_local_index(f, ins.name) \in Int
    BY <1>5, LocalIndex DEF Gen!NamesFound, Gen!LocalOps
  <2>4. LOAD_LOCAL \in Int /\ ins.dst \in Int
    BY <2>2, RangesAreInts DEF LOAD_LOCAL
  <2>5. w \in Seq(Int) /\ Len(w) = 3
    BY <2>1, <2>3, <2>4, Tuples
  <2> QED
    BY <1>5, <2>1, <2>2, <2>3, <2>5 DEF Shape
<1>6. CASE ins.op = "call"
  <2> DEFINE head == <<CALL, ins.dst, Gen!find_function_index(mir, ins.name), Len(ins.args)>>
  <2>1. w = head \o ins.args
    BY <1>6, WordsOf
  <2>2. ins.dst \in Regs /\ ins.args \in Seq(Regs)
    BY <1>2, <1>6 DEF Lowered, MirOps
  <2>3. Gen!find_function_index(mir, ins.name) >= 0
        /\ Gen!find_function_index(mir, ins.name) \in Int
    BY <1>6, FunctionIndex DEF Gen!NamesFound
  <2>4. ins.args \in Seq(Int) /\ Len(ins.args) \in Nat
    BY <2>2, RangesAreInts, SeqMonotonic, LenProperties
  <2>5. /\ head \in Seq(Int) /\ Len(head) = 4
        /\ head[1] = CALL /\ head[2] = ins.dst
        /\ head[3] = Gen!find_function_index(mir, ins.name) /\ head[4] = Len(ins.args)
    <3>1. CALL \in Int /\ ins.dst \in Int /\ Len(ins.args) \in Int
      BY <2>2, <2>4, RangesAreInts DEF CALL
    <3>2. head \in Seq(Int) /\ Len(head) = 4
      BY <2>3, <3>1, Tuples
    <3> QED
      BY <3>2
  <2> HIDE DEF head
  <2>6. /\ w \in Seq(Int) /\ Len(w) = 4 + Len(ins.args)
        /\ \A i \in 1 .. 4 + Len(ins.args) :
              w[i] = IF i <= 4 THEN head[i] ELSE ins.args[i - 4]
    <3>1. /\ head \o ins.args \in Seq(Int)
          /\ Len(head \o ins.args) = Len(head) + Len(ins.args)
          /\ \A i \in 1 .. Len(head) + Len(ins.args) : (head \o ins.args)[i] =
                IF i <= Len(head) THEN head[i] ELSE ins.args[i - Len(head)]
      BY <2>4, <2>5, ConcatProperties
    <3>2. Len(head) = 4
      BY <2>5
    <3> QED
      BY <2>1, <3>1, <3>2, Zenon
  <2>7. w[1] = head[1] /\ w[2] = head[2] /\ w[3] = head[3] /\ w[4] = head[4]
    <3>1. 1 \in 1 .. 4 + Len(ins.args) /\ 2 \in 1 .. 4 + Len(ins.args)
          /\ 3 \in 1 .. 4 + Len(ins.args) /\ 4 \in 1 .. 4 + Len(ins.args)
      BY <2>4
    <3> QED
      BY <2>6, <3>1
  <2>8. ASSUME NEW i \in 1 .. Len(ins.args) PROVE w[4 + i] = ins.args[i]
    <3>1. 4 + i \in 1 .. 4 + Len(ins.args) /\ ~(4 + i <= 4) /\ (4 + i) - 4 = i
      BY <2>4
    <3> QED
      BY <2>6, <3>1
  <2> QED
    BY <1>6, <2>2, <2>3, <2>5, <2>6, <2>7, <2>8 DEF Shape
<1>7. CASE ins.op \in Mir!Operators
  <2>1. w = <<Gen!BinaryOpcode[ins.op], ins.dst, ins.lhs, ins.rhs>>
    BY <1>7, WordsOf
  <2>2. ins.dst \in Regs /\ ins.lhs \in Regs /\ ins.rhs \in Regs
    BY <1>2, <1>7 DEF Lowered, MirOps
  <2>3. Gen!BinaryOpcode[ins.op] \in Int
    BY <1>7, Operations DEF BinaryOps, ADD_INT, GE_INT
  <2>4. ins.dst \in Int /\ ins.lhs \in Int /\ ins.rhs \in Int
    BY <2>2, RangesAreInts
  <2>5. w \in Seq(Int) /\ Len(w) = 4
    BY <2>1, <2>3, <2>4, Tuples
  <2> QED
    BY <1>7, <2>1, <2>2, <2>5 DEF Shape
<1>8. CASE ins.op \in {"label", "jump"}
  <2>1. /\ ins.op = "label" => w = <<LABEL, ins.value>>
        /\ ins.op = "jump" => w = <<JUMP, ins.value>>
    BY WordsOf
  <2>2. /\ ins.op = "label" => ins.value \in 0 .. MaxCode - 1
        /\ ins.op = "jump" => ins.value \in Int
    BY <1>2, <1>8 DEF Lowered, MirOps
  <2>3. LABEL \in Int /\ JUMP \in Int /\ ins.value \in Int
    BY <1>8, <2>2, RangesAreInts DEF LABEL, JUMP
  <2>4. w \in Seq(Int) /\ Len(w) = 2
    BY <1>8, <2>1, <2>3, Tuples
  <2> QED
    BY <1>8, <2>1, <2>2, <2>4 DEF Shape
<1>9. CASE ins.op = "jump_if_false"
  <2>1. w = <<JUMP_IF_FALSE, ins.dst, ins.value>>
    BY <1>9, WordsOf
  <2>2. ins.dst \in Regs /\ ins.value \in Int
    BY <1>2, <1>9 DEF Lowered, MirOps
  <2>3. JUMP_IF_FALSE \in Int /\ ins.dst \in Int
    BY <2>2, RangesAreInts DEF JUMP_IF_FALSE
  <2>4. w \in Seq(Int) /\ Len(w) = 3
    BY <2>1, <2>2, <2>3, Tuples
  <2> QED
    BY <1>9, <2>1, <2>2, <2>4 DEF Shape
<1>10. CASE ins.op = "return_local"
  <2>1. w = <<RETURN_LOCAL, Gen!find_local_index(f, ins.name)>>
    BY <1>10, WordsOf
  <2>2. ins.name \in Mir!Names(f) /\ Gen!find_local_index(f, ins.name) \in Int
    BY <1>10, LocalIndex DEF Gen!NamesFound, Gen!LocalOps
  <2>3. w \in Seq(Int) /\ Len(w) = 2
    BY <2>1, <2>2, Tuples DEF RETURN_LOCAL
  <2> QED
    BY <1>10, <2>1, <2>2, <2>3 DEF Shape
<1>11. CASE ins.op \in {"return_temp", "return_const_int"}
  <2>1. /\ ins.op = "return_temp" => w = <<RETURN_TEMP, ins.dst>>
        /\ ins.op = "return_const_int" => w = <<RETURN_CONST_INT, ins.value>>
    BY WordsOf
  <2>2. /\ ins.op = "return_temp" => ins.dst \in Regs
        /\ ins.op = "return_const_int" => ins.value \in Word
    BY <1>2, <1>11 DEF Lowered, MirOps
  <2>3. /\ RETURN_TEMP \in Int /\ RETURN_CONST_INT \in Int
        /\ ins.op = "return_temp" => ins.dst \in Int
        /\ ins.op = "return_const_int" => ins.value \in Int
    BY <2>2, RangesAreInts DEF RETURN_TEMP, RETURN_CONST_INT
  <2>4. w \in Seq(Int) /\ Len(w) = 2
    BY <1>11, <2>1, <2>3, Tuples
  <2> QED
    BY <1>11, <2>1, <2>2, <2>4 DEF Shape
<1> QED
  BY <1>1, <1>3, <1>4, <1>5, <1>6, <1>7, <1>8, <1>9, <1>10, <1>11 DEF MirOps

-----------------------------------------------------------------------------
(* The code of one function.                                               *)

\* The code of each instruction of f.
Code(mir, f) == [k \in DOMAIN f.instrs |-> Gen!Words(mir, f, f.instrs[k])]

\* Instructions are as wide as their opcode says.
LEMMA WidthOfShape ==
    ASSUME NEW mir, NEW f, NEW ins, NEW w, Shape(mir, f, ins, w)
    PROVE  /\ w[1] \in Opcodes /\ Len(w) >= 2 /\ Len(w) \in Nat
           /\ w[1] = CALL <=> ins.op = "call"
           /\ w[1] = CALL => Len(w) = 4 + w[4] /\ w[4] \in Nat
           /\ Len(w) = Width(w[1], IF w[1] = CALL THEN w[4] ELSE 0)
<1>1. CASE ins.op = "call"
  <2>1. w[1] = CALL /\ Len(w) = 4 + Len(ins.args) /\ w[4] = Len(ins.args)
        /\ ins.args \in Seq(Regs)
    BY <1>1 DEF Shape, Mir!Operators
  <2>2. Len(ins.args) \in Nat
    BY <2>1, LenProperties
  <2> QED
    BY <1>1, <2>1, <2>2, WidthCases
<1>2. CASE ins.op \in Mir!Operators
  <2>1. w[1] \in BinaryOps /\ Len(w) = 4
    BY <1>2, Operations DEF Shape, Mir!Operators
  <2>2. ins.op # "call"
    BY <1>2 DEF Mir!Operators
  <2> QED
    BY <2>1, <2>2, WidthCases
<1>3. CASE ins.op \notin Mir!Operators \cup {"call"}
  <2>1. \/ w[1] \in TwoWordOps /\ Len(w) = 2
        \/ w[1] \in ThreeWordOps /\ Len(w) = 3
    BY <1>3, OpcodeClasses DEF Shape, ThreeWordOps
  <2>2. w[1] # CALL /\ w[1] \in Opcodes /\ Len(w) \in Nat /\ Len(w) >= 2
        /\ Len(w) = Width(w[1], 0)
    <3>1. CASE w[1] \in TwoWordOps /\ Len(w) = 2
      BY <3>1, WidthCases
    <3>2. CASE w[1] \in ThreeWordOps /\ Len(w) = 3
      BY <3>2, WidthCases
    <3> QED
      BY <2>1, <3>1, <3>2
  <2> QED
    BY <1>3, <2>2
<1> QED
  BY <1>1, <1>2, <1>3

\* Where the words of each instruction are in the code of a function.
LEMMA Layout ==
    ASSUME NEW mir, LoweredProgram(mir), NEW f, LoweredFunction(f), Gen!Generates(mir, f),
           NEW n, n = Len(f.instrs), NEW W, W = Code(mir, f),
           NEW g, g = Gen!codegen_function(mir, f)
    PROVE  /\ Pieces(n, W) /\ DOMAIN f.instrs = 1 .. n
           /\ \A k \in 1 .. n : Shape(mir, f, f.instrs[k], W[k])
           /\ g.count = End(W, n) /\ g.count \in Nat
           /\ g.starts = {End(W, k - 1) : k \in 1 .. n}
           /\ g.param_count = f.param_count
           /\ g.code \in [0 .. g.count - 1 -> Int]
           /\ \A k \in 1 .. n : \A j \in 0 .. Len(W[k]) - 1 :
                 /\ End(W, k - 1) + j \in 0 .. g.count - 1
                 /\ g.code[End(W, k - 1) + j] = W[k][j + 1]
<1>1. n \in Nat /\ DOMAIN f.instrs = 1 .. n
  BY LenProperties DEF LoweredFunction
<1>2. ASSUME NEW k \in 1 .. n
      PROVE  /\ W[k] \in Seq(Int) /\ Shape(mir, f, f.instrs[k], W[k]) /\ Len(W[k]) >= 1
             /\ Len(W[k]) \in Nat
  <2>1. W[k] = Gen!Words(mir, f, f.instrs[k])
    BY <1>1 DEF Code
  <2>2. Lowered(f.instrs[k]) /\ Gen!NamesFound(mir, f, f.instrs[k])
    BY <1>1 DEF LoweredFunction, Gen!Generates
  <2>3. W[k] \in Seq(Int) /\ Shape(mir, f, f.instrs[k], W[k])
    BY <2>1, <2>2, WordsHaveShape
  <2> QED
    BY <2>3, WidthOfShape
<1>3. W \in [1 .. n -> Seq(Int)]
  BY <1>1, <1>2 DEF Code
<1>4. Len(W) = n
  <2>1. W \in Seq(Seq(Int))
    BY <1>1, <1>3, SeqDef
  <2> QED
    BY <1>1, <1>3, <2>1, LenProperties
<1>5. Pieces(n, W)
  BY <1>1, <1>2, <1>3, <1>4 DEF Pieces
<1> DEFINE E == Gen!Prefixes(W)
           all == E[n]
<1>6. /\ g.count = Len(all)
      /\ g.code = [p \in 0 .. Len(all) - 1 |-> all[p + 1]]
      /\ g.param_count = f.param_count
      /\ g.starts = {Len(E[k - 1]) : k \in 1 .. n}
  BY <1>1 DEF Gen!codegen_function, Gen!Emitted, Code
<1>7. all \in Seq(Int) /\ Len(all) = End(W, n) /\ End(W, n) \in Nat
  <2>1. n \in 0 .. n
    BY <1>1
  <2> QED
    BY <1>5, <2>1, Ends DEF End
<1>8. g.starts = {End(W, k - 1) : k \in 1 .. n}
  BY <1>6 DEF End
<1> HIDE DEF E
<1>9. g.code \in [0 .. g.count - 1 -> Int]
  <2>1. ASSUME NEW p \in 0 .. Len(all) - 1 PROVE all[p + 1] \in Int
    <3> HIDE DEF all
    <3>1. p + 1 \in 1 .. Len(all)
      BY <1>7
    <3> QED
      BY <1>7, <3>1, ElementOfSeq
  <2> HIDE DEF all
  <2> QED
    BY <1>6, <2>1
<1>10. ASSUME NEW k \in 1 .. n, NEW j \in 0 .. Len(W[k]) - 1
       PROVE  /\ End(W, k - 1) + j \in 0 .. g.count - 1
              /\ g.code[End(W, k - 1) + j] = W[k][j + 1]
  <2> DEFINE q == End(W, k - 1) + j
  <2>1. j + 1 \in 1 .. Len(W[k]) /\ Len(W[k]) \in Nat /\ j \in Nat
    BY <1>2
  <2>2. /\ End(W, k - 1) + (j + 1) \in 1 .. End(W, k)
        /\ all[End(W, k - 1) + (j + 1)] = W[k][j + 1]
    BY <1>5, <2>1, PieceAt DEF E
  <2>3. /\ End(W, k - 1) \in Nat /\ End(W, k) <= End(W, n) /\ End(W, k) \in Nat
    <3>1. k - 1 \in 0 .. n /\ k \in 0 .. n /\ n \in 0 .. n
      BY <1>1
    <3> QED
      BY <1>5, <3>1, Ends, EndsRise
  <2> HIDE DEF all
  <2>4. q \in 0 .. Len(all) - 1 /\ q + 1 = End(W, k - 1) + (j + 1)
    <3>1. End(W, k - 1) + (j + 1) <= End(W, k) /\ End(W, k) <= Len(all) /\ Len(all) \in Nat
      BY <1>7, <2>2, <2>3
    <3> QED
      BY <2>1, <2>3, <3>1
  <2> HIDE DEF q
  <2>5. g.code[q] = all[q + 1]
    BY <1>6, <2>4
  <2> QED
    BY <1>6, <2>2, <2>4, <2>5 DEF q
<1> QED
  BY <1>1, <1>2, <1>5, <1>6, <1>7, <1>8, <1>9, <1>10

\* Which operands of each opcode are registers, locals and values.
LEMMA OperandSets ==
    ASSUME NEW g, NEW s
    PROVE  LET op  == g.code[s]
               Are(regs, locals, values) ==
                  /\ RegOperands(g, s) = regs /\ LocalOperands(g, s) = locals
                  /\ Immediates(g, s) = values
           IN /\ op = CONST_INT => Are({1}, {}, {2})
              /\ op = STORE_LOCAL => Are({2}, {1}, {})
              /\ op = LOAD_LOCAL => Are({1}, {2}, {})
              /\ op = CALL => Are({1} \cup 4 .. 3 + g.code[s + 3], {}, {})
              /\ op \in BinaryOps => Are({1, 2, 3}, {}, {})
              /\ op \in {JUMP_IF_FALSE, RETURN_TEMP} => Are({1}, {}, {})
              /\ op = RETURN_LOCAL => Are({}, {1}, {})
              /\ op = RETURN_CONST_INT => Are({}, {}, {1})
              /\ op \in {LABEL, JUMP} => Are({}, {}, {})
BY OpcodeClasses DEF RegOperands, LocalOperands, Immediates, CONST_INT, STORE_LOCAL, LOAD_LOCAL,
   CALL, ADD_INT, SUB_INT, MUL_INT, DIV_INT, EQ_INT, NE_INT, LT_INT, LE_INT, GT_INT, GE_INT,
   RETURN_LOCAL, RETURN_TEMP, RETURN_CONST_INT, LABEL, JUMP, JUMP_IF_FALSE

InRange(g, s) ==
    /\ \A j \in RegOperands(g, s) : g.code[s + j] \in Regs
    /\ \A j \in LocalOperands(g, s) : g.code[s + j] \in Locals
    /\ \A j \in Immediates(g, s) : g.code[s + j] \in Word

Holds(g, s, w) == \A j \in 0 .. Len(w) - 1 : g.code[s + j] = w[j + 1]

\* Registers, locals and values are in range, for each kind of instruction.
LEMMA OperandsOfShape ==
    ASSUME NEW mir, NEW f, LoweredFunction(f), NEW ins, NEW w, Shape(mir, f, ins, w),
           NEW g, NEW s \in Nat, Holds(g, s, w)
    PROVE  InRange(g, s)
<1> DEFINE c == g.code
<1>1. /\ Len(w) >= 2 => c[s] = w[1] /\ c[s + 1] = w[2]
      /\ Len(w) >= 3 => c[s + 2] = w[3]
      /\ Len(w) >= 4 => c[s + 3] = w[4]
  <2>1. Len(w) \in Nat
    BY WidthOfShape
  <2>2. /\ Len(w) >= 2 => 0 \in 0 .. Len(w) - 1 /\ 1 \in 0 .. Len(w) - 1
        /\ Len(w) >= 3 => 2 \in 0 .. Len(w) - 1
        /\ Len(w) >= 4 => 3 \in 0 .. Len(w) - 1
    BY <2>1
  <2>3. /\ Len(w) >= 2 => c[s + 0] = w[0 + 1] /\ c[s + 1] = w[1 + 1]
        /\ Len(w) >= 3 => c[s + 2] = w[2 + 1]
        /\ Len(w) >= 4 => c[s + 3] = w[3 + 1]
    BY <2>2 DEF Holds
  <2> QED
    BY <2>3
<1>2. Len(w) >= 2
  BY WidthOfShape
<1>3. CASE ins.op = "call"
  <2>1. /\ c[s] = CALL /\ c[s + 1] = ins.dst /\ c[s + 3] = Len(ins.args)
        /\ ins.dst \in Regs /\ ins.args \in Seq(Regs) /\ Len(w) = 4 + Len(ins.args)
        /\ \A i \in 1 .. Len(ins.args) : w[4 + i] = ins.args[i]
    <3>1. Len(ins.args) \in Nat
      BY <1>3, LenProperties DEF Shape, Mir!Operators
    <3>2. Len(w) = 4 + Len(ins.args)
      BY <1>3 DEF Shape, Mir!Operators
    <3> QED
      BY <1>1, <1>3, <3>1, <3>2 DEF Shape, Mir!Operators
  <2>2. Len(ins.args) \in Nat
    BY <2>1, LenProperties
  <2>3. RegOperands(g, s) = {1} \cup 4 .. 3 + Len(ins.args)
        /\ LocalOperands(g, s) = {} /\ Immediates(g, s) = {}
    BY <2>1, OperandSets
  <2>5. ASSUME NEW j \in 4 .. 3 + Len(ins.args) PROVE c[s + j] \in Regs
    <3>1. j \in 0 .. Len(w) - 1 /\ j - 3 \in 1 .. Len(ins.args) /\ 4 + (j - 3) = j + 1
      BY <2>1, <2>2
    <3>2. c[s + j] = ins.args[j - 3]
      BY <2>1, <3>1 DEF Holds
    <3> QED
      BY <2>1, <3>1, <3>2, ElementOfSeq
  <2> QED
    BY <2>1, <2>3, <2>5 DEF InRange
<1>4. CASE ins.op \in Mir!Operators
  <2>1. /\ c[s] \in BinaryOps /\ c[s + 1] = ins.dst /\ c[s + 2] = ins.lhs /\ c[s + 3] = ins.rhs
        /\ ins.dst \in Regs /\ ins.lhs \in Regs /\ ins.rhs \in Regs
    BY <1>1, <1>4, Operations DEF Shape, Mir!Operators
  <2> QED
    BY <2>1, OperandSets DEF InRange
<1>5. CASE ins.op \in {"bind_local", "store_local", "load_local", "return_local"}
  <2>1. Gen!find_local_index(f, ins.name) \in Locals
    BY <1>5, LocalIndex DEF Shape, Mir!Operators
  <2>2. \/ c[s] = STORE_LOCAL /\ c[s + 1] \in Locals /\ c[s + 2] \in Regs
        \/ c[s] = LOAD_LOCAL /\ c[s + 1] \in Regs /\ c[s + 2] \in Locals
        \/ c[s] = RETURN_LOCAL /\ c[s + 1] \in Locals
    BY <1>1, <1>5, <2>1 DEF Shape, Mir!Operators
  <2> QED
    BY <2>2, OperandSets DEF InRange
<1>6. CASE ins.op \in {"const_int", "return_const_int", "return_temp", "jump_if_false"}
  <2>1. \/ c[s] = CONST_INT /\ c[s + 1] \in Regs /\ c[s + 2] \in Word
        \/ c[s] = RETURN_CONST_INT /\ c[s + 1] \in Word
        \/ c[s] \in {RETURN_TEMP, JUMP_IF_FALSE} /\ c[s + 1] \in Regs
    BY <1>1, <1>6 DEF Shape, Mir!Operators
  <2> QED
    BY <2>1, OperandSets DEF InRange
<1>7. CASE ins.op \in {"label", "jump"}
  <2>1. c[s] \in {LABEL, JUMP}
    BY <1>1, <1>2, <1>7 DEF Shape, Mir!Operators
  <2> QED
    BY <2>1, OperandSets DEF InRange
<1> QED
  BY <1>3, <1>4, <1>5, <1>6, <1>7 DEF Shape

\* What code generation makes of a function is made of whole instructions with
\* operands in range.
LEMMA FunctionIsWellFormed ==
    ASSUME NEW mir, LoweredProgram(mir), NEW f, LoweredFunction(f), Gen!Generates(mir, f)
    PROVE  WellFormed(Gen!codegen_function(mir, f))
<1> DEFINE n == Len(f.instrs)
           W == Code(mir, f)
           g == Gen!codegen_function(mir, f)
<1>0. n = Len(f.instrs) /\ W = Code(mir, f) /\ g = Gen!codegen_function(mir, f)
  OBVIOUS
<1> HIDE DEF g, W, n
<1>1. /\ Pieces(n, W) /\ DOMAIN f.instrs = 1 .. n
      /\ \A k \in 1 .. n : Shape(mir, f, f.instrs[k], W[k])
      /\ g.count = End(W, n) /\ g.count \in Nat
      /\ g.starts = {End(W, k - 1) : k \in 1 .. n}
      /\ g.param_count = f.param_count
      /\ g.code \in [0 .. g.count - 1 -> Int]
  BY <1>0, Layout
<1>2. \A k \in 1 .. n : \A j \in 0 .. Len(W[k]) - 1 :
         /\ End(W, k - 1) + j \in 0 .. g.count - 1
         /\ g.code[End(W, k - 1) + j] = W[k][j + 1]
  BY <1>0, Layout
<1>3. n \in Nat
  BY <1>1 DEF Pieces
<1>4. f.param_count \in Nat
  BY LocalIndex DEF LoweredFunction
<1>5. ASSUME NEW k \in 1 .. n, NEW s, s = End(W, k - 1)
      PROVE  /\ s \in 0 .. g.count - 1 /\ g.code[s] \in Opcodes
             /\ g.code[s] = CALL => s + 3 < g.count /\ g.code[s + 3] \in Nat
             /\ s + WidthAt(g, s) = End(W, k)
             /\ InBounds(g, s)
  <2> DEFINE w == W[k]
  <2>1. Shape(mir, f, f.instrs[k], w)
    BY <1>1
  <2>2. /\ w[1] \in Opcodes /\ Len(w) >= 2 /\ Len(w) \in Nat
        /\ w[1] = CALL => Len(w) = 4 + w[4] /\ w[4] \in Nat
        /\ Len(w) = Width(w[1], IF w[1] = CALL THEN w[4] ELSE 0)
    BY <2>1, WidthOfShape
  <2>3. \A j \in 0 .. Len(w) - 1 : s + j \in 0 .. g.count - 1 /\ g.code[s + j] = w[j + 1]
    BY <1>2, <1>5
  <2>4. /\ s \in Nat /\ End(W, k) = s + Len(w) /\ End(W, k) <= g.count
        /\ End(W, k) \in Nat
    <3>1. k - 1 \in 0 .. n /\ k \in 0 .. n /\ n \in 0 .. n
      BY <1>3
    <3> QED
      BY <1>1, <1>5, <3>1, Ends, EndsRise
  <2> HIDE DEF w
  <2>5. g.code[s] = w[1] /\ s \in 0 .. g.count - 1
    <3>1. 0 \in 0 .. Len(w) - 1 /\ s + 0 = s /\ 0 + 1 = 1
      BY <2>2, <2>4
    <3> QED
      BY <2>3, <3>1
  <2>6. w[1] = CALL => s + 3 < g.count /\ g.code[s + 3] = w[4]
    <3>1. w[1] = CALL => 3 \in 0 .. Len(w) - 1
      BY <2>2
    <3>2. w[1] = CALL => s + 3 \in 0 .. g.count - 1 /\ g.code[s + 3] = w[3 + 1]
      BY <2>3, <3>1
    <3> QED
      BY <1>1, <3>2
  <2>7. WidthAt(g, s) = Len(w)
    BY <2>2, <2>5, <2>6 DEF WidthAt
  <2>8. InBounds(g, s)
    <3>1. s + WidthAt(g, s) <= g.count
      BY <2>4, <2>7
    <3>2. Holds(g, s, w)
      BY <2>3 DEF Holds
    <3>3. InRange(g, s)
      BY <2>1, <2>4, <3>2, OperandsOfShape
    <3> QED
      BY <3>1, <3>3 DEF InBounds, InRange
  <2> QED
    BY <2>2, <2>4, <2>5, <2>6, <2>7, <2>8
<1>6. \A k \in 0 .. n : End(W, k) \in Boundary(g)
  <2> SUFFICES ASSUME NEW k \in 0 .. n PROVE End(W, k) \in Boundary(g)
    OBVIOUS
  <2>1. CASE k = n
    BY <1>1, <2>1 DEF Boundary
  <2>2. CASE k # n
    <3>1. k + 1 \in 1 .. n /\ (k + 1) - 1 = k
      BY <1>3, <2>2
    <3>2. End(W, (k + 1) - 1) \in g.starts
      BY <1>1, <3>1
    <3> QED
      BY <3>1, <3>2 DEF Boundary
  <2> QED
    BY <2>1, <2>2
<1>7. 0 \in Boundary(g)
  <2>1. 0 \in 0 .. n /\ End(W, 0) = 0
    BY <1>1, <1>3, Ends
  <2> QED
    BY <1>6, <2>1
<1>8. ASSUME NEW s \in g.starts
      PROVE  /\ s \in 0 .. g.count - 1
             /\ g.code[s] \in Opcodes
             /\ g.code[s] = CALL => s + 3 < g.count /\ g.code[s + 3] \in Nat
             /\ s + WidthAt(g, s) \in Boundary(g)
             /\ InBounds(g, s)
  <2>1. PICK k \in 1 .. n : s = End(W, k - 1)
    BY <1>1
  <2>2. k \in 0 .. n
    BY <1>3
  <2> QED
    BY <1>5, <1>6, <2>1, <2>2
<1>9. WellFormed(g)
  BY <1>1, <1>4, <1>7, <1>8 DEF WellFormed
<1> QED
  BY <1>9 DEF g

\* Every program that comes out of the code generator is one that the machine
\* can be given: what the theorems about the machine assume of programs is
\* what the code generator promises.
THEOREM GeneratedIsWellFormed ==
    \A p \in Compiled :
       /\ DOMAIN p.functions \subseteq Nat
       /\ \A i \in DOMAIN p.functions : WellFormed(p.functions[i])
<1> SUFFICES ASSUME NEW m \in MirPrograms, Gen!Compiles(m)
             PROVE  /\ DOMAIN Compile(m).functions \subseteq Nat
                    /\ \A i \in DOMAIN Compile(m).functions :
                          WellFormed(Compile(m).functions[i])
  BY DEF Compiled
<1>1. LoweredProgram(m)
  BY BackendAssumption DEF LoweredProgram
<1>2. Len(m) \in Nat /\ DOMAIN m = 1 .. Len(m)
  BY <1>1, FunctionIndex
<1>3. Compile(m).functions = [i \in 0 .. Len(m) - 1 |-> Gen!codegen_function(m, m[i + 1])]
  BY DEF Compile, Gen!codegen_program
<1>4. ASSUME NEW i \in 0 .. Len(m) - 1 PROVE WellFormed(Gen!codegen_function(m, m[i + 1]))
  <2>1. i + 1 \in DOMAIN m
    BY <1>2
  <2>2. LoweredFunction(m[i + 1]) /\ Gen!Generates(m, m[i + 1])
    BY <1>1, <2>1 DEF LoweredProgram, Gen!Compiles, Gen!GeneratesProgram
  <2> QED
    BY <1>1, <2>2, FunctionIsWellFormed
<1> QED
  BY <1>2, <1>3, <1>4

-----------------------------------------------------------------------------
(* The refinement.                                                         *)

\* What is known of the program that runs.
LEMMA Generated ==
    ASSUME TypeOK
    PROVE  LET m == program.mir IN
           /\ m \in {p.mir : p \in Programs}
           /\ LoweredProgram(m) /\ Len(m) \in Nat /\ DOMAIN m = 1 .. Len(m)
           /\ Gen!Compiles(m)
           /\ program.functions = [i \in 0 .. Len(m) - 1 |-> Gen!codegen_function(m, m[i + 1])]
           /\ program.entry = Gen!find_main_index(m)
<1>1. program \in Compiled
  BY BackendAssumption DEF TypeOK
<1>2. PICK m \in MirPrograms : Gen!Compiles(m) /\ program = Compile(m)
  BY <1>1 DEF Compiled
<1>3. /\ program.mir = m
      /\ program.functions = [i \in 0 .. Len(m) - 1 |-> Gen!codegen_function(m, m[i + 1])]
      /\ program.entry = Gen!find_main_index(m)
  BY <1>2 DEF Compile, Gen!codegen_program
<1>4. LoweredProgram(m)
  BY BackendAssumption DEF LoweredProgram
<1>5. Len(m) \in Nat /\ DOMAIN m = 1 .. Len(m)
  BY <1>4, FunctionIndex
<1> QED
  BY <1>2, <1>3, <1>4, <1>5 DEF TypeOK

\* The mapped stack has one activation for each active frame.
Active(p, fr, n) == [i \in 1 .. n |-> Activation(p, fr[i - 1])]

\* The stack is the part of the mapped frames that is active.
LEMMA PrefixOfStack ==
    ASSUME NEW p, NEW fr, NEW n \in 0 .. MaxFrames
    PROVE  /\ SubSeq(Active(p, fr, MaxFrames), 1, n) = Active(p, fr, n)
           /\ Len(Active(p, fr, n)) = n
<1> DEFINE s == [i \in 1 .. MaxFrames |-> Activation(p, fr[i - 1])]
           t == [i \in 1 .. n |-> Activation(p, fr[i - 1])]
           S == {Activation(p, fr[i - 1]) : i \in 1 .. MaxFrames}
<1>1. MaxFrames \in Nat /\ n \in Nat /\ n <= MaxFrames
  BY VMAssumption
<1>2. \A i \in 1 .. n : i \in 1 .. MaxFrames /\ s[i] = t[i] /\ s[i] \in S
  BY <1>1
<1>3. t \in [1 .. n -> S]
  BY <1>2
<1>4. DOMAIN t = 1 .. n
  OBVIOUS
<1> HIDE DEF s, t, S
<1>5. /\ SubSeq(s, 1, n) \in Seq(S)
      /\ Len(SubSeq(s, 1, n)) = n
      /\ \A i \in 1 .. n : SubSeq(s, 1, n)[i] = s[i]
  <2>1. /\ SubSeq(s, 1, n) \in Seq(S)
        /\ Len(SubSeq(s, 1, n)) = IF 1 <= n THEN n - 1 + 1 ELSE 0
        /\ \A i \in 1 .. n - 1 + 1 : SubSeq(s, 1, n)[i] = s[1 + i - 1]
    BY <1>1, <1>2, SubSeqProperties
  <2>2. /\ n - 1 + 1 = n /\ (~(1 <= n) => n = 0)
        /\ \A i \in 1 .. n : 1 + i - 1 = i
    BY <1>1
  <2> QED
    BY <2>1, <2>2
<1>6. DOMAIN SubSeq(s, 1, n) = 1 .. n /\ SubSeq(s, 1, n) \in [1 .. n -> S]
  BY <1>5, LenProperties
<1>7. t \in Seq(S) /\ Len(t) = n
  <2>1. t \in Seq(S)
    BY <1>1, <1>3, SeqDef
  <2> QED
    BY <1>1, <1>4, <2>1, LenProperties
<1>8. SubSeq(s, 1, n) = t
  BY <1>2, <1>3, <1>5, <1>6
<1> QED
  BY <1>7, <1>8 DEF s, t, Active

\* The mapped stack before a step.
LEMMA StackNow ==
    ASSUME TypeOK
    PROVE  /\ Stack = Active(program, frames, frame_count)
           /\ Len(Stack) = frame_count
<1>1. frame_count \in 0 .. MaxFrames
  BY DEF TypeOK
<1>2. Stack = SubSeq(Active(program, frames, MaxFrames), 1, frame_count)
  BY DEF Stack, Active
<1> QED
  BY <1>1, <1>2, PrefixOfStack

\* The mapped stack after a step.
LEMMA StackNext ==
    ASSUME TypeOK'
    PROVE  /\ Stack' = Active(program', frames', frame_count')
           /\ Len(Stack') = frame_count'
<1>1. frame_count' \in 0 .. MaxFrames
  BY DEF TypeOK
<1>2. Stack' = SubSeq(Active(program', frames', MaxFrames), 1, frame_count')
  BY DEF Stack, Active
<1> QED
  BY <1>1, <1>2, PrefixOfStack

\* The beginnings of instructions are numbered from 1, and the end of the code
\* is one past the last.
LEMMA PositionOf ==
    ASSUME NEW n, NEW W, Pieces(n, W), NEW g, g.starts = {End(W, i - 1) : i \in 1 .. n},
           NEW k \in 1 .. n + 1
    PROVE  Position(g, End(W, k - 1)) = k
<1>1. k - 1 \in 0 .. n /\ 1 + (k - 1) = k
  BY DEF Pieces
<1>2. Cardinality({s \in {End(W, i - 1) : i \in 1 .. n} : s < End(W, k - 1)}) = k - 1
  BY <1>1, EndsBelow
<1> QED
  BY <1>1, <1>2 DEF Position

\* The MIR function that the running frame runs, the position of the
\* instruction it stands at, and that instruction with its words.
Source == program.mir[frame.function_index + 1]
At == Position(function, frame.pc)
Instr == Source.instrs[At]
WordsAt == Code(program.mir, Source)[At]

\* A frame that runs stands at an instruction of its MIR function or behind
\* the last one, and then there is nothing to fetch.
LEMMA Running ==
    ASSUME IInv, status = "running"
    PROVE  /\ top \in 0 .. MaxFrames - 1 /\ top \in Nat /\ frame_count = top + 1
           /\ frame \in Frame /\ frame.function_index + 1 \in DOMAIN program.mir
           /\ LoweredFunction(Source) /\ Gen!Generates(program.mir, Source)
           /\ function = Gen!codegen_function(program.mir, Source)
           /\ At \in 1 .. Len(Source.instrs) + 1 /\ Len(Source.instrs) \in Nat
           /\ frame.pc = End(Code(program.mir, Source), At - 1)
           /\ Fetch <=> At <= Len(Source.instrs)
<1>1. top \in 0 .. MaxFrames - 1 /\ top \in Nat /\ frame_count = top + 1 /\ top \in Live
  BY VMAssumption DEF IInv, TypeOK, CountMatchesStatus, top, Live
<1>2. frame \in Frame /\ frame.pc \in Nat
  BY <1>1 DEF IInv, TypeOK, frame, Frame
<1>3. frame.function_index \in FunctionIndexes /\ frame.pc \in Boundary(function)
  BY <1>1 DEF IInv, ControlInStep, CodeOf, frame, function
<1> DEFINE m == program.mir
           f == Source
           n == Len(f.instrs)
           W == Code(m, f)
           g == Gen!codegen_function(m, f)
<1>4. /\ LoweredProgram(m) /\ Len(m) \in Nat /\ DOMAIN m = 1 .. Len(m) /\ Gen!Compiles(m)
      /\ program.functions = [i \in 0 .. Len(m) - 1 |-> Gen!codegen_function(m, m[i + 1])]
  BY Generated DEF IInv
<1>5. /\ frame.function_index \in 0 .. Len(m) - 1 /\ frame.function_index + 1 \in DOMAIN m
      /\ function = g
  BY <1>3, <1>4 DEF FunctionIndexes, function, Source
<1>6. LoweredFunction(f) /\ Gen!Generates(m, f)
  BY <1>4, <1>5 DEF LoweredProgram, Gen!Compiles, Gen!GeneratesProgram, Source
<1>0. n = Len(f.instrs) /\ W = Code(m, f) /\ g = Gen!codegen_function(m, f)
  OBVIOUS
<1> HIDE DEF f, n, W, g
<1>7. /\ Pieces(n, W) /\ g.count = End(W, n) /\ g.count \in Nat
      /\ g.starts = {End(W, k - 1) : k \in 1 .. n}
  BY <1>0, <1>4, <1>6, Layout
<1>8. WellFormed(g)
  BY <1>0, <1>4, <1>6, FunctionIsWellFormed
<1>9. n \in Nat
  BY <1>7 DEF Pieces
<1>10. PICK k \in 1 .. n + 1 : frame.pc = End(W, k - 1) /\ (k <= n <=> frame.pc \in g.starts)
  <2>1. CASE frame.pc \in g.starts
    <3>1. PICK k \in 1 .. n : frame.pc = End(W, k - 1)
      BY <1>7, <2>1
    <3>2. k \in 1 .. n + 1 /\ k <= n
      BY <1>9
    <3> QED
      BY <2>1, <3>1, <3>2
  <2>2. CASE frame.pc \notin g.starts
    <3>1. frame.pc = End(W, n)
      BY <1>3, <1>5, <1>7, <2>2 DEF Boundary
    <3>2. n + 1 \in 1 .. n + 1 /\ (n + 1) - 1 = n /\ ~(n + 1 <= n)
      BY <1>9
    <3> QED
      BY <2>2, <3>1, <3>2
  <2> QED
    BY <2>1, <2>2
<1>11. At = k
  BY <1>5, <1>7, <1>10, PositionOf DEF At
<1>12. Fetch <=> k <= n
  <2>1. \A s \in g.starts : s < g.count /\ g.code[s] \in Opcodes
    BY <1>7, <1>8 DEF WellFormed
  <2>2. frame.pc < g.count => frame.pc \in g.starts
    BY <1>2, <1>3, <1>5, <1>7 DEF Boundary
  <2>3. Op = g.code[frame.pc]
    BY <1>5 DEF Op
  <2> QED
    BY <1>5, <1>10, <2>1, <2>2, <2>3 DEF Fetch
<1> QED
  BY <1>0, <1>1, <1>2, <1>5, <1>6, <1>9, <1>10, <1>11, <1>12 DEF f

\* The words of the fetched instruction are those generated for the MIR
\* instruction at its place, and behind them is the next one.
LEMMA Decode ==
    ASSUME IInv, Fetch
    PROVE  /\ At \in 1 .. Len(Source.instrs) /\ At \in Nat
           /\ DOMAIN Source.instrs = 1 .. Len(Source.instrs)
           /\ Shape(program.mir, Source, Instr, WordsAt)
           /\ Lowered(Instr) /\ Gen!NamesFound(program.mir, Source, Instr)
           /\ Op = WordsAt[1]
           /\ \A j \in 0 .. Len(WordsAt) - 1 : Arg(j) = WordsAt[j + 1]
           /\ Position(function, frame.pc + Len(WordsAt)) = At + 1
           /\ Len(WordsAt) \in Nat /\ Len(WordsAt) >= 2
<1>0. status = "running"
  BY DEF Fetch
<1> DEFINE m == program.mir
           f == Source
           n == Len(f.instrs)
           W == Code(m, f)
           g == Gen!codegen_function(m, f)
           k == At
<1>1. /\ LoweredProgram(m) /\ LoweredFunction(f) /\ Gen!Generates(m, f) /\ function = g
      /\ k \in 1 .. n /\ n \in Nat /\ frame.pc = End(W, k - 1) /\ k \in Nat
  <2>1. LoweredProgram(m)
    BY Generated DEF IInv
  <2>2. /\ LoweredFunction(f) /\ Gen!Generates(m, f) /\ function = g
        /\ k \in 1 .. n + 1 /\ n \in Nat /\ frame.pc = End(W, k - 1) /\ k <= n
    BY <1>0, Running
  <2> HIDE DEF k, n
  <2> QED
    BY <2>1, <2>2
<1>2. n = Len(f.instrs) /\ W = Code(m, f) /\ g = Gen!codegen_function(m, f) /\ k = At
  OBVIOUS
<1> HIDE DEF f, n, W, g, k
<1>3. /\ Pieces(n, W) /\ DOMAIN f.instrs = 1 .. n
      /\ \A i \in 1 .. n : Shape(m, f, f.instrs[i], W[i])
      /\ g.starts = {End(W, i - 1) : i \in 1 .. n}
      /\ \A i \in 1 .. n : \A j \in 0 .. Len(W[i]) - 1 :
            g.code[End(W, i - 1) + j] = W[i][j + 1]
  BY <1>1, <1>2, Layout
<1>4. Shape(m, f, f.instrs[k], W[k]) /\ Len(W[k]) \in Nat /\ Len(W[k]) >= 2
  BY <1>1, <1>3, WidthOfShape
<1>5. Lowered(f.instrs[k]) /\ Gen!NamesFound(m, f, f.instrs[k])
  BY <1>1, <1>3 DEF LoweredFunction, Gen!Generates
<1>6. \A j \in 0 .. Len(W[k]) - 1 : Arg(j) = W[k][j + 1]
  BY <1>1, <1>3 DEF Arg
<1>7. Op = W[k][1]
  <2>1. 0 \in 0 .. Len(W[k]) - 1 /\ 0 + 1 = 1
    BY <1>4
  <2>2. frame.pc + 0 = frame.pc
    <3>1. k - 1 \in 0 .. n
      BY <1>1
    <3> QED
      BY <1>1, <1>3, <3>1, Ends
  <2> QED
    BY <1>6, <2>1, <2>2 DEF Arg, Op
<1>8. Position(g, frame.pc + Len(W[k])) = k + 1
  <2>1. frame.pc + Len(W[k]) = End(W, k)
    BY <1>1, <1>3, Ends
  <2>2. k + 1 \in 1 .. n + 1 /\ (k + 1) - 1 = k
    BY <1>1
  <2> QED
    BY <1>3, <2>1, <2>2, PositionOf
<1> QED
  BY <1>1, <1>2, <1>3, <1>4, <1>5, <1>6, <1>7, <1>8 DEF Instr, WordsAt, f

\* The activation on top of the mapped stack is the running frame's.
LEMMA TopSeen ==
    ASSUME IInv, status = "running"
    PROVE  /\ Len(Stack) = frame_count
           /\ Mir!top = Activation(program, frame)
           /\ Mir!top.function = Source /\ Mir!top.at = At
           /\ Mir!top.temps = frame.regs /\ Mir!top.dest = frame.return_dest
           /\ \A n \in Mir!Names(Source) :
                 Mir!top.locals[n] = frame.locals[Gen!find_local_index(Source, n)]
           /\ Mir!instr = Instr
           /\ Mir!Turn <=> Fetch
<1>1. frame_count = top + 1 /\ top \in Nat
  BY Running
<1>2. Stack = Active(program, frames, frame_count) /\ Len(Stack) = frame_count
  BY StackNow DEF IInv
<1>3. Stack[Len(Stack)] = Activation(program, frames[frame_count - 1])
  <2>1. frame_count \in 1 .. frame_count
    BY <1>1
  <2> QED
    BY <1>2, <2>1 DEF Active
<1>4. frames[frame_count - 1] = frame
  BY <1>1 DEF frame
<1>5. Mir!top = Activation(program, frame)
  BY <1>3, <1>4 DEF Mir!top
<1>6. /\ Mir!top.function = Source /\ Mir!top.at = At
      /\ Mir!top.temps = frame.regs /\ Mir!top.dest = frame.return_dest
      /\ Mir!top.locals = [n \in Mir!Names(Source) |->
                              frame.locals[Gen!find_local_index(Source, n)]]
  BY <1>5 DEF Activation, Source, At, function, Mir!Names
<1>7. Mir!instr = Instr
  BY <1>6 DEF Mir!instr, Instr
<1>8. Mir!Turn <=> At <= Len(Source.instrs)
  BY <1>6 DEF Mir!Turn
<1> QED
  BY <1>2, <1>5, <1>6, <1>7, <1>8, Running

\* A turn that changes only the running frame changes only the activation on
\* top.
LEMMA AdvanceSeen ==
    ASSUME IInv, status = "running", TypeOK', NEW f, Advance(f), KeepRunning
    PROVE  Mir!Becomes(Activation(program, f))
<1>1. /\ frame_count = top + 1 /\ top \in 0 .. MaxFrames - 1 /\ top \in Nat
      /\ frames \in [0 .. MaxFrames - 1 -> Frame]
  BY Running DEF IInv, TypeOK
<1>2. program' = program /\ frame_count' = frame_count /\ status' = status /\ result' = result
      /\ frames' = [frames EXCEPT ![top] = f]
  BY DEF Advance, KeepRunning
<1>3. Stack = Active(program, frames, frame_count) /\ Len(Stack) = frame_count
  BY StackNow DEF IInv
<1>4. Stack' = Active(program, frames', frame_count)
  BY <1>2, StackNext
<1>5. ASSUME NEW i \in 1 .. frame_count
      PROVE  Activation(program, frames'[i - 1]) =
                IF i = frame_count THEN Activation(program, f)
                                   ELSE Activation(program, frames[i - 1])
  <2>1. i - 1 \in 0 .. MaxFrames - 1 /\ (i - 1 = top <=> i = frame_count)
    BY <1>1, VMAssumption
  <2>2. frames'[i - 1] = IF i = frame_count THEN f ELSE frames[i - 1]
    BY <1>1, <1>2, <2>1
  <2> QED
    BY <2>2
<1>6. Stack' = [Stack EXCEPT ![Len(Stack)] = Activation(program, f)]
  BY <1>3, <1>4, <1>5 DEF Active
<1> QED
  BY <1>2, <1>6 DEF Mir!Becomes

\* The turns that set a register are those that set a temporary.
LEMMA SetRegSeen ==
    ASSUME IInv, Fetch, TypeOK', NEW r \in Regs, NEW v, SetReg(r, v, Len(WordsAt))
    PROVE  Mir!SetTemp(r, v)
<1> DEFINE f == [frame EXCEPT !.regs[r] = v, !.pc = @ + Len(WordsAt)]
<1>1. status = "running" /\ Advance(f) /\ KeepRunning
  BY DEF Fetch, SetReg
<1>2. frame \in Frame
  BY <1>1, Running
<1>3. Position(function, frame.pc + Len(WordsAt)) = At + 1
  BY Decode
<1>4. /\ f.function_index = frame.function_index /\ f.return_dest = frame.return_dest
      /\ f.locals = frame.locals /\ f.pc = frame.pc + Len(WordsAt)
      /\ f.regs = [frame.regs EXCEPT ![r] = v]
  BY <1>2 DEF Frame
<1> HIDE DEF f
<1> DEFINE a == Activation(program, frame)
           b == Activation(program, f)
           temps == [frame.regs EXCEPT ![r] = v]
<1>5. b = [function |-> Source, at |-> At + 1, temps |-> temps, locals |-> a.locals,
           dest |-> frame.return_dest]
  BY <1>3, <1>4 DEF Activation, Source, function
<1>6. a = [function |-> Source, at |-> At, temps |-> frame.regs, locals |-> a.locals,
           dest |-> frame.return_dest]
  BY DEF Activation, Source, At, function
<1>7. Mir!Becomes(b) /\ Mir!top = a
  BY <1>1, TopSeen, AdvanceSeen
<1> HIDE DEF a, b
<1>8. b = [a EXCEPT !.temps = temps, !.at = a.at + 1] /\ a.temps = frame.regs
  <2> HIDE DEF temps
  <2> DEFINE c == [function |-> Source, at |-> At, temps |-> temps, locals |-> a.locals,
                   dest |-> frame.return_dest]
  <2>1. a.at = At /\ a.temps = frame.regs
    BY <1>6
  <2>2. c = [a EXCEPT !.temps = temps]
    BY <1>6
  <2>3. b = [c EXCEPT !.at = At + 1]
    BY <1>5
  <2> HIDE DEF c
  <2> QED
    BY <2>1, <2>2, <2>3
<1>9. b = [a EXCEPT !.temps[r] = v, !.at = @ + 1]
  BY <1>8, Zenon
<1> QED
  BY <1>7, <1>9 DEF Mir!SetTemp

\* The turns that only move the running frame go to another instruction.
LEMMA MoveSeen ==
    ASSUME IInv, Fetch, TypeOK', NEW pc, NEW i, Position(function, pc) = i,
           Advance([frame EXCEPT !.pc = pc]), KeepRunning
    PROVE  Mir!GoTo(i)
<1> DEFINE f == [frame EXCEPT !.pc = pc]
<1>1. status = "running" /\ Advance(f) /\ KeepRunning
  BY DEF Fetch
<1>2. frame \in Frame
  BY <1>1, Running
<1>3. /\ f.function_index = frame.function_index /\ f.return_dest = frame.return_dest
      /\ f.locals = frame.locals /\ f.pc = pc /\ f.regs = frame.regs
  BY <1>2 DEF Frame
<1> HIDE DEF f
<1> DEFINE a == Activation(program, frame)
           b == Activation(program, f)
<1>4. b = [function |-> Source, at |-> i, temps |-> frame.regs, locals |-> a.locals,
           dest |-> frame.return_dest]
  BY <1>3 DEF Activation, Source, function
<1>5. a = [function |-> Source, at |-> At, temps |-> frame.regs, locals |-> a.locals,
           dest |-> frame.return_dest]
  BY DEF Activation, Source, At, function
<1>6. Mir!Becomes(b) /\ Mir!top = a
  BY <1>1, TopSeen, AdvanceSeen
<1> HIDE DEF a, b
<1>7. b = [a EXCEPT !.at = i]
  BY <1>4, <1>5
<1> QED
  BY <1>6, <1>7 DEF Mir!GoTo

\* The opcode tells which instruction it was generated for.
LEMMA OpOfShape ==
    ASSUME NEW m, NEW f, NEW ins, NEW w, Shape(m, f, ins, w)
    PROVE  /\ w[1] = CONST_INT => ins.op = "const_int"
           /\ w[1] = STORE_LOCAL => ins.op \in {"bind_local", "store_local"}
           /\ w[1] = LOAD_LOCAL => ins.op = "load_local"
           /\ w[1] = CALL => ins.op = "call"
           /\ w[1] \in BinaryOps => ins.op \in Mir!Operators
           /\ w[1] = LABEL => ins.op = "label"
           /\ w[1] = JUMP => ins.op = "jump"
           /\ w[1] = JUMP_IF_FALSE => ins.op = "jump_if_false"
           /\ w[1] = RETURN_LOCAL => ins.op = "return_local"
           /\ w[1] = RETURN_TEMP => ins.op = "return_temp"
           /\ w[1] = RETURN_CONST_INT => ins.op = "return_const_int"
<1>1. CASE ins.op \in Mir!Operators
  <2>1. w[1] \in BinaryOps
    BY <1>1, Operations DEF Shape, Mir!Operators
  <2> QED
    BY <1>1, <2>1 DEF BinaryOps, ADD_INT, GE_INT, CONST_INT, STORE_LOCAL, LOAD_LOCAL, CALL, LABEL,
       JUMP, JUMP_IF_FALSE, RETURN_LOCAL, RETURN_TEMP, RETURN_CONST_INT
<1>2. CASE ins.op \notin Mir!Operators
  <2>1. \/ ins.op = "const_int" /\ w[1] = CONST_INT
        \/ ins.op \in {"bind_local", "store_local"} /\ w[1] = STORE_LOCAL
        \/ ins.op = "load_local" /\ w[1] = LOAD_LOCAL
        \/ ins.op = "call" /\ w[1] = CALL
        \/ ins.op = "label" /\ w[1] = LABEL
        \/ ins.op = "jump" /\ w[1] = JUMP
        \/ ins.op = "jump_if_false" /\ w[1] = JUMP_IF_FALSE
        \/ ins.op = "return_local" /\ w[1] = RETURN_LOCAL
        \/ ins.op = "return_temp" /\ w[1] = RETURN_TEMP
        \/ ins.op = "return_const_int" /\ w[1] = RETURN_CONST_INT
    BY <1>2 DEF Shape
  <2> QED
    BY <2>1 DEF BinaryOps, ADD_INT, GE_INT, CONST_INT, STORE_LOCAL, LOAD_LOCAL, CALL, LABEL,
       JUMP, JUMP_IF_FALSE, RETURN_LOCAL, RETURN_TEMP, RETURN_CONST_INT
<1> QED
  BY <1>1, <1>2

\* What is fetched, word by word.
LEMMA ArgsAre ==
    ASSUME IInv, Fetch
    PROVE  /\ Arg(1) = WordsAt[2]
           /\ Len(WordsAt) >= 3 => Arg(2) = WordsAt[3]
           /\ Len(WordsAt) >= 4 => Arg(3) = WordsAt[4]
<1>1. /\ \A j \in 0 .. Len(WordsAt) - 1 : Arg(j) = WordsAt[j + 1]
      /\ Len(WordsAt) \in Nat /\ Len(WordsAt) >= 2
  BY Decode
<1> DEFINE w == WordsAt
<1> HIDE DEF w
<1>2. /\ 1 \in 0 .. Len(w) - 1
      /\ Len(w) >= 3 => 2 \in 0 .. Len(w) - 1
      /\ Len(w) >= 4 => 3 \in 0 .. Len(w) - 1
  BY <1>1 DEF w
<1>3. /\ Arg(1) = w[1 + 1]
      /\ Len(w) >= 3 => Arg(2) = w[2 + 1]
      /\ Len(w) >= 4 => Arg(3) = w[3 + 1]
  BY <1>1, <1>2, Zenon DEF w
<1> QED
  BY <1>3 DEF w

\* What is fetched, in terms of the MIR instruction it was generated for.
LEMMA Decoded ==
    ASSUME IInv, Fetch
    PROVE  /\ Op = CONST_INT =>
                 /\ Instr.op = "const_int" /\ Len(WordsAt) = 3
                 /\ Arg(1) = Instr.dst /\ Arg(2) = Instr.value /\ Instr.dst \in Regs
           /\ Op = STORE_LOCAL =>
                 /\ Instr.op \in {"bind_local", "store_local"} /\ Len(WordsAt) = 3
                 /\ Arg(1) = Gen!find_local_index(Source, Instr.name)
                 /\ Arg(2) = Instr.dst /\ Instr.name \in Mir!Names(Source)
           /\ Op = LOAD_LOCAL =>
                 /\ Instr.op = "load_local" /\ Len(WordsAt) = 3
                 /\ Arg(1) = Instr.dst /\ Arg(2) = Gen!find_local_index(Source, Instr.name)
                 /\ Instr.name \in Mir!Names(Source) /\ Instr.dst \in Regs
           /\ Op \in BinaryOps =>
                 /\ Instr.op \in Mir!Operators /\ Len(WordsAt) = 4
                 /\ Op = Gen!BinaryOpcode[Instr.op]
                 /\ Arg(1) = Instr.dst /\ Arg(2) = Instr.lhs /\ Arg(3) = Instr.rhs
                 /\ Instr.dst \in Regs
           /\ Op = LABEL => Instr.op = "label" /\ Len(WordsAt) = 2
           /\ Op = JUMP => Instr.op = "jump" /\ Arg(1) = Instr.value
           /\ Op = JUMP_IF_FALSE =>
                 /\ Instr.op = "jump_if_false" /\ Len(WordsAt) = 3
                 /\ Arg(1) = Instr.dst /\ Arg(2) = Instr.value
           /\ Op = RETURN_LOCAL =>
                 /\ Instr.op = "return_local" /\ Instr.name \in Mir!Names(Source)
                 /\ Arg(1) = Gen!find_local_index(Source, Instr.name)
           /\ Op = RETURN_TEMP => Instr.op = "return_temp" /\ Arg(1) = Instr.dst
           /\ Op = RETURN_CONST_INT => Instr.op = "return_const_int" /\ Arg(1) = Instr.value
<1> DEFINE w == WordsAt
           ins == Instr
<1>1. Shape(program.mir, Source, ins, w) /\ Op = w[1]
  BY Decode
<1>2. /\ Op = CONST_INT => ins.op = "const_int"
      /\ Op = STORE_LOCAL => ins.op \in {"bind_local", "store_local"}
      /\ Op = LOAD_LOCAL => ins.op = "load_local"
      /\ Op = CALL => ins.op = "call"
      /\ Op \in BinaryOps => ins.op \in Mir!Operators
      /\ Op = LABEL => ins.op = "label"
      /\ Op = JUMP => ins.op = "jump"
      /\ Op = JUMP_IF_FALSE => ins.op = "jump_if_false"
      /\ Op = RETURN_LOCAL => ins.op = "return_local"
      /\ Op = RETURN_TEMP => ins.op = "return_temp"
      /\ Op = RETURN_CONST_INT => ins.op = "return_const_int"
  BY <1>1, OpOfShape
<1>3. /\ Arg(1) = w[2]
      /\ Len(w) >= 3 => Arg(2) = w[3]
      /\ Len(w) >= 4 => Arg(3) = w[4]
  BY ArgsAre
<1> HIDE DEF w, ins
<1>4. CASE Op \in BinaryOps
  <2>1. ins.op \in Mir!Operators
    BY <1>2, <1>4
  <2>2. /\ Len(w) = 4 /\ w[1] = Gen!BinaryOpcode[ins.op]
        /\ w[2] = ins.dst /\ w[3] = ins.lhs /\ w[4] = ins.rhs
        /\ ins.dst \in Regs
    BY <1>1, <2>1 DEF Shape, Mir!Operators
  <2>3. Op \notin ThreeWordOps /\ Op \notin TwoWordOps
    BY <1>4, OpcodeClasses DEF ThreeWordOps, CONST_INT, STORE_LOCAL, LOAD_LOCAL, JUMP_IF_FALSE,
       BinaryOps, ADD_INT, GE_INT, RETURN_LOCAL, RETURN_TEMP, RETURN_CONST_INT, LABEL, JUMP
  <2>4. Len(w) >= 3 /\ Len(w) >= 4
    BY <2>2
  <2> QED
    BY <1>1, <1>3, <2>1, <2>2, <2>3, <2>4, OpcodeClasses DEF ThreeWordOps, w, ins
<1>5. CASE Op \notin BinaryOps
  <2>1. 3 >= 3
    OBVIOUS
  <2> QED
    BY <1>1, <1>2, <1>3, <1>5, <2>1 DEF Shape, Mir!Operators, w, ins
<1> QED
  BY <1>4, <1>5

-----------------------------------------------------------------------------
(* Turn by turn.                                                           *)

\* The machine stops as the MIR does.
LEMMA StopSeen == ASSUME NEW s, Stop(s) PROVE Mir!Stop(s)
BY DEF Stop, Mir!Stop, Stack

\* A constant is set.
LEMMA ConstIntSeen == ASSUME IInv, TypeOK', ConstInt PROVE Mir!Const
<1>1. Fetch /\ Op = CONST_INT /\ SetReg(Arg(1), Arg(2), 3)
  BY DEF ConstInt
<1>2. /\ Instr.op = "const_int" /\ Len(WordsAt) = 3 /\ Instr.dst \in Regs
      /\ SetReg(Instr.dst, Instr.value, Len(WordsAt))
  BY <1>1, Decoded
<1>3. Mir!Turn /\ Mir!instr = Instr
  BY <1>1, TopSeen DEF Fetch
<1>4. Mir!SetTemp(Instr.dst, Instr.value)
  BY <1>1, <1>2, SetRegSeen
<1> QED
  BY <1>2, <1>3, <1>4 DEF Mir!Const

\* A local is read under its name.
LEMMA LoadLocalSeen == ASSUME IInv, TypeOK', LoadLocal PROVE Mir!Load
<1>1. Fetch /\ Op = LOAD_LOCAL /\ SetReg(Arg(1), frame.locals[Arg(2)], 3)
  BY DEF LoadLocal
<1>2. /\ Instr.op = "load_local" /\ Len(WordsAt) = 3 /\ Instr.dst \in Regs
      /\ Arg(1) = Instr.dst /\ Arg(2) = Gen!find_local_index(Source, Instr.name)
      /\ Instr.name \in Mir!Names(Source)
  BY <1>1, Decoded
<1>3. /\ Mir!Turn /\ Mir!instr = Instr
      /\ Mir!top.locals[Instr.name] = frame.locals[Arg(2)]
  BY <1>1, <1>2, TopSeen DEF Fetch
<1>4. Mir!SetTemp(Instr.dst, Mir!top.locals[Instr.name])
  BY <1>1, <1>2, <1>3, SetRegSeen
<1> QED
  BY <1>2, <1>3, <1>4 DEF Mir!Load

\* No two names share a local.
LEMMA LocalNamed ==
    ASSUME NEW f, LoweredFunction(f), NEW n \in Mir!Names(f)
    PROVE  f.locals[Gen!find_local_index(f, n) + 1] = n
<1> DEFINE S == {i \in DOMAIN f.locals : f.locals[i] = n}
<1>1. Len(f.locals) \in Nat /\ DOMAIN f.locals = 1 .. Len(f.locals)
  BY LocalIndex
<1>2. S \subseteq 1 .. Len(f.locals) /\ S # {}
  BY <1>1 DEF Mir!Names
<1>3. Gen!find_local_index(f, n) = Gen!First(S)
  BY DEF Gen!find_local_index
<1>4. \A i \in S : f.locals[i] = n
  OBVIOUS
<1> HIDE DEF S
<1> QED
  BY <1>1, <1>2, <1>3, <1>4, FirstIs

\* A store to the local that stands for a name changes that name only.
LEMMA StoreLocalSeen == ASSUME IInv, TypeOK', StoreLocal PROVE Mir!Store
<1> DEFINE f == [frame EXCEPT !.locals[Arg(1)] = Reg(2), !.pc = @ + 3]
           x == Instr.name
           idx(n) == Gen!find_local_index(Source, n)
           v == Reg(2)
<1>1. Fetch /\ Op = STORE_LOCAL /\ Advance(f) /\ KeepRunning /\ status = "running"
  BY DEF StoreLocal, Fetch
<1>2. /\ Instr.op \in {"bind_local", "store_local"} /\ Len(WordsAt) = 3
      /\ Arg(1) = idx(x) /\ Arg(2) = Instr.dst /\ x \in Mir!Names(Source)
  BY <1>1, Decoded
<1>3. /\ Mir!Turn /\ Mir!instr = Instr /\ v = Mir!top.temps[Instr.dst]
  BY <1>1, <1>2, TopSeen DEF Reg
<1>4. frame \in Frame /\ LoweredFunction(Source)
  BY <1>1, Running
<1>5. ASSUME NEW n \in Mir!Names(Source)
      PROVE  idx(n) \in Locals /\ (idx(n) = idx(x) => n = x)
  BY <1>2, <1>4, LocalIndex, LocalNamed
<1>6. Position(function, frame.pc + 3) = At + 1
  BY <1>1, <1>2, Decode
<1>7. /\ f.function_index = frame.function_index /\ f.return_dest = frame.return_dest
      /\ f.regs = frame.regs /\ f.pc = frame.pc + 3
      /\ f.locals = [frame.locals EXCEPT ![idx(x)] = v]
  BY <1>2, <1>4 DEF Frame
<1> HIDE DEF f, v, x, idx
<1> DEFINE a == Activation(program, frame)
           b == Activation(program, f)
           locals == [n \in Mir!Names(Source) |-> frame.locals[idx(n)]]
           stored == [n \in Mir!Names(Source) |-> f.locals[idx(n)]]
<1>8. stored = [locals EXCEPT ![x] = v]
  <2>1. frame.locals \in [Locals -> Word]
    BY <1>4 DEF Frame
  <2>2. ASSUME NEW n \in Mir!Names(Source)
        PROVE  f.locals[idx(n)] = IF n = x THEN v ELSE frame.locals[idx(n)]
    BY <1>5, <1>7, <2>1
  <2> QED
    BY <1>2, <2>2
<1>9. b = [function |-> Source, at |-> At + 1, temps |-> frame.regs, locals |-> stored,
           dest |-> frame.return_dest]
  BY <1>6, <1>7 DEF Activation, Source, function, Mir!Names, idx
<1>10. a = [function |-> Source, at |-> At, temps |-> frame.regs, locals |-> locals,
            dest |-> frame.return_dest]
  BY DEF Activation, Source, At, function, Mir!Names, idx
<1>11. Mir!Becomes(b) /\ Mir!top = a
  BY <1>1, TopSeen, AdvanceSeen
<1> HIDE DEF a, b, locals, stored
<1>12. b = [a EXCEPT !.locals = stored, !.at = a.at + 1] /\ a.locals = locals
  <2> DEFINE c == [function |-> Source, at |-> At, temps |-> frame.regs, locals |-> stored,
                   dest |-> frame.return_dest]
  <2>1. a.at = At /\ a.locals = locals
    BY <1>10
  <2>2. c = [a EXCEPT !.locals = stored]
    BY <1>10
  <2>3. b = [c EXCEPT !.at = At + 1]
    BY <1>9
  <2> HIDE DEF c
  <2> QED
    BY <2>1, <2>2, <2>3
<1>13. b = [a EXCEPT !.locals[x] = v, !.at = @ + 1]
  BY <1>8, <1>12, Zenon
<1> QED
  BY <1>2, <1>3, <1>11, <1>13 DEF Mir!Store, x

\* An operator is applied to its operands, in their order.
LEMMA BinarySeen == ASSUME IInv, TypeOK', Binary PROVE Mir!Operate
<1>1. /\ Fetch /\ Op \in BinaryOps /\ (Op = DIV_INT => Reg(3) # 0)
      /\ SetReg(Arg(1), Compute(Op, Reg(2), Reg(3)), 4)
  BY DEF Binary
<1>2. /\ Instr.op \in Mir!Operators /\ Len(WordsAt) = 4
      /\ Op = Gen!BinaryOpcode[Instr.op] /\ Instr.dst \in Regs
      /\ Arg(1) = Instr.dst /\ Arg(2) = Instr.lhs /\ Arg(3) = Instr.rhs
  BY <1>1, Decoded
<1>3. /\ Mir!Turn /\ Mir!instr = Instr
      /\ Reg(2) = Mir!top.temps[Instr.lhs] /\ Reg(3) = Mir!top.temps[Instr.rhs]
  BY <1>1, <1>2, TopSeen DEF Fetch, Reg
<1>4. /\ Compute(Op, Reg(2), Reg(3)) = Mir!Apply(Instr.op, Reg(2), Reg(3))
      /\ Instr.op = "div" => Op = DIV_INT
  BY <1>2, SameOperation
<1>5. Mir!SetTemp(Instr.dst, Mir!Apply(Instr.op, Mir!top.temps[Instr.lhs],
                                                 Mir!top.temps[Instr.rhs]))
  BY <1>1, <1>2, <1>3, <1>4, SetRegSeen
<1> QED
  BY <1>1, <1>2, <1>3, <1>4, <1>5 DEF Mir!Operate

\* A division fails where the MIR says so.
LEMMA DivideSeen == ASSUME IInv, DivideByZero \/ DivideTrap PROVE Mir!DivideFails
<1>1. /\ Fetch /\ Op = DIV_INT
      /\ \/ Reg(3) = 0 /\ Stop("failed")
         \/ Reg(2) = MinInt /\ Reg(3) = -1 /\ Stop("trapped")
  BY DEF DivideByZero, DivideTrap
<1>2. Op \in BinaryOps
  BY <1>1, OpcodeClasses
<1>3. /\ Instr.op \in Mir!Operators /\ Op = Gen!BinaryOpcode[Instr.op]
      /\ Arg(2) = Instr.lhs /\ Arg(3) = Instr.rhs
  BY <1>1, <1>2, Decoded
<1>4. Instr.op = "div"
  BY <1>1, <1>3, SameOperation
<1>5. /\ Mir!Turn /\ Mir!instr = Instr
      /\ Reg(2) = Mir!top.temps[Instr.lhs] /\ Reg(3) = Mir!top.temps[Instr.rhs]
  BY <1>1, <1>3, TopSeen DEF Fetch, Reg
<1>6. \/ Reg(3) = 0 /\ Mir!Stop("failed")
      \/ Reg(2) = MinInt /\ Reg(3) = -1 /\ Mir!Stop("trapped")
  BY <1>1, StopSeen
<1> QED
  BY <1>4, <1>5, <1>6 DEF Mir!DivideFails

\* A label is passed.
LEMMA LabelSeen == ASSUME IInv, TypeOK', Label PROVE Mir!Pass
<1>1. /\ Fetch /\ Op = LABEL /\ KeepRunning
      /\ Advance([frame EXCEPT !.pc = frame.pc + 2])
  BY DEF Label
<1>2. Instr.op = "label" /\ Len(WordsAt) = 2
  BY <1>1, Decoded
<1>3. Mir!Turn /\ Mir!instr = Instr /\ Mir!top.at = At
  BY <1>1, TopSeen DEF Fetch
<1>4. Position(function, frame.pc + 2) = At + 1
  BY <1>1, <1>2, Decode
<1>5. Mir!GoTo(At + 1)
  BY <1>1, <1>4, MoveSeen
<1> QED
  BY <1>2, <1>3, <1>5 DEF Mir!Pass

\* The machine finds nothing to fetch only behind the last instruction.
LEMMA RanOffSeen == ASSUME IInv, RanOff PROVE Mir!NoReturn
<1>1. status = "running" /\ ~Fetch /\ Stop("failed")
  BY DEF RanOff
<1>2. ~Mir!Turn
  BY <1>1, TopSeen
<1> QED
  BY <1>1, <1>2, StopSeen DEF Mir!NoReturn

\* The labels of the code are those of the MIR.
LEMMA LabelWords ==
    ASSUME NEW mir, LoweredProgram(mir), NEW f, LoweredFunction(f), Gen!Generates(mir, f),
           NEW n, n = Len(f.instrs), NEW W, W = Code(mir, f),
           NEW g, g = Gen!codegen_function(mir, f),
           NEW k \in 1 .. n
    PROVE  /\ End(W, k - 1) \in Labels(g) <=> f.instrs[k].op = "label"
           /\ f.instrs[k].op = "label" =>
                 /\ g.code[End(W, k - 1) + 1] = f.instrs[k].value
                 /\ f.instrs[k].value \in 0 .. MaxCode - 1
                 /\ 2 + End(W, k - 1) = End(W, k)
<1>1. /\ Pieces(n, W) /\ Shape(mir, f, f.instrs[k], W[k])
      /\ g.starts = {End(W, i - 1) : i \in 1 .. n}
      /\ \A j \in 0 .. Len(W[k]) - 1 : g.code[End(W, k - 1) + j] = W[k][j + 1]
  BY Layout
<1>2. Len(W[k]) \in Nat /\ Len(W[k]) >= 2
  BY <1>1, WidthOfShape
<1>3. End(W, k - 1) \in Nat /\ End(W, k) = End(W, k - 1) + Len(W[k])
  <2>1. k - 1 \in 0 .. n /\ n \in Nat
    BY <1>1 DEF Pieces
  <2> QED
    BY <1>1, <2>1, Ends
<1> DEFINE w == W[k]
           s == End(W, k - 1)
<1> HIDE DEF w, s
<1>4. g.code[s] = w[1] /\ g.code[s + 1] = w[2]
  <2>1. 0 \in 0 .. Len(w) - 1 /\ 1 \in 0 .. Len(w) - 1 /\ s + 0 = s
    BY <1>2, <1>3 DEF w, s
  <2>2. g.code[s + 0] = w[0 + 1] /\ g.code[s + 1] = w[1 + 1]
    BY <1>1, <2>1 DEF w, s
  <2> QED
    BY <2>1, <2>2
<1>5. s \in g.starts
  BY <1>1 DEF s
<1>6. f.instrs[k].op = "label" =>
         /\ w[1] = LABEL /\ w[2] = f.instrs[k].value /\ Len(w) = 2
         /\ f.instrs[k].value \in 0 .. MaxCode - 1
  BY <1>1 DEF Shape, Mir!Operators, w
<1>7. w[1] = LABEL => f.instrs[k].op = "label"
  BY <1>1, OpOfShape DEF w
<1> QED
  <2>1. s \in Labels(g) <=> f.instrs[k].op = "label"
    BY <1>4, <1>5, <1>6, <1>7 DEF Labels
  <2>2. f.instrs[k].op = "label" => 2 + s = End(W, k)
    <3>1. End(W, k) = s + Len(w) /\ s \in Nat
      BY <1>3 DEF w, s
    <3>2. \A i \in Nat : i + 2 = 2 + i
      OBVIOUS
    <3> QED
      BY <1>6, <3>1, <3>2
  <2> QED
    BY <1>4, <1>6, <2>1, <2>2 DEF s

\* A jump finds a label in the code exactly if the MIR has it, and goes behind
\* it.
LEMMA TargetsSeen ==
    ASSUME NEW mir, LoweredProgram(mir), NEW f, LoweredFunction(f), Gen!Generates(mir, f),
           NEW g, g = Gen!codegen_function(mir, f), NEW l
    PROVE  /\ HasTarget(g, l) <=> Mir!LabelAt(f, l) # {}
           /\ HasTarget(g, l) =>
                 \E i \in Mir!LabelAt(f, l) : Position(g, Target(g, l)) = i + 1
<1> DEFINE n == Len(f.instrs)
           W == Code(mir, f)
<1>0. n = Len(f.instrs) /\ W = Code(mir, f)
  OBVIOUS
<1> HIDE DEF n, W
<1>1. /\ Pieces(n, W) /\ DOMAIN f.instrs = 1 .. n /\ n \in Nat
      /\ g.starts = {End(W, i - 1) : i \in 1 .. n}
  BY <1>0, Layout DEF Pieces
<1>2. ASSUME NEW k \in 1 .. n
      PROVE  /\ End(W, k - 1) \in Labels(g) <=> f.instrs[k].op = "label"
             /\ f.instrs[k].op = "label" =>
                   /\ g.code[End(W, k - 1) + 1] = f.instrs[k].value
                   /\ 2 + End(W, k - 1) = End(W, k)
  BY <1>0, LabelWords
<1>3. ASSUME NEW s \in Labels(g), g.code[s + 1] = l
      PROVE  \E i \in Mir!LabelAt(f, l) : Position(g, 2 + s) = i + 1
  <2>1. PICK k \in 1 .. n : s = End(W, k - 1)
    BY <1>1, <1>3 DEF Labels
  <2>2. k \in Mir!LabelAt(f, l) /\ 2 + s = End(W, k)
    BY <1>1, <1>2, <1>3, <2>1 DEF Mir!LabelAt
  <2>3. k + 1 \in 1 .. n + 1 /\ (k + 1) - 1 = k
    BY <1>1
  <2>4. Position(g, End(W, (k + 1) - 1)) = k + 1
    BY <1>1, <2>3, PositionOf
  <2> QED
    BY <2>2, <2>3, <2>4
<1>4. ASSUME NEW i \in Mir!LabelAt(f, l) PROVE HasTarget(g, l)
  <2>1. i \in 1 .. n /\ f.instrs[i].op = "label" /\ f.instrs[i].value = l
    BY <1>1 DEF Mir!LabelAt
  <2> QED
    BY <1>2, <2>1 DEF HasTarget
<1>5. ASSUME HasTarget(g, l)
      PROVE  \E i \in Mir!LabelAt(f, l) : Position(g, Target(g, l)) = i + 1
  <2> DEFINE s == CHOOSE s \in Labels(g) : g.code[s + 1] = l
  <2>1. s \in Labels(g) /\ g.code[s + 1] = l
    BY <1>5 DEF HasTarget
  <2>2. Target(g, l) = 2 + s
    BY DEF Target
  <2> HIDE DEF s
  <2> QED
    BY <1>3, <2>1, <2>2
<1> QED
  BY <1>4, <1>5

\* The same, for the function that runs.
LEMMA HereTargets ==
    ASSUME IInv, Fetch, NEW l
    PROVE  /\ HasTarget(function, l) <=> Mir!LabelAt(Mir!top.function, l) # {}
           /\ HasTarget(function, l) =>
                 \E i \in Mir!LabelAt(Mir!top.function, l) :
                    Position(function, Target(function, l)) = i + 1
<1>1. LoweredProgram(program.mir)
  BY Generated DEF IInv
<1>2. /\ LoweredFunction(Source) /\ Gen!Generates(program.mir, Source)
      /\ function = Gen!codegen_function(program.mir, Source)
      /\ Mir!top.function = Source
  BY Running, TopSeen DEF Fetch
<1> QED
  BY <1>1, <1>2, TargetsSeen

\* A jump goes behind its label.
LEMMA JumpSeen == ASSUME IInv, TypeOK', Jump PROVE Mir!Jump
<1>1. /\ Fetch /\ Op = JUMP /\ HasTarget(function, Arg(1)) /\ KeepRunning
      /\ Advance([frame EXCEPT !.pc = Target(function, Arg(1))])
  BY DEF Jump
<1>2. Instr.op = "jump" /\ Arg(1) = Instr.value
  BY <1>1, Decoded
<1>3. Mir!Turn /\ Mir!instr = Instr
  BY <1>1, TopSeen DEF Fetch
<1>4. PICK i \in Mir!LabelAt(Mir!top.function, Instr.value) :
         Position(function, Target(function, Arg(1))) = i + 1
  BY <1>1, <1>2, HereTargets
<1>5. Mir!GoTo(i + 1)
  BY <1>1, <1>4, MoveSeen
<1> QED
  BY <1>2, <1>3, <1>4, <1>5 DEF Mir!Jump, Mir!Taken

\* A conditional jump is taken exactly if its register is zero.
LEMMA JumpIfFalseSeen ==
    ASSUME IInv, TypeOK', JumpIfFalse
    PROVE  Mir!Jump \/ Mir!FallThrough
<1> DEFINE pc == IF Reg(1) = 0 THEN Target(function, Arg(2)) ELSE frame.pc + 3
<1>1. /\ Fetch /\ Op = JUMP_IF_FALSE /\ KeepRunning
      /\ Reg(1) = 0 => HasTarget(function, Arg(2))
      /\ Advance([frame EXCEPT !.pc = pc])
  BY DEF JumpIfFalse
<1>2. /\ Instr.op = "jump_if_false" /\ Len(WordsAt) = 3
      /\ Arg(1) = Instr.dst /\ Arg(2) = Instr.value
  BY <1>1, Decoded
<1>3. Mir!Turn /\ Mir!instr = Instr /\ Mir!top.temps[Instr.dst] = Reg(1) /\ Mir!top.at = At
  BY <1>1, <1>2, TopSeen DEF Fetch, Reg
<1>4. CASE Reg(1) = 0
  <2>1. PICK i \in Mir!LabelAt(Mir!top.function, Instr.value) :
           Position(function, Target(function, Arg(2))) = i + 1
    BY <1>1, <1>2, <1>4, HereTargets
  <2>2. Mir!GoTo(i + 1)
    BY <1>1, <1>4, <2>1, MoveSeen
  <2> QED
    BY <1>2, <1>3, <1>4, <2>1, <2>2 DEF Mir!Jump, Mir!Taken
<1>5. CASE Reg(1) # 0
  <2>1. Position(function, frame.pc + 3) = At + 1
    BY <1>1, <1>2, Decode
  <2>2. Mir!GoTo(At + 1)
    BY <1>1, <1>5, <2>1, MoveSeen
  <2> QED
    BY <1>2, <1>3, <1>5, <2>2 DEF Mir!FallThrough, Mir!Taken
<1> QED
  BY <1>4, <1>5

\* A jump to a label that is not there fails.
LEMMA JumpNowhereSeen == ASSUME IInv, JumpNowhere PROVE Mir!Jump
<1>1. /\ Fetch /\ Stop("failed")
      /\ \/ Op = JUMP /\ ~HasTarget(function, Arg(1))
         \/ Op = JUMP_IF_FALSE /\ Reg(1) = 0 /\ ~HasTarget(function, Arg(2))
  BY DEF JumpNowhere
<1>2. /\ Op = JUMP => Instr.op = "jump" /\ Arg(1) = Instr.value
      /\ Op = JUMP_IF_FALSE =>
            Instr.op = "jump_if_false" /\ Arg(1) = Instr.dst /\ Arg(2) = Instr.value
  BY <1>1, Decoded
<1>3. Mir!Turn /\ Mir!instr = Instr /\ Mir!top.temps = frame.regs
  BY <1>1, TopSeen DEF Fetch
<1>4. Mir!Taken
  BY <1>1, <1>2, <1>3 DEF Mir!Taken, Reg
<1>5. Mir!LabelAt(Mir!top.function, Instr.value) = {}
  BY <1>1, <1>2, HereTargets
<1>6. Mir!Stop("failed")
  BY <1>1, StopSeen
<1> QED
  BY <1>3, <1>4, <1>5, <1>6 DEF Mir!Jump

-----------------------------------------------------------------------------
(* Entering a function.                                                    *)

\* A function's code can be prepared exactly if no two of its labels have the
\* same number.
LEMMA PreparableSeen ==
    ASSUME NEW mir, LoweredProgram(mir), NEW f, LoweredFunction(f), Gen!Generates(mir, f),
           NEW g, g = Gen!codegen_function(mir, f)
    PROVE  Preparable(g) <=> Mir!LabelsDistinct(f)
<1> DEFINE n == Len(f.instrs)
           W == Code(mir, f)
<1>0. n = Len(f.instrs) /\ W = Code(mir, f)
  OBVIOUS
<1> HIDE DEF n, W
<1>1. /\ Pieces(n, W) /\ DOMAIN f.instrs = 1 .. n /\ n \in Nat
      /\ g.starts = {End(W, i - 1) : i \in 1 .. n}
  BY <1>0, Layout DEF Pieces
<1>2. ASSUME NEW k \in 1 .. n
      PROVE  /\ End(W, k - 1) \in Labels(g) <=> f.instrs[k].op = "label"
             /\ f.instrs[k].op = "label" =>
                   /\ g.code[End(W, k - 1) + 1] = f.instrs[k].value
                   /\ f.instrs[k].value \in 0 .. MaxCode - 1
  BY <1>0, LabelWords
<1>3. ASSUME NEW s \in Labels(g)
      PROVE  \E k \in 1 .. n : s = End(W, k - 1) /\ f.instrs[k].op = "label"
  <2>1. PICK k \in 1 .. n : s = End(W, k - 1)
    BY <1>1 DEF Labels
  <2> QED
    BY <1>2, <2>1
<1>4. ASSUME NEW i \in 1 .. n, NEW j \in 1 .. n, End(W, i - 1) = End(W, j - 1)
      PROVE  i = j
  <2>1. Position(g, End(W, i - 1)) = i
    <3>1. i \in 1 .. n + 1
      BY <1>1
    <3> QED
      BY <1>1, <3>1, PositionOf
  <2>2. Position(g, End(W, j - 1)) = j
    <3>1. j \in 1 .. n + 1
      BY <1>1
    <3> QED
      BY <1>1, <3>1, PositionOf
  <2> QED
    BY <1>4, <2>1, <2>2
<1>5. ASSUME Mir!LabelsDistinct(f) PROVE Preparable(g)
  <2>1. ASSUME NEW s \in Labels(g) PROVE g.code[s + 1] \in 0 .. MaxCode - 1
    BY <1>2, <1>3
  <2>2. ASSUME NEW s \in Labels(g), NEW t \in Labels(g), g.code[s + 1] = g.code[t + 1]
        PROVE  s = t
    <3>1. PICK i \in 1 .. n : s = End(W, i - 1) /\ f.instrs[i].op = "label"
      BY <1>3
    <3>2. PICK j \in 1 .. n : t = End(W, j - 1) /\ f.instrs[j].op = "label"
      BY <1>3
    <3>3. f.instrs[i].value = f.instrs[j].value
      BY <1>2, <2>2, <3>1, <3>2
    <3>4. i = j
      BY <1>1, <1>5, <3>1, <3>2, <3>3 DEF Mir!LabelsDistinct, Mir!LabelAt
    <3> QED
      BY <3>1, <3>2, <3>4
  <2> QED
    BY <2>1, <2>2 DEF Preparable
<1>6. ASSUME Preparable(g) PROVE Mir!LabelsDistinct(f)
  <2> SUFFICES ASSUME NEW i \in 1 .. n, NEW j \in 1 .. n,
                      f.instrs[i].op = "label", f.instrs[j].op = "label",
                      f.instrs[j].value = f.instrs[i].value
               PROVE  i = j
    BY <1>1 DEF Mir!LabelsDistinct, Mir!LabelAt
  <2>1. /\ End(W, i - 1) \in Labels(g) /\ End(W, j - 1) \in Labels(g)
        /\ g.code[End(W, i - 1) + 1] = g.code[End(W, j - 1) + 1]
    BY <1>2
  <2>2. End(W, i - 1) = End(W, j - 1)
    BY <1>6, <2>1 DEF Preparable
  <2> QED
    BY <1>4, <2>2
<1> QED
  BY <1>5, <1>6

\* The arguments are in the first locals, and zeros in the others.
Passed(fr, args) ==
    \A l \in Locals : fr.locals[l] = IF l + 1 \in DOMAIN args THEN args[l + 1] ELSE 0

\* A frame that a function is entered with is a new activation of it.
LEMMA EnteredSeen ==
    ASSUME TypeOK, NEW i \in 0 .. Len(program.mir) - 1, NEW args, NEW dest, NEW fr,
           fr.function_index = i, fr.pc = 0, fr.return_dest = dest,
           fr.regs = [r \in Regs |-> 0], Passed(fr, args)
    PROVE  Activation(program, fr) = Mir!Activation(program.mir[i + 1], args, dest)
<1> DEFINE m == program.mir
           f == m[i + 1]
           n == Len(f.instrs)
           W == Code(m, f)
           g == Gen!codegen_function(m, f)
<1>1. /\ LoweredProgram(m) /\ Len(m) \in Nat /\ i + 1 \in DOMAIN m /\ Gen!Compiles(m)
      /\ program.functions[i] = g
  BY Generated
<1>2. LoweredFunction(f) /\ Gen!Generates(m, f)
  BY <1>1 DEF LoweredProgram, Gen!Compiles, Gen!GeneratesProgram
<1>0. n = Len(f.instrs) /\ W = Code(m, f) /\ g = Gen!codegen_function(m, f) /\ f = m[i + 1]
  OBVIOUS
<1> HIDE DEF f, n, W, g
<1>3. Position(g, 0) = 1
  <2>1. Pieces(n, W) /\ g.starts = {End(W, k - 1) : k \in 1 .. n}
    BY <1>0, <1>1, <1>2, Layout
  <2>2. 1 \in 1 .. n + 1 /\ n \in Nat /\ 1 - 1 = 0
    BY <2>1 DEF Pieces
  <2>3. End(W, 0) = 0
    BY <2>1, <2>2, Ends
  <2>4. \A k \in 1 .. n + 1 : Position(g, End(W, k - 1)) = k
    BY <2>1, PositionOf
  <2>5. Position(g, End(W, 1 - 1)) = 1
    BY <2>2, <2>4
  <2> QED
    BY <2>2, <2>3, <2>5
<1>4. ASSUME NEW x \in Mir!Names(f)
      PROVE  fr.locals[Gen!find_local_index(f, x)] =
                IF Mir!Declared(f, x) \in DOMAIN args THEN args[Mir!Declared(f, x)] ELSE 0
  BY <1>2, LocalIndex DEF Passed
<1>5. Activation(program, fr) =
         [function |-> f, at |-> 1, temps |-> [r \in Regs |-> 0],
          locals |-> [x \in Mir!Names(f) |-> fr.locals[Gen!find_local_index(f, x)]],
          dest |-> dest]
  BY <1>0, <1>1, <1>3 DEF Activation, Mir!Names
<1> QED
  BY <1>0, <1>4, <1>5 DEF Mir!Activation

\* A program can be started exactly if the labels of each function are distinct.
LEMMA StartableSeen ==
    ASSUME TypeOK
    PROVE  /\ Startable <=> \A i \in DOMAIN program.mir : Mir!LabelsDistinct(program.mir[i])
           /\ program.entry \in 0 .. Len(program.mir) - 1
           /\ program.entry + 1 \in DOMAIN program.mir
           /\ program.mir[program.entry + 1].name = "main"
<1> DEFINE m == program.mir
<1>1. /\ LoweredProgram(m) /\ Len(m) \in Nat /\ DOMAIN m = 1 .. Len(m) /\ Gen!Compiles(m)
      /\ program.functions = [i \in 0 .. Len(m) - 1 |-> Gen!codegen_function(m, m[i + 1])]
      /\ program.entry = Gen!find_main_index(m)
  BY Generated
<1>2. /\ program.entry \in 0 .. Len(m) - 1 /\ program.entry + 1 \in DOMAIN m
      /\ m[program.entry + 1].name = "main"
  <2>1. PICK i \in DOMAIN m : Gen!Mains(m) = {i}
    BY <1>1 DEF Gen!Compiles
  <2>2. Gen!find_main_index(m) = i - 1 /\ i \in Gen!Mains(m)
    BY <2>1 DEF Gen!find_main_index
  <2> QED
    BY <1>1, <2>1, <2>2 DEF Gen!Mains
<1>3. ASSUME NEW i \in 0 .. Len(m) - 1
      PROVE  Preparable(program.functions[i]) <=> Mir!LabelsDistinct(m[i + 1])
  <2>1. i + 1 \in DOMAIN m
    BY <1>1
  <2>2. LoweredFunction(m[i + 1]) /\ Gen!Generates(m, m[i + 1])
    BY <1>1, <2>1 DEF LoweredProgram, Gen!Compiles, Gen!GeneratesProgram
  <2> QED
    BY <1>1, <2>2, PreparableSeen
<1>4. Startable <=> \A i \in 0 .. Len(m) - 1 : Mir!LabelsDistinct(m[i + 1])
  BY <1>1, <1>2, <1>3 DEF Startable, FunctionIndexes
<1>5. (\A i \in 0 .. Len(m) - 1 : Mir!LabelsDistinct(m[i + 1]))
         <=> \A j \in DOMAIN m : Mir!LabelsDistinct(m[j])
  <2>1. ASSUME NEW j \in DOMAIN m PROVE j - 1 \in 0 .. Len(m) - 1 /\ (j - 1) + 1 = j
    BY <1>1
  <2>2. ASSUME NEW i \in 0 .. Len(m) - 1 PROVE i + 1 \in DOMAIN m
    BY <1>1
  <2> QED
    BY <2>1, <2>2
<1> QED
  BY <1>2, <1>4, <1>5

\* The machine starts with the function called main.
LEMMA StartSeen == ASSUME IInv, TypeOK', Start PROVE Mir!Start
<1> DEFINE fr == NewFrame(program.entry, -1)
           i == program.entry
<1>1. /\ status = "ready" /\ Startable /\ frames' = [frames EXCEPT ![0] = fr]
      /\ frame_count' = 1 /\ status' = "running" /\ program' = program /\ result' = result
  BY DEF Start
<1>2. /\ \A j \in DOMAIN program.mir : Mir!LabelsDistinct(program.mir[j])
      /\ i \in 0 .. Len(program.mir) - 1 /\ i + 1 \in DOMAIN program.mir
      /\ program.mir[i + 1].name = "main"
  BY <1>1, StartableSeen DEF IInv
<1>3. Activation(program, fr) = Mir!Activation(program.mir[i + 1], <<>>, -1)
  <2>1. /\ fr.function_index = i /\ fr.pc = 0 /\ fr.return_dest = -1
        /\ fr.regs = [r \in Regs |-> 0]
        /\ \A l \in Locals : fr.locals[l] = 0
    BY DEF NewFrame
  <2>2. Passed(fr, <<>>)
    BY <2>1 DEF Passed
  <2>3. TypeOK
    BY DEF IInv
  <2> HIDE DEF fr, i
  <2> QED
    BY <1>2, <2>1, <2>2, <2>3, EnteredSeen
<1> HIDE DEF fr
<1>4. frames'[0] = fr
  BY <1>1, VMAssumption DEF IInv, TypeOK
<1>5. Stack' = <<Activation(program, fr)>>
  <2>1. Stack' = Active(program, frames', 1)
    BY <1>1, StackNext
  <2>2. Stack' = [k \in {1} |-> Activation(program, frames'[k - 1])]
    <3>1. 1 .. 1 = {1}
      OBVIOUS
    <3> QED
      BY <2>1, <3>1 DEF Active
  <2> HIDE DEF fr
  <2> QED
    BY <1>4, <2>2
<1> QED
  BY <1>1, <1>2, <1>3, <1>5 DEF Mir!Start

\* The machine refuses a program in which two labels of a function are the same.
LEMMA StartRefusedSeen == ASSUME IInv, StartRefused PROVE Mir!StartRefused
<1>1. status = "ready" /\ ~Startable /\ Stop("failed")
  BY DEF StartRefused
<1> QED
  BY <1>1, StartableSeen, StopSeen DEF IInv, Mir!StartRefused

-----------------------------------------------------------------------------
(* Calls and returns.                                                      *)

\* What a call names: its callee, its arguments and where the result goes.
LEMMA CallDecoded ==
    ASSUME IInv, Fetch, Op = CALL
    PROVE  /\ Instr.op = "call" /\ Len(WordsAt) = 4 + Len(Instr.args)
           /\ Instr.args \in Seq(Regs) /\ Len(Instr.args) \in Nat
           /\ DOMAIN Instr.args = 1 .. Len(Instr.args)
           /\ Arg(1) = Instr.dst /\ Arg(3) = Len(Instr.args) /\ Instr.dst \in Regs
           /\ \A i \in 1 .. Len(Instr.args) : Arg(3 + i) = Instr.args[i]
           /\ Arg(2) \in 0 .. Len(program.mir) - 1 /\ Arg(2) \in FunctionIndexes
           /\ Arg(2) + 1 \in DOMAIN program.mir
           /\ program.mir[Arg(2) + 1].name = Instr.name
           /\ program.functions[Arg(2)].param_count = program.mir[Arg(2) + 1].param_count
           /\ program.mir[Arg(2) + 1].param_count <= MaxLocals
<1> DEFINE w == WordsAt
           ins == Instr
           m == program.mir
<1>1. /\ Shape(m, Source, ins, w) /\ Op = w[1]
      /\ \A j \in 0 .. Len(w) - 1 : Arg(j) = w[j + 1]
  BY Decode
<1>2. /\ Arg(1) = w[2]
      /\ Len(w) >= 3 => Arg(2) = w[3]
      /\ Len(w) >= 4 => Arg(3) = w[4]
  BY ArgsAre
<1> HIDE DEF w, ins
<1>3. ins.op = "call"
  BY <1>1, OpOfShape
<1>4. /\ Len(w) = 4 + Len(ins.args) /\ ins.args \in Seq(Regs) /\ ins.dst \in Regs
      /\ w[2] = ins.dst /\ w[3] = Gen!find_function_index(m, ins.name)
      /\ w[4] = Len(ins.args)
      /\ \A i \in 1 .. Len(ins.args) : w[4 + i] = ins.args[i]
      /\ Gen!find_function_index(m, ins.name) >= 0
  BY <1>1, <1>3 DEF Shape, Mir!Operators
<1>5. Len(ins.args) \in Nat /\ DOMAIN ins.args = 1 .. Len(ins.args)
  BY <1>4, LenProperties
<1>6. Arg(1) = ins.dst /\ Arg(2) = Gen!find_function_index(m, ins.name) /\ Arg(3) = Len(ins.args)
  BY <1>2, <1>4, <1>5
<1>7. ASSUME NEW i \in 1 .. Len(ins.args) PROVE Arg(3 + i) = ins.args[i]
  <2>1. 3 + i \in 0 .. Len(w) - 1 /\ (3 + i) + 1 = 4 + i
    BY <1>4, <1>5
  <2>2. Arg(3 + i) = w[(3 + i) + 1]
    BY <1>1, <2>1, Zenon
  <2> QED
    BY <1>4, <2>1, <2>2
<1>8. /\ LoweredProgram(m) /\ Gen!Compiles(m) /\ Len(m) \in Nat
      /\ program.functions = [i \in 0 .. Len(m) - 1 |-> Gen!codegen_function(m, m[i + 1])]
  BY Generated DEF IInv
<1>9. /\ Arg(2) \in 0 .. Len(m) - 1 /\ Arg(2) + 1 \in DOMAIN m
      /\ m[Arg(2) + 1].name = ins.name
  BY <1>4, <1>6, <1>8, FunctionIndex
<1>10. LoweredFunction(m[Arg(2) + 1]) /\ Gen!Generates(m, m[Arg(2) + 1])
  BY <1>8, <1>9 DEF LoweredProgram, Gen!Compiles, Gen!GeneratesProgram
<1>11. program.functions[Arg(2)].param_count = m[Arg(2) + 1].param_count
  BY <1>8, <1>9 DEF Gen!codegen_function
<1>12. m[Arg(2) + 1].param_count <= MaxLocals
  BY <1>10, LocalIndex, VMAssumption DEF LoweredFunction
<1> QED
  BY <1>3, <1>4, <1>5, <1>6, <1>7, <1>8, <1>9, <1>11, <1>12 DEF w, ins, FunctionIndexes

\* A call is refused when arguments and parameters differ, or at full depth.
LEMMA CallRefusedSeen == ASSUME IInv, CallRefused PROVE Mir!Call
<1>1. Fetch /\ Op = CALL /\ ~Callable /\ Stop("failed") /\ status = "running"
  BY DEF CallRefused, Fetch
<1> DEFINE f == program.mir[Arg(2) + 1]
<1>2. /\ Instr.op = "call" /\ Arg(3) = Len(Instr.args) /\ Arg(2) \in FunctionIndexes
      /\ f \in {program.mir[i] : i \in DOMAIN program.mir} /\ f.name = Instr.name
      /\ program.functions[Arg(2)].param_count = f.param_count
      /\ f.param_count <= MaxLocals
  BY <1>1, CallDecoded
<1>3. Mir!Turn /\ Mir!instr = Instr /\ Len(Stack) = frame_count
  BY <1>1, TopSeen
<1>4. frame_count \in 0 .. MaxFrames
  BY DEF IInv, TypeOK
<1>5. Len(Instr.args) # f.param_count \/ Len(Stack) = MaxFrames
  BY <1>1, <1>2, <1>3, <1>4, VMAssumption DEF Callable
<1>6. Mir!Stop("failed")
  BY <1>1, StopSeen
<1> QED
  BY <1>2, <1>3, <1>5, <1>6 DEF Mir!Call

\* Appending, position by position.
LEMMA AppendIs ==
    ASSUME NEW n \in Nat, NEW s, s = [i \in 1 .. n |-> s[i]], NEW x
    PROVE  Append(s, x) = [i \in 1 .. n + 1 |-> IF i = n + 1 THEN x ELSE s[i]]
<1> DEFINE S == {s[i] : i \in 1 .. n} \cup {x}
<1>1. s \in Seq(S) /\ x \in S
  <2>1. s \in [1 .. n -> S]
    OBVIOUS
  <2> QED
    BY <2>1, SeqDef
<1> HIDE DEF S
<1>2. DOMAIN s = 1 .. n
  OBVIOUS
<1>3. Len(s) = n
  BY <1>1, <1>2, LenProperties
<1>4. /\ Append(s, x) \in Seq(S) /\ Len(Append(s, x)) = n + 1
      /\ \A i \in 1 .. n : Append(s, x)[i] = s[i]
      /\ Append(s, x)[n + 1] = x
  BY <1>1, <1>3, AppendProperties
<1>5. Append(s, x) \in [1 .. n + 1 -> S]
  BY <1>4, LenProperties
<1> QED
  BY <1>4, <1>5

\* A call puts a new activation of the callee on top, with the arguments in its
\* parameters, and the caller goes on behind the call.
LEMMA CallSeen == ASSUME IInv, TypeOK', Call PROVE Mir!Call
<1> DEFINE c == Arg(2)
           next == frame.pc + 4 + Arg(3)
           f == program.mir[c + 1]
           args == [i \in DOMAIN Instr.args |-> Mir!top.temps[Instr.args[i]]]
           callee == [NewFrame(c, Arg(1)) EXCEPT !.locals =
                         [l \in Locals |-> IF l < Arg(3) THEN Reg(4 + l) ELSE 0]]
           caller == [frame EXCEPT !.pc = next]
<1>1. /\ Fetch /\ Op = CALL /\ Callable /\ status = "running"
      /\ program' = program /\ status' = status /\ result' = result
  BY DEF Call, Fetch
<1>2. /\ Instr.op = "call" /\ Len(WordsAt) = 4 + Len(Instr.args)
      /\ Instr.args \in Seq(Regs) /\ Len(Instr.args) \in Nat
      /\ DOMAIN Instr.args = 1 .. Len(Instr.args)
      /\ Arg(1) = Instr.dst /\ Arg(3) = Len(Instr.args)
      /\ \A i \in 1 .. Len(Instr.args) : Arg(3 + i) = Instr.args[i]
  BY <1>1, CallDecoded
<1>3. /\ c \in 0 .. Len(program.mir) - 1 /\ f \in {program.mir[i] : i \in DOMAIN program.mir}
      /\ f.name = Instr.name /\ Len(Instr.args) = f.param_count
  BY <1>1, <1>2, CallDecoded DEF Callable
<1>4. /\ frame_count = top + 1 /\ top \in Nat /\ frame \in Frame
      /\ frame_count < MaxFrames /\ frame_count \in Nat
  BY <1>1, Running DEF Callable
<1>5. /\ Mir!Turn /\ Mir!instr = Instr /\ Len(Stack) = frame_count
      /\ Mir!top.temps = frame.regs
  BY <1>1, TopSeen
<1>6. Passed(callee, args)
  <2>1. callee.locals = [l \in Locals |-> IF l < Arg(3) THEN Reg(4 + l) ELSE 0]
    BY DEF NewFrame
  <2> HIDE DEF callee
  <2> SUFFICES ASSUME NEW l \in Locals
               PROVE  callee.locals[l] = IF l + 1 \in DOMAIN args THEN args[l + 1] ELSE 0
    BY DEF Passed
  <2>2. l \in Nat /\ (l < Len(Instr.args) <=> l + 1 \in 1 .. Len(Instr.args))
    BY <1>2, VMAssumption DEF Locals
  <2>3. DOMAIN args = 1 .. Len(Instr.args)
    BY <1>2
  <2>4. CASE l < Len(Instr.args)
    <3>1. l + 1 \in 1 .. Len(Instr.args) /\ 3 + (l + 1) = 4 + l
      BY <2>2, <2>4
    <3>2. Arg(4 + l) = Instr.args[l + 1]
      BY <1>2, <3>1
    <3>3. args[l + 1] = frame.regs[Instr.args[l + 1]]
      BY <1>2, <1>5, <3>1
    <3> HIDE DEF args
    <3> QED
      BY <1>2, <2>1, <2>3, <2>4, <3>1, <3>2, <3>3 DEF Reg
  <2>5. CASE ~(l < Len(Instr.args))
    <3> HIDE DEF args
    <3> QED
      BY <1>2, <2>1, <2>2, <2>3, <2>5
  <2> QED
    BY <2>4, <2>5
<1>7. Activation(program, callee) = Mir!Activation(f, args, Instr.dst)
  <2>1. /\ callee.function_index = c /\ callee.pc = 0 /\ callee.return_dest = Instr.dst
        /\ callee.regs = [r \in Regs |-> 0]
    BY <1>2 DEF NewFrame
  <2>2. TypeOK
    BY DEF IInv
  <2> HIDE DEF callee, c, args
  <2>3. Activation(program, callee) = Mir!Activation(program.mir[c + 1], args, Instr.dst)
    BY <1>3, <1>6, <2>1, <2>2, EnteredSeen
  <2> QED
    BY <2>3
<1>8. Activation(program, caller) = [Activation(program, frame) EXCEPT !.at = @ + 1]
  <2> DEFINE a == Activation(program, frame)
             b == Activation(program, caller)
  <2>1. Position(function, next) = At + 1
    <3>1. frame.pc + Len(WordsAt) = next
      <4>1. frame.pc \in Nat
        BY <1>4 DEF Frame
      <4>2. \A x, y \in Nat : x + (4 + y) = x + 4 + y
        OBVIOUS
      <4> QED
        BY <1>2, <4>1, <4>2
    <3>2. Position(function, frame.pc + Len(WordsAt)) = At + 1
      BY <1>1, Decode
    <3> QED
      BY <3>1, <3>2
  <2>2. /\ caller.function_index = frame.function_index
        /\ caller.return_dest = frame.return_dest
        /\ caller.locals = frame.locals /\ caller.pc = next /\ caller.regs = frame.regs
    BY <1>4 DEF Frame
  <2> HIDE DEF caller, next
  <2>3. b = [function |-> Source, at |-> At + 1, temps |-> frame.regs, locals |-> a.locals,
             dest |-> frame.return_dest]
    BY <2>1, <2>2 DEF Activation, Source, function
  <2>4. a = [function |-> Source, at |-> At, temps |-> frame.regs, locals |-> a.locals,
             dest |-> frame.return_dest]
    BY DEF Activation, Source, At, function
  <2> HIDE DEF a, b
  <2>5. b = [a EXCEPT !.at = a.at + 1]
    BY <2>3, <2>4
  <2> QED
    BY <2>5 DEF a, b
<1>9. /\ frame_count' = frame_count + 1
      /\ frames'[frame_count] = callee
      /\ frames'[frame_count - 1] = caller
      /\ \A i \in 0 .. frame_count - 2 : frames'[i] = frames[i]
  BY CallKeeps, PushedIs
<1>10. Stack = Active(program, frames, frame_count)
       /\ Stack' = Active(program, frames', frame_count + 1)
  BY <1>1, <1>9, StackNow, StackNext DEF IInv
<1> HIDE DEF callee, caller, args, next, c, f
<1> DEFINE moved == [Stack EXCEPT ![Len(Stack)] = Activation(program, caller)]
<1>11. moved = [i \in 1 .. frame_count |->
                   IF i = frame_count THEN Activation(program, caller)
                                      ELSE Activation(program, frames[i - 1])]
  BY <1>4, <1>5, <1>10 DEF Active
<1>12. Append(moved, Activation(program, callee)) =
          [i \in 1 .. frame_count + 1 |->
              IF i = frame_count + 1 THEN Activation(program, callee) ELSE moved[i]]
  <2>1. moved = [i \in 1 .. frame_count |-> moved[i]]
    BY <1>11
  <2> HIDE DEF moved
  <2> QED
    BY <1>4, <2>1, AppendIs
<1>13. ASSUME NEW i \in 1 .. frame_count + 1
       PROVE  Activation(program, frames'[i - 1]) =
                 IF i = frame_count + 1 THEN Activation(program, callee) ELSE moved[i]
  <2>1. CASE i = frame_count + 1
    BY <1>4, <1>9, <2>1
  <2>2. CASE i = frame_count
    <3>1. moved[i] = Activation(program, caller) /\ i # frame_count + 1
      BY <1>4, <1>11, <2>2
    <3> QED
      BY <1>9, <2>2, <3>1
  <2>3. CASE i \in 1 .. frame_count - 1
    <3>1. moved[i] = Activation(program, frames[i - 1]) /\ i # frame_count + 1
      BY <1>4, <1>11, <2>3
    <3>2. i - 1 \in 0 .. frame_count - 2
      BY <1>4, <2>3
    <3> QED
      BY <1>9, <3>1, <3>2
  <2> QED
    BY <1>4, <2>1, <2>2, <2>3
<1>14. Stack' = Append(moved, Activation(program, callee))
  <2> HIDE DEF moved
  <2> QED
    BY <1>10, <1>12, <1>13 DEF Active
<1>15. moved = [Stack EXCEPT ![Len(Stack)].at = @ + 1]
  <2>1. Stack[Len(Stack)] = Activation(program, frame)
    BY <1>1, TopSeen DEF Mir!top
  <2> QED
    BY <1>8, <2>1
<1>16. Stack' = Append([Stack EXCEPT ![Len(Stack)].at = @ + 1],
                       Mir!Activation(f, args, Instr.dst))
  <2> HIDE DEF moved
  <2> QED
    BY <1>7, <1>14, <1>15
<1>17. ~(Len(Instr.args) # f.param_count \/ Len(Stack) = MaxFrames)
  BY <1>3, <1>4, <1>5, VMAssumption
<1> QED
  BY <1>1, <1>2, <1>3, <1>5, <1>16, <1>17 DEF Mir!Call, args

\* A return yields what its MIR instruction names.
LEMMA AnswerSeen ==
    ASSUME IInv, Fetch, Op \in ReturnOps
    PROVE  Mir!Turn /\ Mir!instr = Instr /\ Instr.op \in Mir!Returns /\ Mir!Answer = ReturnValue
<1>1. /\ Op = RETURN_LOCAL =>
            /\ Instr.op = "return_local" /\ Instr.name \in Mir!Names(Source)
            /\ Arg(1) = Gen!find_local_index(Source, Instr.name)
      /\ Op = RETURN_TEMP => Instr.op = "return_temp" /\ Arg(1) = Instr.dst
      /\ Op = RETURN_CONST_INT => Instr.op = "return_const_int" /\ Arg(1) = Instr.value
  BY Decoded
<1>2. /\ Mir!Turn /\ Mir!instr = Instr /\ Mir!top.temps = frame.regs
      /\ \A n \in Mir!Names(Source) :
            Mir!top.locals[n] = frame.locals[Gen!find_local_index(Source, n)]
  BY TopSeen DEF Fetch
<1>3. Op \in {RETURN_LOCAL, RETURN_TEMP, RETURN_CONST_INT}
  BY OpcodeClasses
<1> QED
  BY <1>1, <1>2, <1>3 DEF Mir!Answer, Mir!Returns, ReturnValue, Reg, RETURN_LOCAL, RETURN_TEMP,
     RETURN_CONST_INT

\* The last return ends the program with its answer.
LEMMA FinishSeen == ASSUME IInv, TypeOK', Finish PROVE Mir!Return
<1>1. /\ Fetch /\ Op \in ReturnOps /\ frame_count = 1 /\ frame_count' = 0
      /\ result' = ReturnValue /\ status' = "returned" /\ program' = program
      /\ status = "running"
  BY DEF Finish, Fetch
<1>2. Mir!Turn /\ Mir!instr = Instr /\ Instr.op \in Mir!Returns /\ Mir!Answer = ReturnValue
  BY <1>1, AnswerSeen
<1>3. Len(Stack) = 1
  BY <1>1, TopSeen
<1>4. Stack' = <<>>
  <2>1. Stack' = Active(program, frames', 0)
    BY <1>1, StackNext
  <2>2. 1 .. 0 = {}
    OBVIOUS
  <2> QED
    BY <2>1, <2>2 DEF Active
<1> QED
  BY <1>1, <1>2, <1>3, <1>4 DEF Mir!Return

\* A return takes the callee off the stack and gives its caller the answer.
LEMMA ReturnSeen == ASSUME IInv, TypeOK', Return PROVE Mir!Return
<1> DEFINE n == frame_count - 1
           v == ReturnValue
           d == frame.return_dest
           caller == frames[n - 1]
           regs == [r \in Regs |-> IF r = d THEN v ELSE caller.regs[r]]
           given == [caller EXCEPT !.regs = regs]
<1>1. /\ Fetch /\ Op \in ReturnOps /\ frame_count > 1 /\ program' = program
      /\ status' = status /\ result' = result /\ status = "running"
  BY DEF Return, Fetch
<1>2. Mir!Turn /\ Mir!instr = Instr /\ Instr.op \in Mir!Returns /\ Mir!Answer = v
  BY <1>1, AnswerSeen
<1>3. /\ frame_count = top + 1 /\ top \in Nat /\ top \in 0 .. MaxFrames - 1
      /\ frame_count \in Nat /\ n \in Nat /\ n >= 1 /\ n = top
      /\ frames \in [0 .. MaxFrames - 1 -> Frame]
  BY <1>1, Running DEF IInv, TypeOK
<1>4. Len(Stack) = frame_count /\ Mir!top.dest = d
  BY <1>1, TopSeen
<1>5. caller \in Frame
  BY <1>3, VMAssumption
<1>6. /\ frame_count' = n
      /\ \A i \in 0 .. n - 2 : frames'[i] = frames[i]
      /\ frames'[n - 1] = given
  <2>1. frame_count - 2 = n - 1 /\ frame_count - 3 = n - 2
    BY <1>3
  <2> QED
    BY <2>1, ReturnDelivers
<1>7. Stack = Active(program, frames, frame_count) /\ Stack' = Active(program, frames', n)
  BY <1>1, <1>6, StackNow, StackNext DEF IInv
<1>8. regs = [caller.regs EXCEPT ![d] = v]
  <2>1. caller.regs \in [Regs -> Word]
    BY <1>5 DEF Frame
  <2> HIDE DEF caller, v, d
  <2> QED
    BY <2>1
<1>9. Activation(program, given) = [Activation(program, caller) EXCEPT !.temps[d] = v]
  <2> DEFINE a == Activation(program, caller)
             b == Activation(program, given)
  <2>1. /\ given.function_index = caller.function_index
        /\ given.return_dest = caller.return_dest /\ given.locals = caller.locals
        /\ given.pc = caller.pc /\ given.regs = regs
    BY <1>5 DEF Frame
  <2> HIDE DEF given, caller, regs, v, d
  <2>2. b = [function |-> a.function, at |-> a.at, temps |-> regs, locals |-> a.locals,
             dest |-> a.dest]
    BY <2>1 DEF Activation
  <2>3. a = [function |-> a.function, at |-> a.at, temps |-> caller.regs, locals |-> a.locals,
             dest |-> a.dest]
    BY DEF Activation
  <2> HIDE DEF a, b
  <2>4. b = [a EXCEPT !.temps = regs] /\ a.temps = caller.regs
    BY <2>2, <2>3
  <2>5. b = [a EXCEPT !.temps[d] = v]
    BY <1>8, <2>4, Zenon
  <2> QED
    BY <2>5 DEF a, b
<1> HIDE DEF given, caller, regs, v, d
<1> DEFINE below == SubSeq(Stack, 1, Len(Stack) - 1)
<1>10. below = Active(program, frames, n) /\ Len(below) = n
  <2>1. n \in 0 .. MaxFrames
    BY <1>3, VMAssumption
  <2>2. below = [i \in 1 .. n |-> Stack[i]]
    <3> DEFINE S == {Stack[i] : i \in 1 .. n}
    <3>1. \A i \in 1 .. n : Stack[i] \in S
      OBVIOUS
    <3> HIDE DEF S
    <3>2. /\ SubSeq(Stack, 1, n) \in Seq(S)
          /\ Len(SubSeq(Stack, 1, n)) = IF 1 <= n THEN n - 1 + 1 ELSE 0
          /\ \A i \in 1 .. n - 1 + 1 : SubSeq(Stack, 1, n)[i] = Stack[1 + i - 1]
      BY <1>3, <3>1, SubSeqProperties
    <3>3. n - 1 + 1 = n /\ 1 <= n /\ \A i \in 1 .. n : 1 + i - 1 = i
      BY <1>3
    <3>4. Len(SubSeq(Stack, 1, n)) = n /\ \A i \in 1 .. n : SubSeq(Stack, 1, n)[i] = Stack[i]
      BY <3>2, <3>3
    <3>5. SubSeq(Stack, 1, n) \in [1 .. n -> S]
      BY <3>2, <3>4, LenProperties
    <3>6. below = SubSeq(Stack, 1, n)
      BY <1>4
    <3> QED
      BY <3>4, <3>5, <3>6
  <2>3. \A i \in 1 .. n : i \in 1 .. frame_count
    BY <1>3
  <2>4. below = Active(program, frames, n)
    <3> HIDE DEF below, n
    <3> QED
      BY <1>7, <2>2, <2>3 DEF Active
  <2> QED
    BY <2>1, <2>4, PrefixOfStack
<1> HIDE DEF below
<1>11. [below EXCEPT ![Len(below)].temps[d] = v] = [below EXCEPT ![n] = Activation(program, given)]
  <2>1. below[n] = Activation(program, caller)
    <3>1. n \in 1 .. n
      BY <1>3
    <3> QED
      BY <1>10, <3>1 DEF Active, caller
  <2> QED
    BY <1>9, <1>10, <2>1
<1>12. ASSUME NEW i \in 1 .. n
       PROVE  Activation(program, frames'[i - 1]) =
                 IF i = n THEN Activation(program, given) ELSE below[i]
  <2>1. CASE i = n
    BY <1>6, <2>1
  <2>2. CASE i # n
    <3>1. i - 1 \in 0 .. n - 2
      BY <1>3, <2>2
    <3> QED
      BY <1>6, <1>10, <2>2, <3>1 DEF Active
  <2> QED
    BY <2>1, <2>2
<1>13. Stack' = [below EXCEPT ![n] = Activation(program, given)]
  BY <1>7, <1>10, <1>12 DEF Active
<1>14. Stack' = [below EXCEPT ![Len(below)].temps[Mir!top.dest] = Mir!Answer]
  BY <1>2, <1>4, <1>11, <1>13
<1>15. Len(Stack) # 1
  BY <1>1, <1>4
<1> QED
  BY <1>1, <1>2, <1>14, <1>15 DEF Mir!Return, below

-----------------------------------------------------------------------------
(* Compiled code does what the MIR means.                                  *)

\* Initial states are seen as initial states.
LEMMA InitSeen == Init => Mir!Init
<1> SUFFICES ASSUME Init PROVE Mir!Init
  OBVIOUS
<1>1. program \in Programs /\ frame_count = 0 /\ status = "ready" /\ result = 0
  BY DEF Init
<1>2. TypeOK
  BY InitInv DEF IInv
<1>3. Stack = <<>>
  <2>1. Stack = Active(program, frames, 0)
    BY <1>1, <1>2, StackNow
  <2>2. 1 .. 0 = {}
    OBVIOUS
  <2> QED
    BY <2>1, <2>2 DEF Active
<1> QED
  BY <1>1, <1>3 DEF Mir!Init

\* Each step of the machine is seen as one of the MIR.
LEMMA StepSeen == IInv /\ [Next]_vars => [Mir!Next]_(Mir!vars)
<1> SUFFICES ASSUME IInv, [Next]_vars PROVE [Mir!Next]_(Mir!vars)
  OBVIOUS
<1>1. TypeOK'
  BY StepInv DEF IInv
<1>2. CASE Start
  BY <1>1, <1>2, StartSeen DEF Mir!Next
<1>3. CASE StartRefused
  BY <1>3, StartRefusedSeen DEF Mir!Next
<1>4. CASE RanOff
  BY <1>4, RanOffSeen DEF Mir!Next
<1>5. CASE ConstInt
  BY <1>1, <1>5, ConstIntSeen DEF Mir!Next
<1>6. CASE StoreLocal
  BY <1>1, <1>6, StoreLocalSeen DEF Mir!Next
<1>7. CASE LoadLocal
  BY <1>1, <1>7, LoadLocalSeen DEF Mir!Next
<1>8. CASE Binary
  BY <1>1, <1>8, BinarySeen DEF Mir!Next
<1>9. CASE DivideByZero \/ DivideTrap
  BY <1>9, DivideSeen DEF Mir!Next
<1>10. CASE Label
  BY <1>1, <1>10, LabelSeen DEF Mir!Next
<1>11. CASE Jump
  BY <1>1, <1>11, JumpSeen DEF Mir!Next
<1>12. CASE JumpIfFalse
  BY <1>1, <1>12, JumpIfFalseSeen DEF Mir!Next
<1>13. CASE JumpNowhere
  BY <1>13, JumpNowhereSeen DEF Mir!Next
<1>14. CASE Call
  BY <1>1, <1>14, CallSeen DEF Mir!Next
<1>15. CASE CallRefused
  BY <1>15, CallRefusedSeen DEF Mir!Next
<1>16. CASE Return
  BY <1>1, <1>16, ReturnSeen DEF Mir!Next
<1>17. CASE Finish
  BY <1>1, <1>17, FinishSeen DEF Mir!Next
<1>18. CASE UNCHANGED vars
  BY <1>18 DEF vars, Mir!vars, Stack
<1> QED
  BY <1>2, <1>3, <1>4, <1>5, <1>6, <1>7, <1>8, <1>9, <1>10, <1>11, <1>12, <1>13, <1>14,
     <1>15, <1>16, <1>17, <1>18 DEF Next

\* The machine running generated code takes only steps that the MIR takes, from
\* its initial states: whatever the functions, the calls, the jumps and the
\* bounds, compiled code does what the MIR means.  (That it takes a step
\* whenever the MIR can is for the runs to check.)
THEOREM CompiledCodeMeansMir == Spec => Mir!Steps
<1>1. Spec => []IInv
  BY Inductive
<1>2. Init => Mir!Init
  BY InitSeen
<1>3. IInv /\ [Next]_vars => [Mir!Next]_(Mir!vars)
  BY StepSeen
<1> QED
  BY <1>1, <1>2, <1>3, PTL DEF Spec, Mir!Steps
=============================================================================
