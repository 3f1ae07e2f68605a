------------------------------ MODULE Opcodes ------------------------------
(***************************************************************************)
(* The instruction set of the beet register machine: the numeric opcodes   *)
(* of bytecode.h and the number of words each instruction occupies.        *)
(* Shared by the bytecode builder (Bytecode), the interpreter (VM) and the *)
(* code generator (Codegen).                                               *)
(***************************************************************************)
EXTENDS Integers

CONST_INT        == 1
STORE_LOCAL      == 2
LOAD_LOCAL       == 3
CALL             == 4
ADD_INT          == 5
SUB_INT          == 6
MUL_INT          == 7
DIV_INT          == 8
EQ_INT           == 9
NE_INT           == 10
LT_INT           == 11
LE_INT           == 12
GT_INT           == 13
GE_INT           == 14
RETURN_LOCAL     == 15
RETURN_TEMP      == 16
RETURN_CONST_INT == 17
LABEL            == 18
JUMP             == 19
JUMP_IF_FALSE    == 20

BinaryOps == ADD_INT .. GE_INT
ReturnOps == RETURN_LOCAL .. RETURN_CONST_INT
TwoWordOps == ReturnOps \cup {LABEL, JUMP}
ThreeWordOps == {CONST_INT, STORE_LOCAL, LOAD_LOCAL, JUMP_IF_FALSE}
Opcodes == CONST_INT .. JUMP_IF_FALSE

\* The words taken by an instruction: a CALL carries its arguments inline, and
\* an unknown opcode has width 0, which makes every scan reject it.
Width(op, argCount) ==
    CASE op \in TwoWordOps   -> 2
      [] op \in ThreeWordOps -> 3
      [] op \in BinaryOps    -> 4
      [] op = CALL           -> 4 + argCount
      [] OTHER               -> 0
=============================================================================
