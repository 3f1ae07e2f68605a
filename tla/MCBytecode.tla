---------------------------- MODULE MCBytecode ----------------------------
(* A bytecode array of a few words, with labels in and out of range, calls *)
(* with no and with two arguments, and every instruction width.  The one   *)
(* operand has the value of the LABEL opcode, so that a scan that stood in *)
(* the middle of an instruction would take it for a label.                 *)
EXTENDS Bytecode

MCOperands == {LABEL}
MCLabelIds == {-1, 0, 2, MaxCode}
MCArgLists == {<<>>, <<LABEL, LABEL>>}
=============================================================================
