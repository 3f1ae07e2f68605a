------------------------------ MODULE MCBlocks ------------------------------
(* Bodies of two statements, four nested ones, matches of two cases: blocks *)
(* within blocks three deep, beside each other and empty.                   *)
EXTENDS Blocks
=============================================================================
