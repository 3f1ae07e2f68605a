------------------------------- MODULE MCScope -------------------------------
(* Two names, three symbols and three levels of blocks: a name can be bound *)
(* in one block, hidden in the next, and the array can be full.             *)
EXTENDS Scope
CONSTANTS x, y
=============================================================================
