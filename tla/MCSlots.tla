------------------------------- MODULE MCSlots -------------------------------
(* Two ordinary names and two that are cut to one text, which may be reused  *)
(* in sibling blocks; nested blocks, two values and tables that can be full. *)
EXTENDS Slots, TLC
CONSTANTS x, y, p, q, cut
Texts == [n \in Names |-> IF n \in {p, q} THEN cut ELSE n]
NamesAreAlike == Permutations({x, y}) \cup Permutations({p, q})
\* Functions without parameters: what one local does to another, in a build
\* with assertions as in one without.
OnlyLocals ==
    SlotsInit /\ [][SlotsNext /\ ~ \E n \in Names : Param(n)]_<<vars, slotVars>>
=============================================================================
