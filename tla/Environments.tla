---------------------------- MODULE Environments ----------------------------
(***************************************************************************)
(* What name resolution promises: nested environments.  A binding belongs  *)
(* to the block it is made in, is gone when the block is closed, and hides *)
(* a binding of the same name further out only until then.  Module Scope   *)
(* implements this with one array and two counters.                        *)
(***************************************************************************)
EXTENDS Integers, FiniteSets

CONSTANTS Names,
          MaxDepth,      \* blocks are nested less deeply than this
          MaxBindings    \* bindings that may be alive at once

VARIABLES open,      \* how many blocks are open around the present point
          bound,     \* the live bindings: [id, depth, is_mutable]
          returned,  \* did the last operation succeed?
          found      \* the binding that the last lookup answered, if any

vars == <<open, bound, returned, found>>

Init == open = 0 /\ bound = {} /\ returned = TRUE /\ found = {}

\* An operation that is refused leaves every binding as it was.
Refused == returned' = FALSE /\ UNCHANGED <<open, bound, found>>

Enter ==
    IF open + 1 >= MaxDepth THEN Refused
    ELSE open' = open + 1 /\ returned' = TRUE /\ UNCHANGED <<bound, found>>

Leave ==
    IF open = 0 THEN Refused
    ELSE /\ bound' = {b \in bound : b.depth < open}
         /\ open' = open - 1
         /\ returned' = TRUE
         /\ UNCHANGED found

Bind(n, m) ==
    IF \/ Cardinality(bound) >= MaxBindings
       \/ \E b \in bound : b.id = n /\ b.depth = open
    THEN Refused
    ELSE /\ bound' = bound \cup {[id |-> n, depth |-> open, is_mutable |-> m]}
         /\ returned' = TRUE
         /\ UNCHANGED <<open, found>>

\* The binding of n that is visible: none is further in.
Visible(n) == {b \in bound : b.id = n /\ \A c \in bound : c.id = n => c.depth <= b.depth}

Lookup(n) ==
    /\ returned' = (Visible(n) # {})
    /\ found' = Visible(n)
    /\ UNCHANGED <<open, bound>>

Next ==
    \/ Enter \/ Leave
    \/ \E n \in Names : Lookup(n) \/ \E m \in BOOLEAN : Bind(n, m)

Spec == Init /\ [][Next]_vars
=============================================================================
