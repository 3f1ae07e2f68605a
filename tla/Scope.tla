------------------------------- MODULE Scope --------------------------------
(***************************************************************************)
(* The scope stack of name resolution (resolve/scope.c): an array of       *)
(* symbols that grows at its end, and for each open block the count it had *)
(* when the block was opened.  Leaving a block only moves the count back,  *)
(* so the array keeps stale symbols beyond it.  Any sequence of calls is   *)
(* taken, as the resolver's walk over the syntax tree makes them.          *)
(***************************************************************************)
EXTENDS Integers

CONSTANTS Names,        \* interned names
          MaxSymbols,   \* BEET_SCOPE_MAX_SYMBOLS
          MaxStack      \* BEET_SCOPE_MAX_STACK

ASSUME ScopeAssumption == MaxSymbols \in Nat /\ MaxStack \in Nat \ {0}

VARIABLES symbols, symbol_count, scope_starts, scope_depth,
          returned,   \* what the last call returned
          found       \* what the last lookup returned: {} for NULL, else {the symbol}

stackVars == <<symbols, symbol_count, scope_starts, scope_depth>>
vars == <<stackVars, returned, found>>

Symbol == [id : Names, depth : 0 .. MaxStack - 1, is_mutable : BOOLEAN]
Indexes == 0 .. MaxSymbols - 1
InUse == 0 .. symbol_count - 1

\* The array is not initialized: what it holds is arbitrary (here the same
\* symbol everywhere, which is as good as any: nothing reads it).
Init ==
    /\ \E s \in Symbol : symbols = [i \in Indexes |-> s]
    /\ symbol_count = 0
    /\ scope_starts = [d \in 0 .. MaxStack - 1 |-> 0]
    /\ scope_depth = 0
    /\ returned = TRUE
    /\ found = {}

Refuse == returned' = FALSE /\ UNCHANGED <<stackVars, found>>

\* Mutant: one block too many.
CanEnter_OneMore == scope_depth + 1 <= MaxStack

CanEnter == scope_depth + 1 < MaxStack

Enter ==
    /\ CanEnter
    /\ scope_depth' = scope_depth + 1
    /\ scope_starts' = [scope_starts EXCEPT ![scope_depth + 1] = symbol_count]
    /\ returned' = TRUE
    /\ UNCHANGED <<symbols, symbol_count, found>>

EnterRefused == ~CanEnter /\ Refuse

\* Mutant: the symbols of the block stay.
Leave_KeepsSymbols ==
    /\ scope_depth > 0
    /\ scope_depth' = scope_depth - 1
    /\ returned' = TRUE
    /\ UNCHANGED <<symbols, symbol_count, scope_starts, found>>

Leave ==
    /\ scope_depth > 0
    /\ symbol_count' = scope_starts[scope_depth]
    /\ scope_depth' = scope_depth - 1
    /\ returned' = TRUE
    /\ UNCHANGED <<symbols, scope_starts, found>>

LeaveRefused == scope_depth = 0 /\ Refuse

\* Mutant: the first symbol of the block is not compared.
CanBind_NotFirst(n) ==
    /\ symbol_count < MaxSymbols
    /\ \A i \in scope_starts[scope_depth] + 1 .. symbol_count - 1 : symbols[i].id # n

\* Only the symbols of the innermost block can clash with a new one.
CanBind(n) ==
    /\ symbol_count < MaxSymbols
    /\ \A i \in scope_starts[scope_depth] .. symbol_count - 1 : symbols[i].id # n

Bind(n, is_mutable) ==
    /\ CanBind(n)
    /\ symbols' = [symbols EXCEPT ![symbol_count] =
          [id |-> n, depth |-> scope_depth, is_mutable |-> is_mutable]]
    /\ symbol_count' = symbol_count + 1
    /\ returned' = TRUE
    /\ UNCHANGED <<scope_starts, scope_depth, found>>

BindRefused(n) == ~CanBind(n) /\ Refuse

\* Mutant: the search runs from the beginning.
Latest_Earliest(n, i) ==
    /\ symbols[i].id = n
    /\ \A j \in 0 .. i - 1 : symbols[j].id # n

\* The search runs from the end of the array to its beginning.
Latest(n, i) ==
    /\ symbols[i].id = n
    /\ \A j \in i + 1 .. symbol_count - 1 : symbols[j].id # n
Known(n) == \E i \in InUse : symbols[i].id = n

Lookup(n) ==
    /\ \E i \in InUse : Latest(n, i) /\ found' = {symbols[i]}
    /\ returned' = TRUE
    /\ UNCHANGED stackVars

LookupFails(n) ==
    /\ ~Known(n)
    /\ returned' = FALSE
    /\ found' = {}
    /\ UNCHANGED stackVars

Next ==
    \/ Enter \/ EnterRefused \/ Leave \/ LeaveRefused
    \/ \E n \in Names :
          \/ BindRefused(n) \/ Lookup(n) \/ LookupFails(n)
          \/ \E m \in BOOLEAN : Bind(n, m)

Spec == Init /\ [][Next]_vars
-----------------------------------------------------------------------------
(* Properties.                                                             *)

TypeOK ==
    /\ symbols \in [Indexes -> Symbol]
    /\ symbol_count \in 0 .. MaxSymbols
    /\ scope_starts \in [0 .. MaxStack - 1 -> 0 .. MaxSymbols]
    /\ scope_depth \in 0 .. MaxStack - 1
    /\ returned \in BOOLEAN
    /\ found \subseteq Symbol

\* The symbols between the starts of two blocks are exactly those bound in the
\* outer one: leaving a block by moving the count back therefore drops what
\* was bound in it and nothing else, also after blocks were left and reopened
\* at the same depth over the stale part of the array.
Segments ==
    /\ \A i \in InUse, d \in 0 .. scope_depth : symbols[i].depth = d <=>
          /\ scope_starts[d] <= i
          /\ d < scope_depth => i < scope_starts[d + 1]
    /\ \A d \in 0 .. scope_depth : scope_starts[d] <= symbol_count
    /\ \A d, e \in 0 .. scope_depth : d <= e => scope_starts[d] <= scope_starts[e]
    /\ \A i \in InUse : symbols[i].depth <= scope_depth
    /\ scope_starts[0] = 0

\* A name is bound at most once in a block.
NoDuplicates ==
    \A i, j \in InUse : symbols[i].id = symbols[j].id /\ symbols[i].depth = symbols[j].depth
                        => i = j

\* The refinement: the array in use, seen as a set, is the nested environment.
Env == INSTANCE Environments WITH
    MaxDepth    <- MaxStack,
    MaxBindings <- MaxSymbols,
    open        <- scope_depth,
    bound       <- {symbols[i] : i \in InUse}

\* Every call answers what the nested environments answer: a lookup finds the
\* innermost live binding, a bind is refused for a clash in its own block or
\* for want of room only, and what a block hid is visible again once it is left.
ImplementsEnvironments == Env!Spec
=============================================================================
