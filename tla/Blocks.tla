------------------------------- MODULE Blocks -------------------------------
(***************************************************************************)
(* How the parser stores the statements of a function (parser.c): those of *)
(* the body in an array of their own, all nested ones in one pool in which *)
(* a node is taken when its parsing begins, and each block as the place of *)
(* its first node and a count.                                             *)
(*                                                                         *)
(* The recursive descent is a stack of open constructs.  An action takes   *)
(* the next piece of source, which may be anything the grammar allows: a   *)
(* simple statement, the head of an if, while or match, the end of a       *)
(* block, an else, the head of a case.  A statement is identified by its   *)
(* number in the order of the source.                                      *)
(*                                                                         *)
(* `written` is an auxiliary variable: for each statement the blocks that  *)
(* the source has in it, as sequences of statements.                       *)
(***************************************************************************)
EXTENDS Integers, Sequences

CONSTANTS MaxStmtNodes,    \* BEET_AST_MAX_STMT_NODES
          MaxBodyStmts,    \* BEET_AST_MAX_BODY_STMTS
          MaxCases         \* BEET_AST_MAX_VARIANTS

ASSUME BlocksAssumption ==
    MaxStmtNodes \in Nat /\ MaxBodyStmts \in Nat /\ MaxCases \in Nat

VARIABLES body,      \* the statements of the function's body
          nodes,     \* the nested statements, in the order of the pool
          blocks,    \* for each statement its blocks: [start, count] in nodes
          open,      \* the constructs around the present point, innermost last
          status,    \* "parsing", "parsed" or "rejected"
          written

vars == <<body, nodes, blocks, open, status, written>>

Kinds == {"if", "else", "while", "match", "case"}
Id == 1 .. MaxStmtNodes + MaxBodyStmts
Taken == Len(body) + Len(nodes)

\* Mutants: the block starts before the node of its statement is taken; the
\* count of its statements starts at one.
Construct_Early(s, kind) == [stmt |-> s, kind |-> kind, start |-> Len(nodes), count |-> 0]
Construct_One(s, kind)   == [stmt |-> s, kind |-> kind, start |-> Len(nodes'), count |-> 1]

\* An open construct: the statement, what of it is open, and for a block where
\* it starts in the pool and how many statements have been parsed into it.
Construct(s, kind) == [stmt |-> s, kind |-> kind, start |-> Len(nodes'), count |-> 0]

Init ==
    /\ body = <<>> /\ nodes = <<>> /\ open = <<>>
    /\ blocks = [s \in Id |-> <<>>]
    /\ written = [s \in Id |-> <<>>]
    /\ status = "parsing"

Parsing == status = "parsing"
AtTop == open = <<>>
inner == open[Len(open)]
InBlock == ~AtTop /\ inner.kind # "match"

\* Mutant: one node more than the arrays have.
CanTake_OneMore == IF AtTop THEN Len(body) <= MaxBodyStmts ELSE Len(nodes) <= MaxStmtNodes

CanTake == IF AtTop THEN Len(body) < MaxBodyStmts ELSE Len(nodes) < MaxStmtNodes

\* Mutant: a nested statement takes the node that follows its block's last,
\* which may have been taken by a statement nested in that.
Take_Next ==
    IF AtTop THEN body' = Append(body, Taken + 1) /\ UNCHANGED nodes
    ELSE /\ nodes' = LET k == inner.start + inner.count + 1 IN
                     IF k <= Len(nodes) THEN [nodes EXCEPT ![k] = Taken + 1]
                                        ELSE Append(nodes, Taken + 1)
         /\ UNCHANGED body

\* A node for the next statement, from the body's array or from the pool.
Take ==
    IF AtTop THEN body' = Append(body, Taken + 1) /\ UNCHANGED nodes
             ELSE nodes' = Append(nodes, Taken + 1) /\ UNCHANGED body

\* The source has one more statement in the innermost block, or one more block
\* in a statement.
Writes(s) ==
    IF AtTop THEN written
    ELSE [written EXCEPT ![inner.stmt][Len(written[inner.stmt])] = Append(@, s)]
OpensBlock(w, s) == [w EXCEPT ![s] = Append(@, <<>>)]

\* The stack when the innermost statement has been parsed into its block.
Counted(stack) ==
    IF stack = <<>> THEN stack ELSE [stack EXCEPT ![Len(stack)].count = @ + 1]
Below == SubSeq(open, 1, Len(open) - 1)

Reject == status' = "rejected" /\ UNCHANGED <<body, nodes, blocks, open, written>>
-----------------------------------------------------------------------------
\* A binding, an assignment or a return.
Simple ==
    /\ Parsing /\ (AtTop \/ InBlock)
    /\ CanTake
    /\ Take
    /\ written' = Writes(Taken + 1)
    /\ open' = Counted(open)
    /\ UNCHANGED <<blocks, status>>

\* The head of an if, a while or a match, up to its opening brace.
Begin(kind) ==
    /\ Parsing /\ (AtTop \/ InBlock)
    /\ CanTake
    /\ Take
    /\ open' = Append(open, Construct(Taken + 1, kind))
    /\ written' = IF kind = "match" THEN Writes(Taken + 1)
                  ELSE OpensBlock(Writes(Taken + 1), Taken + 1)
    /\ UNCHANGED <<blocks, status>>

NoNode == Parsing /\ (AtTop \/ InBlock) /\ ~CanTake /\ Reject

\* The brace that closes a block ends the statement, unless an else follows or
\* the block is a case of a match.
Close(followed_by_else) ==
    /\ Parsing /\ InBlock
    /\ blocks' = [blocks EXCEPT ![inner.stmt] =
                    Append(@, [start |-> inner.start, count |-> inner.count])]
    /\ IF followed_by_else
       THEN /\ inner.kind = "if"
            /\ open' = Append(Below, [inner EXCEPT !.kind = "else",
                                        !.start = Len(nodes), !.count = 0])
            /\ written' = OpensBlock(written, inner.stmt)
       ELSE /\ open' = IF inner.kind = "case" THEN Below ELSE Counted(Below)
            /\ UNCHANGED written
    /\ UNCHANGED <<body, nodes, status>>

AtCase == Parsing /\ ~AtTop /\ inner.kind = "match"
Cases == Len(blocks[inner.stmt])

Case ==
    /\ AtCase /\ Cases < MaxCases
    /\ UNCHANGED <<body, nodes, blocks, status>>
    /\ open' = Append(open, Construct(inner.stmt, "case"))
    /\ written' = OpensBlock(written, inner.stmt)

TooManyCases == AtCase /\ Cases >= MaxCases /\ Reject

EndMatch ==
    /\ AtCase
    /\ open' = Counted(Below)
    /\ UNCHANGED <<body, nodes, blocks, status, written>>

EndFunction ==
    /\ Parsing /\ AtTop
    /\ status' = "parsed"
    /\ UNCHANGED <<body, nodes, blocks, open, written>>

Next ==
    \/ Simple \/ NoNode
    \/ \E kind \in {"if", "while", "match"} : Begin(kind)
    \/ \E else \in BOOLEAN : Close(else)
    \/ Case \/ TooManyCases \/ EndMatch
    \/ EndFunction

Spec == Init /\ [][Next]_vars
-----------------------------------------------------------------------------
(* Properties.                                                             *)

TypeOK ==
    /\ body \in Seq(Id) /\ Len(body) <= MaxBodyStmts
    /\ nodes \in Seq(Id) /\ Len(nodes) <= MaxStmtNodes
    /\ blocks \in [Id -> Seq([start : 0 .. MaxStmtNodes, count : 0 .. MaxStmtNodes])]
    /\ open \in Seq([stmt : Id, kind : Kinds, start : 0 .. MaxStmtNodes,
                     count : 0 .. MaxStmtNodes])
    /\ status \in {"parsing", "parsed", "rejected"}

Finished(s) == s \in 1 .. Taken /\ \A i \in DOMAIN open : open[i].stmt # s

\* What the syntax tree has in block b of statement s, and what the source has.
Listed(s, b) == [k \in 1 .. blocks[s][b].count |-> nodes[blocks[s][b].start + k]]

\* A block never reaches beyond the nodes that were taken: the later passes
\* read no node that was not parsed, and they read as many as were written.
BlocksInPool ==
    \A s \in 1 .. Taken : Finished(s) =>
        /\ Len(blocks[s]) = Len(written[s])
        /\ \A b \in DOMAIN blocks[s] :
              /\ blocks[s][b].count = Len(written[s][b])
              /\ blocks[s][b].start + blocks[s][b].count <= Len(nodes)

\* No node is taken twice: each statement of the source has one of its own, in
\* the body's array or in the pool.
EveryStatementOnce ==
    \A s \in 1 .. Taken :
        \/ /\ \E i \in DOMAIN body : body[i] = s
           /\ \A i \in DOMAIN nodes : nodes[i] # s
        \/ /\ \A i \in DOMAIN body : body[i] # s
           /\ \E i \in DOMAIN nodes : nodes[i] = s /\ \A j \in DOMAIN nodes : nodes[j] = s => i = j

\* Statement s has statements nested in it.
HasNested(s) == \E b \in DOMAIN written[s] : written[s][b] # <<>>

\* A block is what was written exactly if no statement but its last has
\* statements nested in it.  Otherwise the pool has those between the two.
FaithfulIfFlat ==
    \A s \in 1 .. Taken : Finished(s) =>
        \A b \in DOMAIN blocks[s] :
            Listed(s, b) = written[s][b] <=>
                \A k \in 1 .. Len(written[s][b]) - 1 : ~HasNested(written[s][b][k])

\* The syntax tree has in each block the statements that the source has there.
BlocksAsWritten ==
    \A s \in 1 .. Taken : Finished(s) =>
        \A b \in DOMAIN blocks[s] : Listed(s, b) = written[s][b]
=============================================================================
