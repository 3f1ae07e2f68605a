-------------------------------- MODULE MCVM --------------------------------
(***************************************************************************)
(* Small machines for TLC: two registers, two locals, three frames, words  *)
(* of three bits.  The programs are every body of up to three instructions *)
(* over an alphabet that has each kind of instruction, beside a helper of  *)
(* one parameter, and a few longer ones.                                   *)
(***************************************************************************)
EXTENDS VM, SequencesExt

\* The function whose instructions are `body`, a sequence of word sequences.
Assemble(body, params) ==
    LET words == FlattenSeq(body) IN
    [count       |-> Len(words),
     code        |-> [i \in 0 .. Len(words) - 1 |-> words[i + 1]],
     param_count |-> params,
     starts      |-> {Len(FlattenSeq(SubSeq(body, 1, k))) : k \in 0 .. Len(body) - 1}]

Instructions ==
    { <<CONST_INT, 0, 1>>, <<CONST_INT, 1, 0>>, <<STORE_LOCAL, 1, 0>>,
      <<LOAD_LOCAL, 1, 1>>, <<SUB_INT, 0, 1, 0>>, <<LABEL, 2>>, <<JUMP, 2>>,
      <<JUMP_IF_FALSE, 1, 2>>, <<CALL, 0, 1, 2, 1, 0>>, <<CALL, 1, 0, 0>>,
      <<RETURN_TEMP, 0>>, <<RETURN_CONST_INT, 3>> }

\* sub(a, b) leaves its own values behind in its frame.
Helper == Assemble(<< <<LOAD_LOCAL, 0, 0>>, <<LOAD_LOCAL, 1, 1>>, <<SUB_INT, 0, 0, 1>>,
                      <<STORE_LOCAL, 0, 0>>, <<RETURN_LOCAL, 0>> >>, 2)

Pair(f) == [entry |-> 0, functions |-> [i \in 0 .. 1 |-> IF i = 0 THEN f ELSE Helper]]

Enumerated == {Pair(Assemble(body, 0)) : body \in SeqOf(Instructions, 3)}

\* Two constants and one operation on them, for all of them.
Arithmetic ==
    {Pair(Assemble(<< <<CONST_INT, 0, x>>, <<CONST_INT, 1, y>>, <<op, 1, 0, 1>>,
                      <<RETURN_TEMP, 1>> >>, 0)) : x, y \in Word, op \in BinaryOps}

\* A loop that counts to zero and calls the helper each time round.
Loop == Pair(Assemble(<< <<CONST_INT, 0, 3>>, <<STORE_LOCAL, 0, 0>>, <<LABEL, 0>>,
            <<LOAD_LOCAL, 0, 0>>, <<JUMP_IF_FALSE, 0, 1>>, <<CONST_INT, 1, 1>>,
            <<CALL, 1, 1, 2, 0, 1>>, <<STORE_LOCAL, 0, 1>>, <<JUMP, 0>>,
            <<LABEL, 1>>, <<RETURN_LOCAL, 0>> >>, 0))

\* Programs a start or a call refuses: an entry or a callee that does not
\* exist, a wrong number of arguments, a label used twice, and one too large.
Refused ==
    { [Loop EXCEPT !.entry = 2],
      Pair(Assemble(<< <<CALL, 0, 5, 0>> >>, 0)),
      Pair(Assemble(<< <<CALL, 0, 1, 1, 0>> >>, 0)),
      Pair(Assemble(<< <<LABEL, 3>>, <<LABEL, 3>> >>, 0)),
      Pair(Assemble(<< <<LABEL, MaxCode>> >>, 0)) }

MCMinInt == -4
MCPrograms == Enumerated \cup Arithmetic \cup Refused \cup {Loop}
=============================================================================
