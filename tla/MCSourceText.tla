----------------------------- MODULE MCSourceText -----------------------------
(* Every text of up to six characters, one of which ends a line: no line end, *)
(* only line ends, lines empty or not, at the beginning, inside and last.     *)
EXTENDS SourceText, SequencesExt
MCTexts == SeqOf(Chars, 6)
=============================================================================
