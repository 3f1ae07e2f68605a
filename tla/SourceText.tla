------------------------------ MODULE SourceText ------------------------------
(***************************************************************************)
(* The text of a source file and its line index (support/source.c): two    *)
(* passes over the text find where lines begin, a binary search turns an   *)
(* offset into a line and a column.  One action is one turn of a loop.     *)
(* Offsets and lines of the index count from 0, as in C.                   *)
(***************************************************************************)
EXTENDS Integers, Sequences, FiniteSets

CONSTANTS Chars, NL,   \* characters, one of which ends a line
          Texts        \* what files hold

ASSUME TextAssumption == Texts \subseteq Seq(Chars)

VARIABLES text, loaded,        \* the text, and whether the file has one
          line_starts, line_count,
          phase,               \* "idle", or the loop that runs
          i, count,            \* of the two passes
          line_index,          \* of the second pass and of the search
          offset, low, high,   \* of the search
          pos                  \* what the last search returned: {} or {position}

fileVars == <<text, loaded, line_starts, line_count>>
searchVars == <<offset, low, high>>
vars == <<fileVars, phase, i, count, line_index, searchVars, pos>>

\* An entry of the index that was allocated but not written.
Unset == -1
Empty == [j \in {} |-> Unset]

IsNL(k) == text[k + 1] = NL

Init ==
    /\ text = <<>> /\ loaded = FALSE /\ line_starts = Empty /\ line_count = 0
    /\ phase = "idle" /\ pos = {}
    /\ i = 0 /\ count = 0 /\ line_index = 0 /\ offset = 0 /\ low = 0 /\ high = 0

\* Mutant: the number of lines is left as it was.
Cleared_KeepsCount ==
    text' = <<>> /\ loaded' = FALSE /\ line_starts' = Empty /\ UNCHANGED line_count

\* beet_source_file_clear
Cleared == text' = <<>> /\ loaded' = FALSE /\ line_starts' = Empty /\ line_count' = 0
-----------------------------------------------------------------------------
(* Loading a text, from a file or a string, over whatever was loaded.      *)

Load(t) ==
    /\ phase = "idle"
    /\ text' = t /\ loaded' = TRUE /\ line_starts' = Empty /\ line_count' = 0
    /\ phase' = "count" /\ i' = 0 /\ count' = 1
    /\ pos' = {}
    /\ UNCHANGED <<line_index, searchVars>>

\* The file cannot be read, or there is no memory for its text.
LoadFails ==
    /\ phase = "idle"
    /\ Cleared
    /\ pos' = {}
    /\ UNCHANGED <<phase, i, count, line_index, searchVars>>

Count ==
    /\ phase = "count" /\ i < Len(text)
    /\ count' = IF IsNL(i) THEN count + 1 ELSE count
    /\ i' = i + 1
    /\ UNCHANGED <<fileVars, phase, line_index, searchVars, pos>>

Allocate ==
    /\ phase = "count" /\ i >= Len(text)
    /\ line_starts' = [j \in 0 .. count - 1 |-> IF j = 0 THEN 0 ELSE Unset]
    /\ line_count' = count
    /\ line_index' = 1 /\ i' = 0
    /\ phase' = "fill"
    /\ UNCHANGED <<text, loaded, count, searchVars, pos>>

AllocateFails ==
    /\ phase = "count" /\ i >= Len(text)
    /\ Cleared
    /\ phase' = "idle"
    /\ UNCHANGED <<i, count, line_index, searchVars, pos>>

\* Mutant: a line is taken to begin at the character that ends the one before.
Fill_AtNewline ==
    /\ phase = "fill" /\ i < Len(text)
    /\ IF IsNL(i) /\ line_index < count
       THEN /\ line_starts' = [line_starts EXCEPT ![line_index] = i]
            /\ line_index' = line_index + 1
       ELSE UNCHANGED <<line_starts, line_index>>
    /\ i' = i + 1
    /\ UNCHANGED <<text, loaded, line_count, phase, count, searchVars, pos>>

Fill ==
    /\ phase = "fill" /\ i < Len(text)
    /\ IF IsNL(i) /\ line_index < count
       THEN /\ line_starts' = [line_starts EXCEPT ![line_index] = i + 1]
            /\ line_index' = line_index + 1
       ELSE UNCHANGED <<line_starts, line_index>>
    /\ i' = i + 1
    /\ UNCHANGED <<text, loaded, line_count, phase, count, searchVars, pos>>

Filled ==
    /\ phase = "fill" /\ i >= Len(text)
    /\ phase' = "idle"
    /\ UNCHANGED <<fileVars, i, count, line_index, searchVars, pos>>
-----------------------------------------------------------------------------
(* beet_source_pos_at.  A span is two of these.                            *)

\* Mutant: the upper bound is a line behind the index.
Ask_PastEnd(o) ==
    /\ phase = "idle" /\ loaded
    /\ offset' = o /\ low' = 0 /\ high' = line_count + 1 /\ line_index' = 0
    /\ phase' = "search"
    /\ UNCHANGED <<fileVars, i, count, pos>>

Ask(o) ==
    /\ phase = "idle" /\ loaded
    /\ offset' = o /\ low' = 0 /\ high' = line_count /\ line_index' = 0
    /\ phase' = "search"
    /\ UNCHANGED <<fileVars, i, count, pos>>

mid == low + (high - low) \div 2

\* Mutants: a line that begins at the offset is taken to begin after it; the
\* lower bound stays at the middle.
Search_Strict ==
    /\ phase = "search" /\ low < high
    /\ IF line_starts[mid] < offset
       THEN line_index' = mid /\ low' = mid + 1 /\ UNCHANGED high
       ELSE high' = mid /\ UNCHANGED <<low, line_index>>
    /\ UNCHANGED <<fileVars, phase, i, count, offset, pos>>

Search_AtMid ==
    /\ phase = "search" /\ low < high
    /\ IF line_starts[mid] <= offset
       THEN line_index' = mid /\ low' = mid /\ UNCHANGED high
       ELSE high' = mid /\ UNCHANGED <<low, line_index>>
    /\ UNCHANGED <<fileVars, phase, i, count, offset, pos>>

Search ==
    /\ phase = "search" /\ low < high
    /\ IF line_starts[mid] <= offset
       THEN line_index' = mid /\ low' = mid + 1 /\ UNCHANGED high
       ELSE high' = mid /\ UNCHANGED <<low, line_index>>
    /\ UNCHANGED <<fileVars, phase, i, count, offset, pos>>

Found ==
    /\ phase = "search" /\ low >= high
    /\ pos' = {[offset |-> offset, line |-> line_index + 1,
                column |-> offset - line_starts[line_index] + 1]}
    /\ phase' = "idle"
    /\ UNCHANGED <<fileVars, i, count, line_index, searchVars>>
-----------------------------------------------------------------------------
Loops == Count \/ Allocate \/ AllocateFails \/ Fill \/ Filled \/ Search \/ Found

Next ==
    \/ \E t \in Texts : Load(t)
    \/ LoadFails
    \/ loaded /\ \E o \in 0 .. Len(text) : Ask(o)
    \/ Loops

\* A call that was entered runs on; nobody has to make one.
Spec == Init /\ [][Next]_vars /\ WF_vars(Loops)
-----------------------------------------------------------------------------
\* Mutant: the character that ends the line belongs to it.
LineEnd_WithNewline(index) ==
    IF index + 1 < line_count THEN line_starts[index + 1] ELSE Len(text)

\* Where the text of a line ends, from its index.
LineEnd(index) ==
    IF index + 1 < line_count
    THEN LET end == line_starts[index + 1] IN
         IF end > line_starts[index] /\ IsNL(end - 1) THEN end - 1 ELSE end
    ELSE Len(text)

\* beet_source_line_text: {} for NULL, else where the line begins and its
\* length.  Lines count from 1.
LineText(line) ==
    IF line = 0 \/ line - 1 >= line_count THEN {}
    ELSE {[start |-> line_starts[line - 1],
           len   |-> LineEnd(line - 1) - line_starts[line - 1]]}
-----------------------------------------------------------------------------
(* Properties.                                                             *)

TypeOK ==
    /\ text \in Seq(Chars)
    /\ loaded \in BOOLEAN
    /\ line_count \in Nat
    /\ line_starts \in [0 .. line_count - 1 -> Int]
    /\ phase \in {"idle", "count", "fill", "search"}
    /\ i \in Nat /\ count \in Nat /\ line_index \in Nat
    /\ offset \in Nat /\ low \in Nat /\ high \in Nat
    /\ pos \subseteq [offset : Nat, line : Nat, column : Int]

\* The ends of lines before offset n.
NLs(n) == {k \in 0 .. n - 1 : IsNL(k)}

\* The first n entries of the index are where the lines begin that begin at or
\* before offset m, in ascending order.
Indexed(n, m) ==
    /\ n > 0 /\ line_starts[0] = 0
    /\ \A j \in 1 .. n - 1 : line_starts[j] - 1 \in NLs(m)
    /\ \A j, k \in 0 .. n - 1 : j < k => line_starts[j] < line_starts[k]
    /\ \A k \in NLs(m) : \E j \in 1 .. n - 1 : line_starts[j] = k + 1

\* Whenever the file can be asked it has a complete index or no text at all,
\* also when loading failed half way over another text.
IndexComplete ==
    phase \in {"idle", "search"} =>
        IF loaded THEN Indexed(line_count, Len(text)) ELSE line_count = 0

\* Turning an offset into a position counts the line ends before it and the
\* characters since the last of them: for the first and last line, an empty
\* text, an offset at a line end and at the end of the text.
PositionExact ==
    \A p \in pos :
        LET start == p.offset - (p.column - 1) IN
        /\ p.line = 1 + Cardinality(NLs(p.offset))
        /\ start \in 0 .. p.offset
        /\ start = 0 \/ IsNL(start - 1)
        /\ \A k \in start .. p.offset - 1 : ~IsNL(k)

\* The search reads only entries of the index, and the column is not the
\* difference of a smaller and a larger unsigned number.
SearchInBounds ==
    phase = "search" =>
        /\ low < high => mid \in 0 .. line_count - 1
        /\ low >= high => line_index \in 0 .. line_count - 1 /\ line_starts[line_index] <= offset

\* A diagnostic prints the line of its position and marks its column: the line
\* has a text (diag.c asserts it), without line ends, that reaches the column.
LinePrintable ==
    loaded => \A p \in pos :
        \E l \in LineText(p.line) :
            /\ l.start >= 0 /\ l.len >= 0 /\ l.start + l.len <= Len(text)
            /\ \A k \in l.start .. l.start + l.len - 1 : ~IsNL(k)
            /\ l.start + l.len = Len(text) \/ IsNL(l.start + l.len)
            /\ p.column - 1 \in 0 .. l.len

\* Every call returns.
CallsReturn == phase # "idle" ~> phase = "idle"
=============================================================================
