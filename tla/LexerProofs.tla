---------------------------- MODULE LexerProofs -----------------------------
(***************************************************************************)
(* What holds of the lexer, for every text.  The scans are searches for    *)
(* the first character that does not belong, which exists because what     *)
(* follows the text is a Nul (FirstOther).  The proof speaks of the        *)
(* characters at offsets (Peek): LexemeAt says there what IsLexeme says of *)
(* a sequence, and ScannedIsLongest that TokenEnd is the last of the ends  *)
(* of lexemes.                                                             *)
(***************************************************************************)
EXTENDS Lexer, SequenceTheorems, WellFoundedInduction, TLAPS

Token == {[kind |-> TokenKind(p), start |-> s, end |-> e, text |-> Spelled(p)] :
             p \in Seq(STRING), s \in Nat, e \in Nat}

\* What the lexer keeps: the offset is in the text.
InText ==
    /\ text \in Seq(STRING)
    /\ offset \in 0 .. Len(text)
    /\ tokens \in Seq(Token)
    /\ offset = EndOf(Len(tokens))

\* Each token is the longest lexeme where it starts, among all of them.
EveryTokenLongest == \A i \in 1 .. Len(tokens) : IsLongest(i, Len(text))

\* There are no more tokens than characters behind the lexer, but for the one
\* at the end.
Counted == Len(tokens) <= offset \/ (AtEnd /\ Len(tokens) = offset + 1)
-----------------------------------------------------------------------------
(* Characters.                                                             *)

\* Which classes of characters have none in common, as far as it matters.
LEMMA Classes ==
    /\ Alpha \cap Digit = {}
    /\ (Signs \cup Doubled) \cap (Alnum \cup Spaces) = {}
    /\ Alnum \cap Spaces = {}
    /\ "=" \in Doubled /\ "=" \in Signs /\ "!" \notin Signs
    /\ Doubled \subseteq Signs \cup {"!"}
BY DEF Alpha, Digit, Alnum, Spaces, Signs, Doubled

LEMMA NulClasses ==
    /\ Nul \notin Alpha /\ Nul \notin Digit /\ Nul \notin Alnum /\ Nul \notin Spaces
    /\ Nul \notin Signs /\ Nul \notin Doubled
BY NulAssumption DEF Alnum

\* A word is a keyword exactly if its kind is not that of an identifier.
LEMMA WordKinds ==
    ASSUME NEW w
    PROVE  /\ IdentifierKind(w) \notin {"eof", "error", "int_literal"}
           /\ IdentifierKind(w) = "identifier" => w \notin Keywords
BY DEF IdentifierKind, Keywords

\* A sign has a kind of its own exactly if it can be a token.
LEMMA SignKinds ==
    ASSUME NEW c, NEW d \in BOOLEAN
    PROVE  /\ SignKind(c, d) \notin {"eof", "identifier", "int_literal"}
           /\ ~d => (SignKind(c, d) = "error" <=> c \notin Signs)
           /\ d /\ c \in Doubled => SignKind(c, d) # "error"
BY DEF SignKind, Signs, Doubled
-----------------------------------------------------------------------------
(* Searches.                                                               *)

\* A set of numbers that is not empty has a smallest.
LEMMA SmallestExists ==
    ASSUME NEW S, S \subseteq Nat, S # {}
    PROVE  \E k \in S : \A j \in S : k <= j
<1> DEFINE R == OpToRel(<, Nat)
<1>1. IsWellFoundedOn(R, Nat)
  BY NatLessThanWellFounded
<1>2. \A x, y \in Nat : x < y => <<x, y>> \in R
  BY DEF OpToRel
<1> HIDE DEF R
<1>3. PICK k \in S : \A j \in S : <<j, k>> \notin R
  BY <1>1, WFMin
<1>4. ASSUME NEW j \in S PROVE k <= j
  <2>1. j \in Nat /\ k \in Nat /\ ~(j < k)
    BY <1>2, <1>3
  <2> QED
    BY <2>1
<1> QED
  BY <1>4

\* The first offset from o on whose character is not one of S.
FirstOther(o, S, e) ==
    /\ e \in o .. Len(text)
    /\ Peek(e) \notin S
    /\ \A i \in o .. e - 1 : Peek(i) \in S

\* A search for what is not one of some characters, Nul not among them, ends.
LEMMA SkipStops ==
    ASSUME text \in Seq(STRING), NEW o \in 0 .. Len(text), NEW S, Nul \notin S
    PROVE  FirstOther(o, S, Skip(o, S))
<1> DEFINE Others == {e \in o .. Len(text) : Peek(e) \notin S}
<1>1. Len(text) \in Nat
  OBVIOUS
<1>2. Len(text) \in Others
  BY <1>1 DEF Peek
<1>3. PICK e \in Others : \A j \in Others : e <= j
  <2>1. Others \subseteq Nat /\ Others # {}
    BY <1>1, <1>2
  <2> HIDE DEF Others
  <2> QED
    BY <2>1, SmallestExists
<1>4. ASSUME NEW i \in o .. e - 1 PROVE Peek(i) \in S
  <2>1. i \in o .. Len(text) /\ ~(e <= i)
    BY <1>1
  <2> QED
    BY <2>1, <1>3
<1>5. \E k \in o .. Len(text) : Peek(k) \notin S /\ \A i \in o .. k - 1 : Peek(i) \in S
  BY <1>4
<1> HIDE DEF Others
<1> QED
  BY <1>5 DEF FirstOther, Skip
-----------------------------------------------------------------------------
(* A part of the text, by the characters at its offsets.                   *)

LEMMA PartOfText ==
    ASSUME text \in Seq(STRING), NEW s \in 0 .. Len(text), NEW e \in s .. Len(text)
    PROVE  /\ SubSeq(text, s + 1, e) \in Seq(STRING)
           /\ Len(SubSeq(text, s + 1, e)) = e - s
           /\ \A k \in 1 .. e - s : SubSeq(text, s + 1, e)[k] = Peek(s + k - 1)
<1> DEFINE p == SubSeq(text, s + 1, e)
<1>1. /\ p \in Seq(STRING) /\ Len(p) = e - s
      /\ \A k \in 1 .. e - s : p[k] = text[s + k]
  OBVIOUS
<1>2. ASSUME NEW k \in 1 .. e - s PROVE p[k] = Peek(s + k - 1)
  <2>1. s + k - 1 < Len(text) /\ (s + k - 1) + 1 = s + k
    OBVIOUS
  <2> QED
    BY <1>1, <2>1 DEF Peek
<1> QED
  BY <1>1, <1>2

\* All characters of a part are in a class exactly if those at its offsets are.
LEMMA PartWithin ==
    ASSUME text \in Seq(STRING), NEW s \in 0 .. Len(text), NEW e \in s .. Len(text), NEW S
    PROVE  Range(SubSeq(text, s + 1, e)) \subseteq S <=> \A o \in s .. e - 1 : Peek(o) \in S
<1> DEFINE p == SubSeq(text, s + 1, e)
<1>1. DOMAIN p = 1 .. e - s /\ \A k \in 1 .. e - s : p[k] = Peek(s + k - 1)
  BY PartOfText
<1> HIDE DEF p
<1>2. Range(p) = {p[k] : k \in 1 .. e - s}
  BY <1>1 DEF Range
<1>3. ASSUME Range(p) \subseteq S, NEW o \in s .. e - 1 PROVE Peek(o) \in S
  <2>1. o - s + 1 \in 1 .. e - s /\ s + (o - s + 1) - 1 = o
    OBVIOUS
  <2> QED
    BY <1>1, <1>2, <1>3, <2>1
<1>4. ASSUME \A o \in s .. e - 1 : Peek(o) \in S, NEW k \in 1 .. e - s PROVE p[k] \in S
  <2>1. s + k - 1 \in s .. e - 1
    OBVIOUS
  <2> QED
    BY <1>1, <1>4, <2>1
<1>5. (\A o \in s .. e - 1 : Peek(o) \in S) => Range(p) \subseteq S
  BY <1>2, <1>4
<1> QED
  BY <1>3, <1>5 DEF p

\* What IsLexeme says of the part between two offsets.
LexemeAt(s, e) ==
    \/ e = s + 1 /\ Peek(s) \in Signs
    \/ e = s + 2 /\ Peek(s) \in Doubled /\ Peek(s + 1) = "="
    \/ \A o \in s .. e - 1 : Peek(o) \in Digit
    \/ Peek(s) \in Alpha /\ \A o \in s .. e - 1 : Peek(o) \in Alnum

LEMMA Pairs ==
    ASSUME NEW p \in Seq(STRING)
    PROVE  /\ \A c : p = <<c>> <=> Len(p) = 1 /\ p[1] = c
           /\ \A c, d : p = <<c, d>> <=> Len(p) = 2 /\ p[1] = c /\ p[2] = d
OBVIOUS

LEMMA LexemeByOffsets ==
    ASSUME text \in Seq(STRING), NEW s \in 0 .. Len(text), NEW e \in s + 1 .. Len(text)
    PROVE  IsLexeme(SubSeq(text, s + 1, e)) <=> LexemeAt(s, e)
<1> DEFINE p == SubSeq(text, s + 1, e)
<1>1. /\ p \in Seq(STRING) /\ Len(p) = e - s /\ p # <<>>
      /\ p[1] = Peek(s) /\ (e = s + 2 => p[2] = Peek(s + 1))
  <2>1. e \in s .. Len(text) /\ 1 \in 1 .. e - s /\ s + 1 - 1 = s
    OBVIOUS
  <2>2. p \in Seq(STRING) /\ Len(p) = e - s /\ \A k \in 1 .. e - s : p[k] = Peek(s + k - 1)
    BY <2>1, PartOfText
  <2>3. e = s + 2 => 2 \in 1 .. e - s /\ s + 2 - 1 = s + 1
    OBVIOUS
  <2> HIDE DEF p
  <2>4. p # <<>>
    BY <2>2, <2>1
  <2> QED
    BY <2>1, <2>2, <2>3, <2>4
<1>2. \A S : Range(p) \subseteq S <=> \A o \in s .. e - 1 : Peek(o) \in S
  <2>1. e \in s .. Len(text)
    OBVIOUS
  <2> QED
    BY <2>1, PartWithin
<1> HIDE DEF p
<1>3. p \in {<<c>> : c \in Signs} <=> e = s + 1 /\ Peek(s) \in Signs
  <2>1. \A c : p = <<c>> <=> Len(p) = 1 /\ p[1] = c
    BY <1>1, Pairs
  <2> QED
    BY <2>1, <1>1
<1>4. p \in {<<c, "=">> : c \in Doubled}
         <=> e = s + 2 /\ Peek(s) \in Doubled /\ Peek(s + 1) = "="
  <2>0. \A c, d : p = <<c, d>> <=> Len(p) = 2 /\ p[1] = c /\ p[2] = d
    BY <1>1, Pairs
  <2>1. \A c : p = <<c, "=">> <=> Len(p) = 2 /\ p[1] = c /\ p[2] = "="
    BY <2>0
  <2> QED
    BY <2>1, <1>1
<1>5. IsLexeme(p) <=> LexemeAt(s, e)
  BY <1>1, <1>2, <1>3, <1>4 DEF IsLexeme, Punctuation, LexemeAt
<1> QED
  BY <1>5 DEF p

LEMMA LexemesByOffsets ==
    ASSUME text \in Seq(STRING), NEW s \in 0 .. Len(text)
    PROVE  Lexemes(s, Len(text)) = {e \in s + 1 .. Len(text) : LexemeAt(s, e)}
<1>1. ASSUME NEW e \in s + 1 .. Len(text)
      PROVE  e <= Len(text) /\ (IsLexeme(SubSeq(text, s + 1, e)) <=> LexemeAt(s, e))
  BY LexemeByOffsets
<1> QED
  BY <1>1 DEF Lexemes
-----------------------------------------------------------------------------
(* A call.                                                                 *)

\* What the characters from s on have to do with the end of the token there.
TokenUpTo(s, e) ==
    \/ Peek(s) = Nul /\ e = s
    \/ Peek(s) \in Alpha /\ FirstOther(s, Alnum, e) /\ e > s
    \/ Peek(s) \in Digit /\ FirstOther(s, Digit, e) /\ e > s
    \/ Peek(s) \in Doubled /\ Peek(s + 1) = "=" /\ e = s + 2
    \/ /\ e = s + 1
       /\ Peek(s) \notin Alnum \cup {Nul}
       /\ ~(Peek(s) \in Doubled /\ Peek(s + 1) = "=")

LEMMA PeekInside ==
    ASSUME text \in Seq(STRING), NEW o \in Nat, Peek(o) # Nul
    PROVE  o + 1 <= Len(text)
BY DEF Peek

LEMMA TokenEnds ==
    ASSUME text \in Seq(STRING), NEW s \in 0 .. Len(text)
    PROVE  TokenUpTo(s, TokenEnd(s)) /\ TokenEnd(s) \in s .. Len(text)
<1> DEFINE e == TokenEnd(s)
<1>1. Nul \notin Alpha /\ Nul \notin Digit /\ Nul \notin Alnum /\ Nul \notin Doubled /\ "=" \in Doubled
  BY NulClasses, Classes
<1>2. CASE Peek(s) = Nul
  <2>1. e = s
    BY <1>1, <1>2 DEF TokenEnd
  <2> HIDE DEF e
  <2>2. e \in s .. Len(text)
    BY <2>1
  <2> QED
    BY <1>2, <2>1, <2>2 DEF TokenUpTo, e
<1>3. CASE Peek(s) \in Alpha
  <2>0. Peek(s) # Nul /\ Peek(s) \notin Digit /\ Peek(s) \notin Doubled
    BY <1>1, <1>3, Classes DEF Alnum
  <2>1. e = Skip(s, Alnum)
    BY <1>3, <2>0 DEF TokenEnd
  <2>2. FirstOther(s, Alnum, e)
    BY <1>1, <2>1, SkipStops
  <2> HIDE DEF e
  <2>3. e \in s .. Len(text) /\ e # s
    BY <1>3, <2>2 DEF FirstOther, Alnum
  <2>4. e > s
    BY <2>3
  <2> QED
    BY <1>3, <2>2, <2>3, <2>4 DEF TokenUpTo, e
<1>4. CASE Peek(s) \in Digit
  <2>0. Peek(s) # Nul /\ Peek(s) \notin Alpha /\ Peek(s) \notin Doubled
    BY <1>1, <1>4, Classes DEF Alnum
  <2>1. e = Skip(s, Digit)
    BY <1>4, <2>0 DEF TokenEnd
  <2>2. FirstOther(s, Digit, e)
    BY <1>1, <2>1, SkipStops
  <2> HIDE DEF e
  <2>3. e \in s .. Len(text) /\ e # s
    BY <1>4, <2>2 DEF FirstOther
  <2>4. e > s
    BY <2>3
  <2> QED
    BY <1>4, <2>2, <2>3, <2>4 DEF TokenUpTo, e
<1>5. CASE Peek(s) \in Doubled /\ Peek(s + 1) = "="
  <2>1. Peek(s) # Nul /\ Peek(s) \notin Alpha /\ Peek(s) \notin Digit
    BY <1>1, <1>5, Classes DEF Alnum
  <2>2. e = s + 2
    BY <1>5, <2>1 DEF TokenEnd
  <2> HIDE DEF e
  <2>3. Peek(s + 1) # Nul
    BY <1>1, <1>5
  <2>4. (s + 1) + 1 <= Len(text)
    BY <2>3, PeekInside
  <2>5. e \in s .. Len(text)
    BY <2>2, <2>4
  <2> QED
    BY <1>5, <2>2, <2>5 DEF TokenUpTo, e
<1>6. CASE Peek(s) \notin Alnum \cup {Nul} /\ ~(Peek(s) \in Doubled /\ Peek(s + 1) = "=")
  <2>1. e = s + 1
    BY <1>6 DEF TokenEnd, Alnum
  <2> HIDE DEF e
  <2>2. s + 1 <= Len(text)
    BY <1>6, PeekInside
  <2>3. e \in s .. Len(text)
    BY <2>1, <2>2
  <2> QED
    BY <1>6, <2>1, <2>3 DEF TokenUpTo, e
<1> QED
  BY <1>2, <1>3, <1>4, <1>5, <1>6 DEF Alnum

\* What IsLongest says of a token, by the characters at offsets.
Longest(s, e, k) ==
    CASE k = "eof"   -> e = s /\ Peek(s) = Nul
      [] k = "error" -> e = s + 1 /\ Peek(s) # Nul /\ \A x \in s + 1 .. Len(text) : ~LexemeAt(s, x)
      [] OTHER       -> /\ e \in s + 1 .. Len(text) /\ LexemeAt(s, e)
                        /\ \A x \in s + 1 .. Len(text) : LexemeAt(s, x) => x <= e

\* The kind of a token depends on its first character.
LEMMA Kinds ==
    ASSUME text \in Seq(STRING), NEW s \in 0 .. Len(text), NEW e \in s .. Len(text)
    PROVE  LET p == SubSeq(text, s + 1, e) IN
           /\ e = s => TokenKind(p) = "eof"
           /\ e > s /\ Peek(s) \in Alpha => TokenKind(p) = IdentifierKind(Spelled(p))
           /\ e > s /\ Peek(s) \in Digit => TokenKind(p) = "int_literal"
           /\ e > s /\ Peek(s) \notin Alnum =>
                 \A d \in BOOLEAN : (d <=> e = s + 2) => TokenKind(p) = SignKind(Peek(s), d)
<1> DEFINE p == SubSeq(text, s + 1, e)
<1>1. p \in Seq(STRING) /\ Len(p) = e - s /\ \A k \in 1 .. e - s : p[k] = Peek(s + k - 1)
  BY PartOfText
<1>2. e > s => 1 \in 1 .. e - s /\ s + 1 - 1 = s
  OBVIOUS
<1> HIDE DEF p
<1>3. e = s => p = <<>>
  BY <1>1
<1>4. e > s => p # <<>> /\ p[1] = Peek(s) /\ (Len(p) = 2 <=> e = s + 2)
  <2>1. e > s => p # <<>>
    BY <1>1
  <2>2. e > s => p[1] = Peek(s)
    BY <1>1, <1>2
  <2>3. Len(p) = 2 <=> e = s + 2
    BY <1>1
  <2> QED
    BY <2>1, <2>2, <2>3
<1>5. e = s => TokenKind(p) = "eof"
  BY <1>3 DEF TokenKind
<1>6. e > s /\ Peek(s) \in Alpha => TokenKind(p) = IdentifierKind(Spelled(p))
  BY <1>4, Classes DEF TokenKind
<1>7. e > s /\ Peek(s) \in Digit => TokenKind(p) = "int_literal"
  BY <1>4, Classes DEF TokenKind
<1>8. e > s /\ Peek(s) \notin Alnum =>
         \A d \in BOOLEAN : (d <=> e = s + 2) => TokenKind(p) = SignKind(Peek(s), d)
  <2>1. SUFFICES ASSUME e > s, Peek(s) \notin Alnum, NEW d \in BOOLEAN, d <=> e = s + 2
                 PROVE  TokenKind(p) = SignKind(Peek(s), d)
    OBVIOUS
  <2>2. TokenKind(p) = SignKind(p[1], Len(p) = 2)
    BY <1>4, <2>1 DEF TokenKind, Alnum
  <2>3. (Len(p) = 2) = d
    BY <1>4, <2>1
  <2> QED
    BY <1>4, <2>1, <2>2, <2>3
<1> QED
  BY <1>5, <1>6, <1>7, <1>8 DEF p

LEMMA ScannedIsLongest ==
    ASSUME text \in Seq(STRING), NEW s \in 0 .. Len(text)
    PROVE  Longest(s, TokenEnd(s), TokenKind(SubSeq(text, s + 1, TokenEnd(s))))
<1> DEFINE e == TokenEnd(s)
           k == TokenKind(SubSeq(text, s + 1, e))
<1> SUFFICES Longest(s, e, k)
  OBVIOUS
<1>1. TokenUpTo(s, e) /\ e \in s .. Len(text) /\ s \in Nat /\ e \in Nat
  BY TokenEnds
<1>2. /\ e = s => k = "eof"
      /\ e > s /\ Peek(s) \in Alpha => \E w : k = IdentifierKind(w)
      /\ e > s /\ Peek(s) \in Digit => k = "int_literal"
      /\ e > s /\ Peek(s) \notin Alnum =>
            \A d \in BOOLEAN : (d <=> e = s + 2) => k = SignKind(Peek(s), d)
  BY <1>1, Kinds
<1> HIDE DEF e, k
<1>3. CASE Peek(s) = Nul /\ e = s
  BY <1>2, <1>3 DEF Longest
<1>4. CASE Peek(s) \in Alpha /\ FirstOther(s, Alnum, e) /\ e > s
  <2>1. k \notin {"eof", "error"}
    BY <1>2, <1>4, WordKinds
  <2>2. e \in s + 1 .. Len(text) /\ LexemeAt(s, e)
    BY <1>1, <1>4 DEF FirstOther, LexemeAt
  <2>3. ASSUME NEW x \in s + 1 .. Len(text), LexemeAt(s, x) PROVE x <= e
    <3>1. Peek(s) \notin Signs /\ Peek(s) \notin Doubled /\ Peek(s) \notin Digit
      BY <1>4, Classes DEF Alnum
    <3>2. s \in s .. x - 1
      BY <1>1
    <3>3. \A o \in s .. x - 1 : Peek(o) \in Alnum
      BY <2>3, <3>1, <3>2 DEF LexemeAt
    <3>4. e \notin s .. x - 1
      BY <1>4, <3>3 DEF FirstOther
    <3> QED
      BY <1>1, <3>4
  <2> QED
    BY <2>1, <2>2, <2>3 DEF Longest
<1>5. CASE Peek(s) \in Digit /\ FirstOther(s, Digit, e) /\ e > s
  <2>1. k = "int_literal"
    BY <1>2, <1>5
  <2>2. e \in s + 1 .. Len(text) /\ LexemeAt(s, e)
    BY <1>1, <1>5 DEF FirstOther, LexemeAt
  <2>3. ASSUME NEW x \in s + 1 .. Len(text), LexemeAt(s, x) PROVE x <= e
    <3>1. Peek(s) \notin Signs /\ Peek(s) \notin Doubled /\ Peek(s) \notin Alpha
      BY <1>5, Classes DEF Alnum
    <3>2. \A o \in s .. x - 1 : Peek(o) \in Digit
      BY <2>3, <3>1 DEF LexemeAt
    <3>3. e \notin s .. x - 1
      BY <1>5, <3>2 DEF FirstOther
    <3> QED
      BY <1>1, <3>3
  <2> QED
    BY <2>1, <2>2, <2>3 DEF Longest
<1>6. CASE Peek(s) \in Doubled /\ Peek(s + 1) = "=" /\ e = s + 2
  <2>1. Peek(s) \notin Alnum /\ Peek(s) \notin Alpha /\ Peek(s) \notin Digit
    BY <1>6, Classes DEF Alnum
  <2>2. k \notin {"eof", "error"}
    <3>1. e > s
      BY <1>1, <1>6
    <3>2. \A d \in BOOLEAN : d => k = SignKind(Peek(s), d)
      BY <1>2, <1>6, <2>1, <3>1
    <3>3. PICK d \in BOOLEAN : d
      OBVIOUS
    <3> QED
      BY <1>6, <3>2, <3>3, SignKinds
  <2>3. e \in s + 1 .. Len(text) /\ LexemeAt(s, e)
    BY <1>1, <1>6 DEF LexemeAt
  <2>4. ASSUME NEW x \in s + 1 .. Len(text), LexemeAt(s, x) PROVE x <= e
    <3>1. s \in s .. x - 1
      BY <1>1
    <3>2. x = s + 1 \/ x = s + 2
      BY <2>1, <2>4, <3>1 DEF LexemeAt
    <3> QED
      BY <1>1, <1>6, <3>2
  <2> QED
    BY <2>2, <2>3, <2>4 DEF Longest
<1>7. CASE /\ e = s + 1
           /\ Peek(s) \notin Alnum \cup {Nul}
           /\ ~(Peek(s) \in Doubled /\ Peek(s + 1) = "=")
  <2>1. e > s /\ e # s + 2
    BY <1>1, <1>7
  <2>2. k # "eof" /\ (k = "error" <=> Peek(s) \notin Signs)
    <3>1. \A d \in BOOLEAN : ~d => k = SignKind(Peek(s), d)
      BY <1>2, <1>7, <2>1
    <3>2. PICK d \in BOOLEAN : ~d
      OBVIOUS
    <3> QED
      BY <3>1, <3>2, SignKinds
  <2>3. ASSUME NEW x \in s + 1 .. Len(text)
        PROVE  LexemeAt(s, x) <=> x = s + 1 /\ Peek(s) \in Signs
    <3>1. s \in s .. x - 1
      BY <1>1
    <3> QED
      BY <1>7, <3>1 DEF LexemeAt, Alnum
  <2>4. CASE Peek(s) \in Signs
    BY <1>1, <1>7, <2>2, <2>3, <2>4 DEF Longest
  <2>5. CASE Peek(s) \notin Signs
    BY <1>1, <1>7, <2>2, <2>3, <2>5 DEF Longest
  <2> QED
    BY <2>4, <2>5
<1> QED
  BY <1>1, <1>3, <1>4, <1>5, <1>6, <1>7 DEF TokenUpTo

\* A call as a whole: the token it yields, and where it leaves the lexer.
Yields(s, e, p) ==
    /\ FirstOther(offset, Spaces, s)
    /\ Longest(s, e, TokenKind(p))
    /\ TokenKind(p) = "identifier" => Spelled(p) \notin Keywords
    /\ p \in Seq(STRING)
    /\ e = s => TokenKind(p) = "eof"
    /\ offset' = e
    /\ tokens' = Append(tokens, [kind |-> TokenKind(p), start |-> s, end |-> e, text |-> Spelled(p)])
    /\ text' = text

LEMMA Call ==
    ASSUME InText, LexerNext
    PROVE  \E s \in offset .. Len(text) : \E e \in s .. Len(text) : \E p : Yields(s, e, p)
<1> DEFINE s == Skip(offset, Spaces)
           e == TokenEnd(s)
           p == SubSeq(text, s + 1, e)
<1>1. text \in Seq(STRING) /\ offset \in 0 .. Len(text) /\ offset \in Nat /\ Len(text) \in Nat
  BY DEF InText
<1>2. FirstOther(offset, Spaces, s)
  BY <1>1, SkipStops, NulClasses
<1>3. /\ offset' = e /\ text' = text
      /\ tokens' = Append(tokens, [kind |-> TokenKind(p), start |-> s, end |-> e, text |-> Spelled(p)])
  BY DEF LexerNext
<1> HIDE DEF s
<1>4. s \in offset .. Len(text) /\ s \in 0 .. Len(text)
  BY <1>1, <1>2 DEF FirstOther
<1>5. TokenUpTo(s, e) /\ e \in s .. Len(text) /\ Longest(s, e, TokenKind(p))
  BY <1>1, <1>4, TokenEnds, ScannedIsLongest
<1> HIDE DEF e
<1>6. p \in Seq(STRING)
  BY <1>1, <1>4, <1>5, PartOfText
<1>7. /\ e = s => TokenKind(p) = "eof"
      /\ e > s /\ Peek(s) \in Alpha => TokenKind(p) = IdentifierKind(Spelled(p))
      /\ e > s /\ Peek(s) \in Digit => TokenKind(p) = "int_literal"
      /\ e > s /\ Peek(s) \notin Alnum =>
            \A d \in BOOLEAN : (d <=> e = s + 2) => TokenKind(p) = SignKind(Peek(s), d)
  BY <1>1, <1>4, <1>5, Kinds
<1> HIDE DEF p
<1>8. TokenKind(p) = "identifier" => Spelled(p) \notin Keywords
  <2>1. e = s \/ e > s
    BY <1>4, <1>5
  <2>2. \E d \in BOOLEAN : d <=> e = s + 2
    OBVIOUS
  <2>3. \A w : IdentifierKind(w) = "identifier" => w \notin Keywords
    BY WordKinds
  <2>4. \A c : \A d \in BOOLEAN : SignKind(c, d) # "identifier"
    BY SignKinds
  <2> QED
    BY <1>7, <2>1, <2>2, <2>3, <2>4 DEF Alnum
<1> QED
  <2>1. Yields(s, e, p)
    BY <1>2, <1>3, <1>5, <1>6, <1>7, <1>8 DEF Yields
  <2> QED
    BY <1>4, <1>5, <2>1

\* A token that is longest by the characters at offsets is longest.
LongestFacts ==
    \A i : \A o \in 0 .. Len(text) :
        /\ text \in Seq(STRING)
        /\ o = EndOf(i - 1)
        /\ tokens[i].start \in o .. Len(text)
        /\ FirstOther(o, Spaces, tokens[i].start)
        /\ Longest(tokens[i].start, tokens[i].end, tokens[i].kind)
        /\ tokens[i].kind = "identifier" => tokens[i].text \notin Keywords
        => IsLongest(i, Len(text))

LEMMA LongestIsLongest == LongestFacts
<1> SUFFICES ASSUME text \in Seq(STRING), NEW i,
                    NEW o \in 0 .. Len(text), o = EndOf(i - 1),
                    tokens[i].start \in o .. Len(text),
                    FirstOther(o, Spaces, tokens[i].start),
                    Longest(tokens[i].start, tokens[i].end, tokens[i].kind),
                    tokens[i].kind = "identifier" => tokens[i].text \notin Keywords
             PROVE  IsLongest(i, Len(text))
  BY DEF LongestFacts
<1> DEFINE s == tokens[i].start
           ends == Lexemes(s, Len(text))
<1>1. s \in o .. Len(text) /\ s \in 0 .. Len(text)
  OBVIOUS
<1>2. Range(SubSeq(text, o + 1, s)) \subseteq Spaces
  BY <1>1, PartWithin DEF FirstOther
<1>3. Peek(s) \notin Spaces
  BY DEF FirstOther
<1>4. ends = {x \in s + 1 .. Len(text) : LexemeAt(s, x)}
  BY <1>1, LexemesByOffsets
<1>5. CASE tokens[i].kind = "eof"
  BY <1>2, <1>3, <1>5 DEF IsLongest, Longest
<1>6. CASE tokens[i].kind = "error"
  <2>1. tokens[i].end = s + 1 /\ Peek(s) # Nul /\ \A x \in s + 1 .. Len(text) : ~LexemeAt(s, x)
    BY <1>6 DEF Longest
  <2>2. ends = {}
    BY <1>4, <2>1
  <2> HIDE DEF ends
  <2> QED
    BY <1>2, <1>3, <1>6, <2>1, <2>2 DEF IsLongest, ends
<1>7. CASE tokens[i].kind \notin {"eof", "error"}
  <2>1. /\ tokens[i].end \in s + 1 .. Len(text) /\ LexemeAt(s, tokens[i].end)
        /\ \A x \in s + 1 .. Len(text) : LexemeAt(s, x) => x <= tokens[i].end
    BY <1>7 DEF Longest
  <2>2. tokens[i].end \in ends /\ \A x \in ends : x <= tokens[i].end
    BY <1>4, <2>1
  <2> HIDE DEF ends
  <2> QED
    BY <1>2, <1>3, <1>7, <2>2 DEF IsLongest, ends
<1> QED
  BY <1>5, <1>6, <1>7

\* What is longest of all is longest of those that end in its reach.
LEMMA LongestInReach ==
    ASSUME InText, EveryTokenLongest PROVE LongestLexemes
<1>1. SUFFICES ASSUME tokens # <<>>
               PROVE  IsLongest(Len(tokens), tokens[Len(tokens)].end + 2)
  BY DEF LongestLexemes, InText
<1> DEFINE t == tokens[Len(tokens)]
<1>2. Len(tokens) \in 1 .. Len(tokens) /\ t.start \in Nat /\ t.end \in Nat /\ Len(text) \in Nat
  <2>1. tokens \in Seq(Token) /\ Len(text) \in Nat
    BY DEF InText
  <2>2. Len(tokens) \in 1 .. Len(tokens) /\ t \in Token
    BY <1>1, <2>1
  <2> QED
    BY <2>1, <2>2 DEF Token
<1>3. IsLongest(Len(tokens), Len(text))
  BY <1>2 DEF EveryTokenLongest
<1>4. Lexemes(t.start, t.end + 2) \subseteq Lexemes(t.start, Len(text))
  <2>1. \A e \in t.start + 1 .. t.end + 2 : e <= Len(text) => e \in t.start + 1 .. Len(text)
    BY <1>2
  <2> QED
    BY <2>1 DEF Lexemes
<1>5. t.end \in Lexemes(t.start, Len(text)) => t.end \in Lexemes(t.start, t.end + 2)
  <2>1. t.end \in t.start + 1 .. Len(text) => t.end \in t.start + 1 .. t.end + 2
    BY <1>2
  <2> QED
    BY <2>1 DEF Lexemes
<1> HIDE DEF t
<1> QED
  BY <1>3, <1>4, <1>5 DEF IsLongest, t
-----------------------------------------------------------------------------
(* Theorems.                                                               *)

IInv == InText /\ EveryTokenLongest

LEMMA InitHolds == ASSUME NEW t \in Seq(STRING), LexerInit(t) PROVE IInv
BY DEF LexerInit, IInv, InText, EveryTokenLongest, EndOf

LEMMA CallHolds == ASSUME IInv, LexerNext PROVE IInv'
<1>1. InText /\ EveryTokenLongest
  BY DEF IInv
<1>2. PICK s \in offset .. Len(text) : \E e \in s .. Len(text) : \E p : Yields(s, e, p)
  BY <1>1, Call
<1>3. PICK e \in s .. Len(text) : \E p : Yields(s, e, p)
  BY <1>2
<1>4. PICK p : Yields(s, e, p)
  BY <1>3
<1> DEFINE t == [kind |-> TokenKind(p), start |-> s, end |-> e, text |-> Spelled(p)]
<1>0. PICK n, o : n = Len(tokens) /\ o = offset
  OBVIOUS
<1>5. /\ text \in Seq(STRING) /\ tokens \in Seq(Token) /\ n \in Nat /\ Len(text) \in Nat
      /\ o \in 0 .. Len(text) /\ o = EndOf(n)
      /\ s \in o .. Len(text)
  BY <1>0, <1>1 DEF InText
<1>6. s \in Nat /\ e \in Nat /\ s \in 0 .. Len(text) /\ e \in 0 .. Len(text)
  BY <1>5
<1>7. t \in Token
  BY <1>4, <1>6 DEF Yields, Token
<1>8. tokens' = Append(tokens, t) /\ text' = text /\ offset' = e
  BY <1>4 DEF Yields
<1>9. t.kind = TokenKind(p) /\ t.start = s /\ t.end = e /\ t.text = Spelled(p)
  OBVIOUS
<1> HIDE DEF t
<1>10. /\ tokens' \in Seq(Token) /\ Len(tokens') = n + 1 /\ tokens'[n + 1] = t
       /\ \A i \in 1 .. n : tokens'[i] = tokens[i]
  BY <1>0, <1>5, <1>7, <1>8
<1>11. EndOf(n + 1)' = e /\ \A i \in 0 .. n : EndOf(i)' = EndOf(i)
  BY <1>5, <1>9, <1>10 DEF EndOf
<1>12. InText'
  BY <1>5, <1>6, <1>8, <1>10, <1>11 DEF InText
<1>13. ASSUME NEW i \in 1 .. n PROVE IsLongest(i, Len(text))'
  <2>1. IsLongest(i, Len(text))
    BY <1>0, <1>1 DEF EveryTokenLongest
  <2>2. tokens'[i] = tokens[i] /\ EndOf(i - 1)' = EndOf(i - 1)
    BY <1>5, <1>10, <1>11
  <2> QED
    BY <1>8, <2>1, <2>2 DEF IsLongest, Lexemes, Peek
<1>14. IsLongest(n + 1, Len(text))'
  <2>1. LongestFacts'
    BY LongestIsLongest, PTL
  <2>2. EndOf((n + 1) - 1)' = o
    <3>1. (n + 1) - 1 = n /\ n \in 0 .. n
      BY <1>5
    <3> QED
      BY <1>5, <1>11, <3>1
  <2>3. FirstOther(o, Spaces, s)'
    BY <1>0, <1>4, <1>8 DEF Yields, FirstOther, Peek
  <2>4. Longest(s, e, t.kind)'
    <3>1. Longest(s, e, t.kind)
      BY <1>4, <1>9 DEF Yields
    <3> QED
      BY <1>8, <3>1 DEF Longest, LexemeAt, Peek
  <2>5. t.kind = "identifier" => t.text \notin Keywords
    BY <1>4, <1>9 DEF Yields
  <2>6. text' \in Seq(STRING) /\ o \in 0 .. Len(text') /\ s \in o .. Len(text')
    BY <1>5, <1>8
  <2> QED
    BY <1>9, <1>10, <2>1, <2>2, <2>3, <2>4, <2>5, <2>6 DEF LongestFacts
<1>15. EveryTokenLongest'
  <2>1. \A i \in 1 .. Len(tokens') : i \in 1 .. n \/ i = n + 1
    BY <1>5, <1>10
  <2> QED
    BY <1>13, <1>14, <2>1 DEF EveryTokenLongest
<1> QED
  BY <1>12, <1>15 DEF IInv

LEMMA CountHolds == ASSUME InText, Counted, LexerNext PROVE Counted'
<1>1. PICK s \in offset .. Len(text) : \E e \in s .. Len(text) : \E p : Yields(s, e, p)
  BY Call
<1>2. PICK e \in s .. Len(text) : \E p : Yields(s, e, p)
  BY <1>1
<1>3. PICK p : Yields(s, e, p)
  BY <1>2
<1> DEFINE t == [kind |-> TokenKind(p), start |-> s, end |-> e, text |-> Spelled(p)]
<1>4. offset \in Nat /\ s \in Nat /\ e \in Nat /\ s >= offset /\ e >= s /\ tokens \in Seq(Token)
  BY DEF InText
<1>5. Len(tokens) \in Nat /\ Len(tokens) <= offset
  BY <1>4 DEF Counted, LexerNext
<1>6. offset' = e /\ tokens' = Append(tokens, t) /\ t.kind = TokenKind(p) /\ t \in Token
  BY <1>3, <1>4 DEF Yields, Token
<1>7. e = s => t.kind = "eof"
  BY <1>3, <1>6 DEF Yields
<1> HIDE DEF t
<1>8. Len(tokens') = Len(tokens) + 1 /\ tokens' # <<>> /\ tokens'[Len(tokens')] = t
  BY <1>4, <1>6
<1>9. CASE e = s
  <2>1. AtEnd'
    BY <1>7, <1>8, <1>9 DEF AtEnd
  <2>2. Len(tokens') <= offset' \/ Len(tokens') = offset' + 1
    BY <1>4, <1>5, <1>6, <1>8
  <2> QED
    BY <2>1, <2>2 DEF Counted
<1>10. CASE e > s
  BY <1>4, <1>5, <1>6, <1>8, <1>10 DEF Counted
<1> QED
  BY <1>4, <1>9, <1>10

LEMMA Unmoved ==
    ASSUME IInv /\ Counted, UNCHANGED lexerVars PROVE (IInv /\ Counted)'
<1>1. text' = text /\ offset' = offset /\ tokens' = tokens
  BY DEF lexerVars
<1>2. InText'
  BY <1>1 DEF IInv, InText, EndOf
<1>3. EveryTokenLongest'
  <2>1. ASSUME NEW i \in 1 .. Len(tokens) PROVE IsLongest(i, Len(text))'
    BY <1>1 DEF IInv, EveryTokenLongest, IsLongest, Lexemes, EndOf, Peek
  <2> QED
    BY <1>1, <2>1 DEF EveryTokenLongest
<1>4. Counted'
  BY <1>1 DEF Counted, AtEnd
<1> QED
  BY <1>2, <1>3, <1>4 DEF IInv

\* Whatever the text and however often the lexer is called, the tokens follow
\* each other with white space between them, and each is the longest lexeme
\* where it starts, whatever its length; and no character is read in vain.
THEOREM LexerInvariant == LexerSpec => [](IInv /\ Counted)
<1>1. (\E t \in Seq(STRING) : LexerInit(t)) => IInv /\ Counted
  <2>1. ASSUME NEW t \in Seq(STRING), LexerInit(t) PROVE IInv /\ Counted
    BY <2>1, InitHolds DEF LexerInit, Counted
  <2> QED
    BY <2>1
<1>2. IInv /\ Counted /\ [LexerNext]_lexerVars => (IInv /\ Counted)'
  <2>1. ASSUME IInv, Counted, LexerNext PROVE (IInv /\ Counted)'
    BY <2>1, CallHolds, CountHolds DEF IInv
  <2> QED
    BY <2>1, Unmoved
<1> QED
  BY <1>1, <1>2, PTL DEF LexerSpec

\* The tokens of every text are the longest lexemes (beet_lexer_next).
THEOREM TokensAreLongest == LexerSpec => []LongestLexemes
<1>1. IInv /\ Counted => LongestLexemes
  BY LongestInReach DEF IInv
<1> QED
  BY <1>1, LexerInvariant, PTL

\* The lexer is done after a call for each character and one more, at most.
THEOREM CallsAreBounded == LexerSpec => [](Len(tokens) <= Len(text) + 1)
<1>1. IInv /\ Counted => Len(tokens) <= Len(text) + 1
  <2>1. SUFFICES ASSUME IInv, Counted PROVE Len(tokens) <= Len(text) + 1
    OBVIOUS
  <2>2. offset \in Nat /\ Len(text) \in Nat /\ offset <= Len(text) /\ tokens \in Seq(Token)
    BY <2>1 DEF IInv, InText
  <2>3. Len(tokens) \in Nat /\ Len(tokens) <= offset + 1
    BY <2>1, <2>2 DEF Counted
  <2> QED
    BY <2>2, <2>3
<1> QED
  BY <1>1, LexerInvariant, PTL
=============================================================================
