-------------------------------- MODULE Lexer --------------------------------
(***************************************************************************)
(* The lexer (lexer/lexer.c): a call of beet_lexer_next skips white space  *)
(* and yields the next token, from the offset where the last one ended.    *)
(* The text is a sequence of characters, which are strings of length one;  *)
(* a token's lexeme is the part of it that it covers.                      *)
(***************************************************************************)
EXTENDS Integers, Sequences, Functions

CONSTANT Nul    \* the character with code 0, which is also what follows the text

VARIABLES text,
          offset,
          tokens   \* those that were yielded; the last call yielded "eof"

lexerVars == <<text, offset, tokens>>

Alpha ==
    {"a", "b", "c", "d", "e", "f", "g", "h", "i", "j", "k", "l", "m", "n", "o", "p", "q", "r",
     "s", "t", "u", "v", "w", "x", "y", "z", "A", "B", "C", "D", "E", "F", "G", "H", "I", "J",
     "K", "L", "M", "N", "O", "P", "Q", "R", "S", "T", "U", "V", "W", "X", "Y", "Z", "_"}
Digit  == {"0", "1", "2", "3", "4", "5", "6", "7", "8", "9"}
Alnum  == Alpha \cup Digit
Spaces == {" ", "\t", "\r", "\n"}

\* The characters that begin the other tokens, alone or before an =.
Signs   == {"(", ")", "{", "}", ",", ".", "=", "<", ">", "+", "-", "*", "/"}
Doubled == {"=", "!", "<", ">"}

Keywords == {"bind", "mutable", "function", "returns", "return", "is", "type", "module",
             "structure", "choice", "match", "case", "if", "else", "while", "borrowed", "owned"}

ASSUME NulAssumption == Nul \notin Alnum \cup Spaces \cup Signs \cup Doubled

Peek(o) == IF o >= Len(text) THEN Nul ELSE text[o + 1]

\* The first offset from o on whose character is not one of S.
Skip(o, S) ==
    CHOOSE e \in o .. Len(text) : Peek(e) \notin S /\ \A i \in o .. e - 1 : Peek(i) \in S

\* Mutant: what follows the = of an operator is not looked at.
TokenEnd_OneCharacter(start) ==
    CASE Peek(start) = Nul      -> start
      [] Peek(start) \in Alpha  -> Skip(start, Alnum)
      [] Peek(start) \in Digit  -> Skip(start, Digit)
      [] OTHER                  -> start + 1

\* Where the token that begins at start ends.
TokenEnd(start) ==
    CASE Peek(start) = Nul      -> start
      [] Peek(start) \in Alpha  -> Skip(start, Alnum)
      [] Peek(start) \in Digit  -> Skip(start, Digit)
      [] Peek(start) \in Doubled /\ Peek(start + 1) = "=" -> start + 2
      [] OTHER                  -> start + 1

\* The word that some characters spell.
Spelled(cs) ==
    LET first[n \in 0 .. Len(cs)] == IF n = 0 THEN "" ELSE first[n - 1] \o cs[n]
    IN  first[Len(cs)]

IdentifierKind(word) ==
    CASE word = "bind"      -> "kw_bind"      [] word = "mutable" -> "kw_mutable"
      [] word = "function"  -> "kw_function"  [] word = "returns" -> "kw_returns"
      [] word = "return"    -> "kw_return"    [] word = "is"      -> "kw_is"
      [] word = "type"      -> "kw_type"      [] word = "module"  -> "kw_module"
      [] word = "structure" -> "kw_structure" [] word = "choice"  -> "kw_choice"
      [] word = "match"     -> "kw_match"     [] word = "case"    -> "kw_case"
      [] word = "if"        -> "kw_if"        [] word = "else"    -> "kw_else"
      [] word = "while"     -> "kw_while"     [] word = "owned"   -> "kw_owned"
      [] word = "borrowed"  -> "kw_borrowed"  [] OTHER            -> "identifier"

SignKind(c, doubled) ==
    CASE c = "(" -> "lparen" [] c = ")" -> "rparen" [] c = "{" -> "lbrace" [] c = "}" -> "rbrace"
      [] c = "," -> "comma"  [] c = "." -> "dot"    [] c = "+" -> "plus"   [] c = "-" -> "minus"
      [] c = "*" -> "star"   [] c = "/" -> "slash"
      [] c = "=" -> IF doubled THEN "equal_equal" ELSE "equal"
      [] c = "!" -> IF doubled THEN "bang_equal" ELSE "error"
      [] c = "<" -> IF doubled THEN "less_equal" ELSE "less"
      [] c = ">" -> IF doubled THEN "greater_equal" ELSE "greater"
      [] OTHER   -> "error"

TokenKind(lexeme) ==
    IF lexeme = <<>> THEN "eof"
    ELSE CASE lexeme[1] \in Alpha -> IdentifierKind(Spelled(lexeme))
           [] lexeme[1] \in Digit -> "int_literal"
           [] OTHER               -> SignKind(lexeme[1], Len(lexeme) = 2)

LexerInit(t) == text = t /\ offset = 0 /\ tokens = <<>>

AtEnd == tokens # <<>> /\ tokens[Len(tokens)].kind = "eof"

\* Mutant: a character that starts no token is skipped, but not consumed.
LexerNext_Again ==
    LET start  == Skip(offset, Spaces)
        end    == TokenEnd(start)
        lexeme == SubSeq(text, start + 1, end)
        known  == TokenKind(lexeme) # "error"
    IN /\ ~AtEnd
       /\ offset' = IF known THEN end ELSE start
       /\ tokens' = IF known THEN Append(tokens, [kind |-> TokenKind(lexeme), start |-> start,
                                                  end |-> end, text |-> Spelled(lexeme)])
                    ELSE tokens
       /\ UNCHANGED text

\* At the end of the text every call yields the same token: they are one.
LexerNext ==
    LET start  == Skip(offset, Spaces)
        end    == TokenEnd(start)
        lexeme == SubSeq(text, start + 1, end)
    IN /\ ~AtEnd
       /\ offset' = end
       /\ tokens' = Append(tokens, [kind |-> TokenKind(lexeme), start |-> start, end |-> end,
                                    text |-> Spelled(lexeme)])
       /\ UNCHANGED text

\* The lexer alone, on any text.
LexerSpec == (\E t \in Seq(STRING) : LexerInit(t)) /\ [][LexerNext]_lexerVars
-----------------------------------------------------------------------------
(* Properties.                                                             *)

\* What a lexeme is, said of the whole of it.
Punctuation == {<<c>> : c \in Signs} \cup {<<c, "=">> : c \in Doubled}
IsLexeme(s) ==
    \/ s \in Punctuation
    \/ s # <<>> /\ Range(s) \subseteq Digit
    \/ s # <<>> /\ Range(s) \subseteq Alnum /\ s[1] \in Alpha

\* Where the lexemes that begin at start end, up to an offset.
Lexemes(start, last) ==
    {e \in start + 1 .. last : e <= Len(text) /\ IsLexeme(SubSeq(text, start + 1, e))}

EndOf(i) == IF i = 0 THEN 0 ELSE tokens[i].end

\* Before token i there is only white space; it is the longest lexeme where it
\* starts among those that end at last or before, an error only where none
\* starts, and the end of the text only there or where the text has a Nul.
IsLongest(i, last) ==
    LET t == tokens[i]
        ends == Lexemes(t.start, last)
    IN /\ Range(SubSeq(text, EndOf(i - 1) + 1, t.start)) \subseteq Spaces
       /\ Peek(t.start) \notin Spaces
       /\ CASE t.kind = "eof"   -> t.end = t.start /\ Peek(t.start) = Nul
            [] t.kind = "error" -> t.end = t.start + 1 /\ Peek(t.start) # Nul /\ ends = {}
            [] OTHER            -> t.end \in ends /\ \A e \in ends : e <= t.end
       /\ t.kind = "identifier" => t.text \notin Keywords

\* Tokens follow each other, and each is the longest lexeme where it starts.
\* (Said of each when it is yielded.  A lexeme of three characters or more is
\* one without its last, so two more tell.)
LongestLexemes ==
    /\ offset = EndOf(Len(tokens))
    /\ tokens # <<>> => IsLongest(Len(tokens), tokens[Len(tokens)].end + 2)
=============================================================================
