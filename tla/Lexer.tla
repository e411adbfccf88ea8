------------------------------- MODULE Lexer -------------------------------
(***************************************************************************)
(* lexer::Lexer::tokenize (src/src/acris/lexer/lexer.cpp) on a TextBuffer.  *)
(* A behaviour lexes one text.  Each turn of a scanning loop is a step, so  *)
(* that a loop that never ends is a behaviour that never ends.  A token is  *)
(* its type and the span of text it was made from; what a literal denotes   *)
(* is left out.                                                            *)
(***************************************************************************)
EXTENDS TextBuffer, FiniteSets

CONSTANTS
  Texts,      \* the sources: sets of sequences of lines
  Alpha,      \* characters for which std::isalpha holds
  Digit,      \* characters for which std::isdigit holds
  HexDigit,   \* characters for which std::isxdigit holds
  Single,     \* keys of g_single_symbols
  Multi,      \* keys of g_multi_symbols, as pairs of characters
  Escape,     \* characters that may follow a backslash in a char literal
  MaxDigits,  \* bound: std::stoi throws on a literal with more digits
  MaxHex,     \* bound: std::stoul throws on a literal with more digits
  MaxFloat,   \* bound: std::stod may throw on a literal with more characters
  MaxTokens,  \* bound: tokens that are followed
  Asserts     \* whether assert() is compiled in

\* Blanks, line breaks and punctuation that the scanning functions look for.
Punctuation == {"sp", "nl", "_", ".", "/", "*", "'", "\"", "\\"}

ASSUME LexerAssumption ==
  /\ Asserts \in BOOLEAN
  /\ {MaxDigits, MaxHex, MaxFloat, MaxTokens} \subseteq Nat
  /\ Digit \subseteq HexDigit
  /\ (Alpha \cup HexDigit) \cap (Punctuation \cup {NoChar}) = {}
  /\ \A m \in Multi : m[2] \notin {"sp", "nl", "\"", NoChar}

\* A text is what TextBuffer makes of a source: lines that are not empty, each
\* ended by the one line break in it.
ASSUME TextAssumption ==
  \A t \in Texts :
    /\ t \in Seq(Seq(STRING))
    /\ \A i \in DOMAIN t :
         /\ t[i] # <<>>
         /\ \A j \in DOMAIN t[i] :
              /\ t[i][j] # NoChar
              /\ t[i][j] = "nl" <=> j = Len(t[i])

Space == {"sp", "nl"}
IdChar == Alpha \cup Digit \cup {"_"}

VARIABLES
  text,    \* m_text: the lines
  pos,     \* m_text: the cursor
  mode,    \* the function that is running
  start,   \* the cursor when it was called
  tokens,  \* m_ts
  status   \* "lexing", "done", or how tokenize() was left

vars == <<text, pos, mode, start, tokens, status>>

Modes == {"tokenize", "line_comment", "block_comment", "identifier",
          "hex", "integer", "float", "string"}
Token(type, from, to) == [type |-> type, from |-> from, to |-> to]

-----------------------------------------------------------------------------
Init ==
  /\ text \in Texts
  /\ pos = At(0, 0)
  /\ mode = "tokenize"
  /\ start = At(0, 0)
  /\ tokens = <<>>
  /\ status = "lexing"

In(m) == status = "lexing" /\ mode = m
More == ~Eos(text, pos)
Char == Character(text, pos)
Ahead == Peek(text, pos)
Nexts(p) == NextPos(text, p)

Fail(s) ==
  /\ status' = s
  /\ UNCHANGED <<text, pos, mode, start, tokens>>

\* A token that ends at p is pushed, and tokenize() steps over its last
\* character.
Emit(type, p) ==
  /\ Len(tokens) < MaxTokens
  /\ tokens' = Append(tokens, Token(type, IF mode = "tokenize" THEN pos ELSE start, p))
  /\ pos' = Nexts(p)
  /\ mode' = "tokenize"
  /\ UNCHANGED <<text, start, status>>

\* A scanning function starts with the cursor at p.
Call(m, p) ==
  /\ mode' = m
  /\ start' = pos
  /\ pos' = p
  /\ UNCHANGED <<text, tokens, status>>

\* One more turn of a scanning loop.
Scan(p) ==
  /\ pos' = p
  /\ UNCHANGED <<text, mode, start, tokens, status>>

-----------------------------------------------------------------------------
(* tokenize: which function lexes the character under the cursor.           *)

\* Mutant: whitespace() and tokenize() both step over the blank.
SkipTwo == In("tokenize") /\ More /\ Char = "sp" /\ Scan(Nexts(Nexts(pos)))

Skip == In("tokenize") /\ More /\ Char = "sp" /\ Scan(Nexts(pos))

Newline == In("tokenize") /\ More /\ Char = "nl" /\ Emit("NEWLINE", pos)

IsComment == Char = "/" /\ Ahead \in {"/", "*"}

\* Mutant: the body of a comment starts at the second character of its opening.
CommentEarly ==
  /\ In("tokenize") /\ More
  /\ IsComment
  /\ Call(IF Ahead = "/" THEN "line_comment" ELSE "block_comment", Nexts(pos))

Comment ==
  /\ In("tokenize") /\ More
  /\ IsComment
  /\ Call(IF Ahead = "/" THEN "line_comment" ELSE "block_comment",
          Nexts(Nexts(pos)))

Identifier == In("tokenize") /\ More /\ Char \in Alpha /\ Call("identifier", pos)

\* literal_numeric, and is_hex_literal, which steps over the prefix.
Numeric ==
  /\ In("tokenize") /\ More
  /\ Char \in Digit
  /\ IF Char = "0" /\ Ahead = "x"
     THEN Call("hex", Nexts(Nexts(pos)))
     ELSE Call("integer", pos)

\* literal_char: character() throws out_of_range past the last line.  That the
\* closing quote is one is not checked.
CharLiteral ==
  /\ In("tokenize") /\ More
  /\ Char = "'"
  /\ LET p1 == Nexts(pos)
         escaped == ~Eos(text, p1) /\ Character(text, p1) = "\\"
         p2 == IF escaped THEN Nexts(p1) ELSE p1
         p3 == Nexts(p2)
     IN  IF Eos(text, p1) \/ Eos(text, p2) THEN Fail("out_of_range")
         ELSE IF escaped /\ Asserts /\ Character(text, p2) \notin Escape
         THEN Fail("assert")
         ELSE IF Eos(text, p3) THEN Fail("out_of_range")
         ELSE Emit("CHAR_LITERAL", p3)

String == In("tokenize") /\ More /\ Char = "\"" /\ Call("string", pos)

Symbol ==
  /\ In("tokenize") /\ More
  /\ Char \notin Space \cup Alpha \cup Digit \cup {"'", "\""}
  /\ ~IsComment
  /\ IF <<Char, Ahead>> \in Multi THEN Emit("SYMBOL", Nexts(pos))
     ELSE IF Char \in Single THEN Emit("SYMBOL", pos)
     ELSE Fail("syntax_error")

Done ==
  /\ In("tokenize") /\ ~More
  /\ Fail("done")

-----------------------------------------------------------------------------
(* The scanning loops.                                                     *)

\* A comment is discarded, and a NEWLINE is pushed for the one it may hide.
\* text_position() throws out_of_range when the comment ran off the text.
EndComment == IF More THEN Emit("NEWLINE", pos) ELSE Fail("out_of_range")

\* Mutant: a line comment takes its line break along.
LineCommentJoins ==
  /\ In("line_comment")
  /\ IF More /\ Char # "nl" THEN Scan(Nexts(pos))
     ELSE IF ~More THEN EndComment
     ELSE /\ pos' = Nexts(pos)
          /\ mode' = "tokenize"
          /\ UNCHANGED <<text, start, tokens, status>>

LineComment ==
  /\ In("line_comment")
  /\ IF More /\ Char # "nl" THEN Scan(Nexts(pos)) ELSE EndComment

\* Mutant: a star that closes nothing is looked at again.
BlockCommentStuck ==
  /\ In("block_comment")
  /\ IF ~More THEN EndComment
     ELSE IF Char = "*"
     THEN IF Ahead = "/" THEN Emit("NEWLINE", Nexts(pos)) ELSE Scan(pos)
     ELSE Scan(Nexts(pos))

BlockComment ==
  /\ In("block_comment")
  /\ IF ~More THEN EndComment
     ELSE IF Char = "*" /\ Ahead = "/" THEN Emit("NEWLINE", Nexts(pos))
     ELSE Scan(Nexts(pos))

\* Mutant: digits and underscores end an identifier.
ScanLetters ==
  /\ In("identifier")
  /\ IF Ahead \in Alpha THEN Scan(Nexts(pos)) ELSE Emit("IDENTIFIER", pos)

ScanIdentifier ==
  /\ In("identifier")
  /\ IF Ahead \in IdChar THEN Scan(Nexts(pos)) ELSE Emit("IDENTIFIER", pos)

\* handle_hex: std::stoul of no digit at all throws invalid_argument.
ScanHex ==
  /\ In("hex")
  /\ IF Char \notin HexDigit THEN Fail("invalid_argument")
     ELSE IF Ahead \in HexDigit THEN Scan(Nexts(pos))
     ELSE IF pos.col - start.col - 1 > MaxHex THEN Fail("out_of_range")
     ELSE Emit("INTEGER_LITERAL", pos)

\* handle_integer, which goes on as handle_float after a dot.
ScanInteger ==
  /\ In("integer")
  /\ IF Ahead \in Digit THEN Scan(Nexts(pos))
     ELSE IF Ahead = "." THEN
       /\ mode' = "float"
       /\ pos' = Nexts(pos)
       /\ UNCHANGED <<text, start, tokens, status>>
     ELSE IF pos.col - start.col + 1 > MaxDigits THEN Fail("out_of_range")
     ELSE Emit("INTEGER_LITERAL", pos)

\* handle_float: how many characters are too many for a double depends on where the
\* dot and the first digit that is not 0 are.
ScanFloat ==
  /\ In("float")
  /\ IF Ahead \in Digit THEN Scan(Nexts(pos))
     ELSE IF Ahead = "." THEN Fail("syntax_error")
     ELSE \/ Emit("FLOAT_LITERAL", pos)
          \/ pos.col - start.col + 1 > MaxFloat /\ Fail("out_of_range")

\* Mutant: a backslash is a character like any other.
ScanStringRaw ==
  /\ In("string")
  /\ LET p == AfterPeek(text, pos)
         q == Nexts(p)
     IN  IF Ahead = NoChar THEN
           IF Asserts THEN Fail("assert") ELSE Scan(p)
         ELSE IF Ahead = "\"" THEN Emit("STRING_LITERAL", q)
         ELSE Scan(q)

\* Mutant: an escape is looked at, and not stepped over.
ScanStringStuck ==
  /\ In("string")
  /\ LET p == AfterPeek(text, pos)
         q == Nexts(p)
     IN  IF Ahead = NoChar THEN
           IF Asserts THEN Fail("assert") ELSE Scan(p)
         ELSE IF Ahead = "\"" THEN Emit("STRING_LITERAL", q)
         ELSE IF Ahead = "\\" THEN Scan(p)
         ELSE Scan(q)

\* literal_string: what peek() saw decides, but next() goes on from wherever
\* peek() left the cursor.
ScanString ==
  /\ In("string")
  /\ LET p == AfterPeek(text, pos)
         q == Nexts(p)
         r == Nexts(q)
     IN  IF Ahead = NoChar THEN
           IF Asserts THEN Fail("assert") ELSE Scan(p)
         ELSE IF Ahead = "\"" THEN Emit("STRING_LITERAL", q)
         ELSE IF Ahead = "\\" THEN
           IF Eos(text, r) THEN Fail("out_of_range") ELSE Scan(r)
         ELSE Scan(q)

Next ==
  \/ Skip \/ Newline \/ Comment \/ Identifier \/ Numeric \/ CharLiteral
  \/ String \/ Symbol \/ Done
  \/ LineComment \/ BlockComment
  \/ ScanIdentifier \/ ScanHex \/ ScanInteger \/ ScanFloat \/ ScanString

Spec == Init /\ [][Next]_vars

\* tokenize() is a plain loop: the program keeps running it.
FairSpec == Spec /\ WF_vars(Next)

-----------------------------------------------------------------------------
(* Properties. *)

Statuses == {"lexing", "done", "syntax_error", "invalid_argument",
             "out_of_range", "assert"}
Cursor == [line : Nat, col : Nat]
Types == {"NEWLINE", "IDENTIFIER", "INTEGER_LITERAL", "FLOAT_LITERAL",
          "CHAR_LITERAL", "STRING_LITERAL", "SYMBOL"}

TypeOK ==
  /\ pos \in Cursor
  /\ ~Eos(text, pos) => pos.col < Len(LineOf(text, pos))
  /\ mode \in Modes
  /\ start \in Cursor
  /\ tokens \in Seq([type : Types, from : Cursor, to : Cursor])
  /\ status \in Statuses

\* Where a string literal that is not closed on its line leaves the cursor, and
\* from where peek() takes it back to the start of the line.
StringAtLineEnd == status = "lexing" /\ mode = "string" /\ AtLineEnd(text, pos)

Positions == UNION {{At(i - 1, j - 1) : j \in DOMAIN text[i]} : i \in DOMAIN text}
Within(p, t) == ~Before(p, t.from) /\ ~Before(t.to, p)

\* What a reader takes for the inside of a string: out of one, in one, or in
\* one and after a backslash, before each character of a line (of a line that
\* has no char literal and no comment next to its strings).
After(s, c) ==
  IF s = "esc" THEN "in"
  ELSE IF s = "out" THEN IF c = "\"" THEN "in" ELSE "out"
  ELSE IF c = "\"" THEN "out"
  ELSE IF c = "\\" THEN "esc" ELSE "in"
Quoted(l) ==
  LET q[j \in 0..Len(l)] == IF j = 0 THEN "out" ELSE After(q[j - 1], l[j])
  IN  q

\* Strings are closed on their line, and no char literal has run over the end
\* of its line into one with strings, where it takes the first character for
\* its closing quote.
NoQuotes(l) == \A j \in DOMAIN l : l[j] # "\""
ClosedBehind(t) ==
  t.type = "CHAR_LITERAL" /\ t.to.line # t.from.line => NoQuotes(LineOf(text, t.to))
StringsClosed ==
  /\ \A i \in DOMAIN text :
       /\ Quoted(text[i])[Len(text[i])] = "out"
       /\ \A j, k \in DOMAIN text[i] :
            text[i][j] = "\"" => text[i][k] \notin {"'", "/"}
  /\ \A k \in DOMAIN tokens : ClosedBehind(tokens[k])

\* When lexing succeeds, every character but the blanks has gone into exactly
\* one token or comment: no text is dropped and none is lexed twice, whatever
\* lookahead the scanning functions used.  It takes for granted that strings
\* are closed on their line.
TokensTile ==
  status = "done" /\ StringsClosed =>
    \A p \in Positions :
      Character(text, p) # "sp" =>
        Cardinality({k \in DOMAIN tokens : Within(p, tokens[k])}) = 1

\* A string literal spans what a reader takes for one: from a quote to the
\* first quote after it that no backslash escapes.
StringSpan(t) ==
  LET q == Quoted(LineOf(text, t.from))
  IN  /\ t.to.line = t.from.line
      /\ q[t.from.col] = "out"
      /\ q[t.to.col + 1] = "out"
      /\ \A j \in t.from.col + 1 .. t.to.col : q[j] # "out"
StringSpans ==
  StringsClosed =>
    \A k \in DOMAIN tokens :
      tokens[k].type = "STRING_LITERAL" => StringSpan(tokens[k])

\* A comment ends where it should: a line comment with its line, a block
\* comment with the first */ that shares no character with its opening /*.
OpensComment(t, c) ==
  Character(text, t.from) = "/" /\ Peek(text, t.from) = c /\ t.type = "NEWLINE"
ClosesAt(p) == Character(text, p) = "*" /\ Peek(text, p) = "/"
Body(t) == {p \in Positions : Before(Nexts(t.from), p) /\ Before(p, t.to)}
CommentSpan(t) ==
  /\ OpensComment(t, "/") => t.to.line = t.from.line /\ AtLineEnd(text, t.to)
  /\ OpensComment(t, "*") =>
       \E last \in Body(t) : /\ Nexts(last) = t.to
                            /\ {p \in Body(t) : ClosesAt(p)} = {last}
CommentSpans == \A k \in DOMAIN tokens : CommentSpan(tokens[k])

\* Maximal munch: a token never stops in front of a character that belongs to
\* it.
Munched(t) ==
  LET after == Peek(text, t.to)
  IN  /\ t.type = "IDENTIFIER" => after \notin IdChar
      /\ t.type = "INTEGER_LITERAL" => after \notin Digit
      /\ t.type = "FLOAT_LITERAL" => after \notin Digit \cup {"."}
      /\ t.type = "SYMBOL" /\ t.from = t.to =>
           <<Character(text, t.to), after>> \notin Multi
MaximalMunch == \A k \in DOMAIN tokens : Munched(tokens[k])

\* Statements end at newlines, so a line break is never lost: between tokens
\* of different lines there is a NEWLINE, also when a comment hides the break.
\* (A char literal takes a line break for its character or closing quote.)
LinesSeparated ==
  StringsClosed =>
    \A k \in DOMAIN tokens : k > 1 =>
      LET s == tokens[k - 1]
          t == tokens[k]
      IN  \/ s.to.line = t.from.line
          \/ s.type \in {"NEWLINE", "CHAR_LITERAL"}

\* Lexing ends, unless a string literal reaches the end of its line.
Terminates == <>(status # "lexing" \/ StringAtLineEnd)
=============================================================================
