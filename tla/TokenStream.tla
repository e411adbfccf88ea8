---------------------------- MODULE TokenStream ----------------------------
(***************************************************************************)
(* The cursor that all parsers share (Parser, ParserContext, TokenStream   *)
(* and BacktrackGuard), as operators on a parser state:                    *)
(*   toks  the tokens of the lexer, that never change                      *)
(*   at    the cursor                                                      *)
(*   ctx   the contexts that are set in the ContextStore                   *)
(*   node  what the last production returned, None for a null pointer      *)
(*   err   the exception that left the parser, if any                      *)
(* A production maps the state it starts in to the one it returns in. As   *)
(* in the code, a production that returns null may have moved the cursor.  *)
(***************************************************************************)
EXTENDS Integers, Sequences

CONSTANTS Identifiers, Integer, OtherLiterals  \* IDENTIFIER, INTEGER_LITERAL, the other literals

Newline == "NEWLINE"
Terminators == {";", Newline}
Literals == Integer \cup OtherLiterals
None == <<>>

Begin(tokens) == [toks |-> tokens, at |-> 1, ctx |-> {}, node |-> None, err |-> "none"]

Eos(s) == s.at > Len(s.toks)
Token(s) == s.toks[s.at]
Raised(s) == s.err # "none"
Found(s) == s.node # None

SyntaxError(s) == [s EXCEPT !.err = IF Eos(s) THEN "eos" ELSE "syntax", !.node = None]
Nothing(s) == [s EXCEPT !.node = None]
Make(s, n) == IF Raised(s) THEN s ELSE [s EXCEPT !.node = n]

Advance(s) == [s EXCEPT !.at = @ + 1]
Prev(s) == [s EXCEPT !.at = @ - 1]

(* An exception leaves everything behind it undone. *)
Then(s, Rest(_)) == IF Raised(s) THEN s ELSE Rest(s)

(* check() and next_if() look at the cursor and throw when there is no token left. *)
IfAt(s, types, Yes(_), No(_)) ==
  IF Raised(s) THEN s
  ELSE IF Eos(s) THEN SyntaxError(s)
  ELSE IF Token(s) \in types THEN Yes(s) ELSE No(s)

IfNext(s, types, Yes(_), No(_)) == IfAt(s, types, LAMBDA q: Yes(Advance(q)), No)

(* The type of a production that is tried: most consist of one test and what follows it. *)
OnlyAfter(s, types, Rest(_)) == IfNext(s, types, Rest, Nothing)

Expect(s, types) == IfNext(s, types, LAMBDA q: q, SyntaxError)

(* What was found is kept over a token that has to follow. *)
Surround(s, open, close, Inner(_)) == Expect(Then(Expect(s, {open}), Inner), {close})

Required(s) == IF Raised(s) \/ Found(s) THEN s ELSE SyntaxError(s)

(* An alternative is tried where the one before has left the cursor. *)
OrElse(s, Other(_)) == IF Raised(s) \/ Found(s) THEN s ELSE Other(s)

(* The first token at or behind the cursor that is no NEWLINE, or the place behind the last one. *)
BehindNewlines(s) ==
  CHOOSE i \in s.at .. (Len(s.toks) + 1) :
    /\ i = Len(s.toks) + 1 \/ s.toks[i] # Newline
    /\ \A j \in s.at .. (i - 1) : s.toks[j] = Newline

(* after_newlines() skips the line breaks, but only in front of a token that fits. *)
IfAfterNewlines(s, types, Yes(_), No(_)) ==
  LET i == BehindNewlines(s)
  IN  IF Raised(s) THEN s
      ELSE IF i <= Len(s.toks) /\ s.toks[i] \in types THEN Yes([s EXCEPT !.at = i])
      ELSE No(s)

NewlineOpt(s) == IF Raised(s) THEN s ELSE [s EXCEPT !.at = BehindNewlines(s)]

(* A terminator and all that follow it. *)
Terminator(s) ==
  LET ends == CHOOSE i \in s.at .. (Len(s.toks) + 1) :
                /\ i = Len(s.toks) + 1 \/ s.toks[i] \notin Terminators
                /\ \A j \in s.at .. (i - 1) : s.toks[j] \in Terminators
  IN  IfAt(s, Terminators, LAMBDA q: [q EXCEPT !.at = ends], SyntaxError)

(* A BacktrackGuard takes the cursor back when its production returns null. *)
Guarded(s, r) == IF Found(r) THEN r ELSE [r EXCEPT !.at = s.at]
=============================================================================
