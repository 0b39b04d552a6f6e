------------------------------ MODULE LexerState ------------------------------
(***************************************************************************)
(* What the read functions of LexerState (lexer/data/lexer.cpp) share: the *)
(* input and the place in it, and next(), peek(), set_location(),          *)
(* emit_token() and the throwing functions.                                *)
(*                                                                         *)
(* A character is a one-character string and the input a sequence of them. *)
(* (A Text is valid UTF-8, so next() and peek() fail at the end only.)     *)
(* Every character read is a step; mode says which read function runs and  *)
(* where it is.  A read function is a chain of steps in which nothing else *)
(* can happen.                                                             *)
(***************************************************************************)
EXTENDS Integers, Sequences, SequencesExt

CONSTANTS
  Inputs,        \* the texts to tokenize
  EndOfInput     \* what there is to see behind the last character

VARIABLES
  input,         \* m_file_contents
  here,          \* m_input_iter, m_line, m_column: current_location()
  white,         \* m_previous_char_was_whitespace
  tokens,        \* m_result
  mode,
  start,         \* start_location of the running read function
  failure        \* the exception that ended the run

sourceVars == <<input, here, white>>
resultVars == <<tokens, failure>>

Whitespace == {" ", "\t", "\n", "\r"}
Digits == {"0", "1", "2", "3", "4", "5", "6", "7", "8", "9"}
SmallHex == {"a", "b", "c", "d", "e", "f"}
BigHex == {"A", "B", "C", "D", "E", "F"}
Letters == SmallHex \cup BigHex \cup
  {"g", "h", "i", "j", "k", "l", "m", "n", "o", "p", "q", "r", "s", "t",
   "u", "v", "w", "x", "y", "z", "G", "H", "I", "J", "K", "L", "M", "N",
   "O", "P", "Q", "R", "S", "T", "U", "V", "W", "X", "Y", "Z"}
WordStart == Letters \cup {"_"}
Backtick == "backtick"    \* TLA+ strings cannot hold the character
WordContinue == WordStart \cup Digits
OperatorStart ==
  {"=", "/", "+", "-", "*", "%", "^", "|", "&", "!", "~", ">", "<", "{", "}",
   ";", ",", ".", ":", "(", ")", "[", "]", "@", "$", "?"}
KnownCharacters ==
  Whitespace \cup WordContinue \cup OperatorStart \cup {"\"", "'", "\\", Backtick}

ASSUME LexerAssumption ==
  /\ \A text \in Inputs : text \in Seq(STRING)
  /\ EndOfInput \notin KnownCharacters

at_end == here.position > Len(input)
peek == IF at_end THEN EndOfInput ELSE input[here.position]

\* The characters from position first up to, not including, position end.
substr(first, end) == SubSeq(input, first, end - 1)
substr_after(first) == substr(first, here.position)

Beginning == [position |-> 1, line |-> 1, column |-> 1]

\* Bug: the column counts on over the end of a line.
NextLocationSameLine ==
  [position |-> here.position + 1,
   line     |-> IF peek = "\n" THEN here.line + 1 ELSE here.line,
   column   |-> here.column + 1]
NextLocation ==
  [position |-> here.position + 1,
   line     |-> IF peek = "\n" THEN here.line + 1 ELSE here.line,
   column   |-> IF peek = "\n" THEN 1 ELSE here.column + 1]

\* Bug: the end of the input is not noticed.
ConsumePastEnd ==
  /\ here' = NextLocation
  /\ white' = (white \/ peek \in Whitespace)
  /\ UNCHANGED input
\* next()
Consume ==
  /\ ~ at_end
  /\ here' = NextLocation
  /\ white' = (white \/ peek \in Whitespace)
  /\ UNCHANGED input

\* n characters at once, none of them white.
ConsumePlain(n) ==
  /\ here' = [here EXCEPT !.position = @ + n, !.column = @ + n]
  /\ UNCHANGED <<input, white>>

\* Bug: only the iterator goes back.
SetLocationPositionOnly(location) ==
  /\ here' = [here EXCEPT !.position = location.position]
  /\ UNCHANGED <<input, white>>
SetLocation(location) ==
  /\ here' = location
  /\ UNCHANGED <<input, white>>

\* emit_token(): no_w tells the _NO_W variant of a type from the plain one.  A type is
\* a sequence: the type of an operator or a keyword is its text, others have a name.
\* Bug: the token is where the lexer has got to.
TokenFromHere(type, no_w) ==
  [type |-> type, no_w |-> no_w, location |-> here, end |-> here.position]
Token(type, no_w) ==
  [type |-> type, no_w |-> no_w, location |-> start, end |-> here.position]

\* Bug: the flag stays set.
EmitKeepsFlag(type, no_w) ==
  /\ tokens' = Append(tokens, Token(type, no_w))
  /\ mode' = "token"
  /\ UNCHANGED <<input, here, white, start, failure>>
Emit(type, no_w) ==
  /\ tokens' = Append(tokens, Token(type, no_w))
  /\ white' = FALSE
  /\ mode' = "token"
  /\ UNCHANGED <<input, here, start, failure>>

\* throw_lexer_error(), at the location where the running function started or
\* at the current one.
Throw(location) ==
  /\ failure' = [kind |-> "LexerError", location |-> location]
  /\ mode' = "failed"
  /\ UNCHANGED <<sourceVars, tokens, start>>

\* peek() at the end of the input.
ThrowPastEnd ==
  /\ failure' = [kind |-> "RuntimeError", location |-> here]
  /\ mode' = "failed"
  /\ UNCHANGED <<sourceVars, tokens, start>>

NoFailure == [kind |-> "none", location |-> Beginning]

StateInit ==
  /\ input \in Inputs
  /\ here = Beginning
  /\ white = TRUE
  /\ tokens = <<>>
  /\ mode = "token"
  /\ start = Beginning
  /\ failure = NoFailure
=============================================================================
