------------------------------ MODULE LexerProofs ------------------------------
(***************************************************************************)
(* Theorems about Lexer, for every text.                                   *)
(*                                                                         *)
(* The first part is about the places of the tokens, their order, and the  *)
(* white-space flag.  None of its theorems needs to know what the read     *)
(* functions look for.  A step of the lexer is one of four kinds (see      *)
(* Kind); the lemmas say so of every action, and the invariant is proved   *)
(* for the four kinds.                                                     *)
(*                                                                         *)
(* The second part is about what becomes of the characters: between the    *)
(* tokens nothing is left but white space and comments, the variant of a   *)
(* token tells whether it touches the one before it, a string is the text  *)
(* between its quotes, what is kept of a number is its text, and the       *)
(* underscores in it stand where they may.                                 *)
(***************************************************************************)
EXTENDS Lexer, FiniteSetTheorems, SequenceTheorems, TLAPS

\* The modes of a read function, and those in which it has read something.
Running == mode \in Modes \ {"token", "done", "failed"}
Consumed == Modes \ {"token", "done", "failed", "number", "integer", "quotes"}

\* Part of the inductive invariant.  A read function that may emit a token has
\* read something of it, so that no token is empty.
Begun ==
  /\ mode \in Consumed => start.position < here.position
  /\ mode = "integer" /\ here.position = start.position => ~ HasDigits
  /\ mode = "quotes" /\ here.position = start.position => quote.count = 0

\* Part of the inductive invariant.  A read function starts behind the last token.
Since == Running => LastEnd <= start.position /\ start.position <= here.position

\* Part of the inductive invariant.  Nothing white has been read of an operator,
\* so that going back to its start does not make the flag wrong.
OperatorIsPlain ==
  mode = "operator" => ~ WhiteBetween(start.position, here.position)

-----------------------------------------------------------------------------
(* The kinds of steps                                                      *)

Stays == here' = here /\ white' = white

ReadsOne ==
  /\ here.position <= Len(input)
  /\ here' = [position |-> here.position + 1,
              line     |-> IF input[here.position] = "\n" THEN here.line + 1 ELSE here.line,
              column   |-> IF input[here.position] = "\n" THEN 1 ELSE here.column + 1]
  /\ white' = (white \/ input[here.position] \in Whitespace)

ReadsPlain(n) ==
  /\ here.position + n <= Len(input) + 1
  /\ \A i \in here.position .. here.position + n - 1 : input[i] \notin Whitespace
  /\ here' = [position |-> here.position + n, line |-> here.line, column |-> here.column + n]
  /\ white' = white

GoesBack == mode = "operator" /\ here' = start /\ white' = white

GoesOn ==
  /\ Stays \/ ReadsOne \/ ReadsPlain(1) \/ ReadsPlain(2) \/ GoesBack
  /\ mode \notin {"done", "failed"} /\ mode' \in Modes \ {"done", "failed"}
  /\ UNCHANGED <<input, tokens, failure>>
  /\ mode = "token" => start' = IF mode' = "token" THEN start ELSE here
  /\ mode # "token" => start' = start
  /\ mode' = "operator" =>
       ReadsOne /\ input[here.position] \notin Whitespace /\ mode \in {"token", "operator"}
  /\ Begun'

Emits ==
  /\ Running /\ start.position < here.position
  /\ \E type, no_w : tokens' = Append(tokens, Token(type, no_w))
  /\ mode' = "token" /\ white' = FALSE
  /\ UNCHANGED <<input, here, start, failure>>

Finishes ==
  /\ mode = "token" /\ mode' = "done" /\ white' = FALSE
  /\ tokens' = Append(tokens, [type |-> <<"END_OF_FILE">>, no_w |-> FALSE,
                               location |-> here, end |-> here.position])
  /\ UNCHANGED <<input, here, start, failure>>

Fails ==
  /\ Stays \/ ReadsOne
  /\ mode \notin {"done", "failed"} /\ mode' = "failed"
  /\ UNCHANGED <<input, tokens, start>>
  /\ failure'.kind \in {"LexerError", "RuntimeError"}
  /\ failure'.location = here' \/ failure'.location = start

Kind == GoesOn \/ Emits \/ Finishes \/ Fails

\* What the lemmas about the actions need to know.
Readers == {"string", "char", "quoted_ident"}
Ready == TypeOK /\ Begun /\ Since /\ reader \in Readers

LEMMA InputIsText == TypeOK => input \in Seq(STRING) /\ here.position \in Nat \ {0}
  BY LexerAssumption DEF TypeOK, Locations

LEMMA Reading == ASSUME TypeOK, Consume PROVE ReadsOne /\ UNCHANGED input /\ peek = input[here.position]
  BY InputIsText DEF Consume, ReadsOne, NextLocation, at_end, peek

LEMMA Known ==
  ASSUME TypeOK, peek \in KnownCharacters
  PROVE  here.position <= Len(input) /\ peek = input[here.position]
  BY InputIsText, LexerAssumption DEF peek, at_end

\* The names of the types that are not the text of the token.
Names ==
  {<<"IDENTIFIER">>, <<"QUOTED_IDENTIFIER">>, <<"STRING_LITERAL">>, <<"CHAR_LITERAL">>,
   <<"NUMBER">>, <<"NUMBER_FIELD">>, <<"END_OF_FILE">>}

\* No operator or keyword has a name.
LEMMA OperatorSpelling == Operators \cap Names = {}
<1>1. SUFFICES ASSUME NEW op \in Operators PROVE op \notin Names
  OBVIOUS
<1>2. CASE \E c \in OperatorStart : op = <<c>>
  <2>1. PICK c \in OperatorStart : op = <<c>>
    BY <1>2
  <2>. QED  BY <2>1 DEF OperatorStart, Names
<1>3. CASE \E c \in OperatorStart, d \in OperatorStart : op = <<c, d>> \/ op = <<c, c, d>>
  <2>1. Len(op) # 1
    BY <1>3
  <2>2. \A name \in Names : Len(name) = 1
    BY DEF Names
  <2>. QED  BY <2>1, <2>2
<1>4. {"=", "/", "+", "-", "*", "%", "^", "|", "&", "!", ">", "<", ".", ":"} \subseteq OperatorStart
  BY DEF OperatorStart
<1>5. CASE op \in {<<c, "=">> : c \in {"=", "/", "+", "-", "*", "%", "^", "|", "&", "!", ">", "<"}}
  <2>1. PICK c \in {"=", "/", "+", "-", "*", "%", "^", "|", "&", "!", ">", "<"} : op = <<c, "=">>
    BY <1>5
  <2>. QED  BY <1>3, <1>4, <2>1
<1>6. CASE op \in {<<c, c>> : c \in {"/", "+", "-", "|", "&", ">", "<", ".", ":"}}
  <2>1. PICK c \in {"/", "+", "-", "|", "&", ">", "<", ".", ":"} : op = <<c, c>>
    BY <1>6
  <2>. QED  BY <1>3, <1>4, <2>1
<1>7. CASE op \in {<<c, c, "=">> : c \in {"|", "&", ">", "<"}}
  <2>1. PICK c \in {"|", "&", ">", "<"} : op = <<c, c, "=">>
    BY <1>7
  <2>. QED  BY <1>3, <1>4, <2>1
<1>8. CASE op \in {<<"=", ">">>, <<"-", ">">>, <<"/", "*">>, <<".", ".", ".">>}
  BY <1>3, <1>4, <1>8
<1>. QED  BY <1>2, <1>5, <1>6, <1>7, <1>8 DEF Operators

LEMMA KeywordsHaveNoNames == ReservedWords \cap Names = {}
  BY ReservedWordsAssumption DEF Names

LEMMA Plain ==
  ASSUME TypeOK, peek \in KnownCharacters \ Whitespace, ConsumePlain(1)
  PROVE  ReadsPlain(1) /\ UNCHANGED input
<1>1. here.position <= Len(input) /\ peek = input[here.position]
  BY Known
<1>2. here' = [position |-> here.position + 1, line |-> here.line, column |-> here.column + 1]
  BY DEF ConsumePlain, TypeOK, Locations
<1>3. \A i \in here.position .. here.position + 1 - 1 : input[i] \notin Whitespace
  BY <1>1, InputIsText
<1>4. here.position + 1 <= Len(input) + 1
  BY <1>1, InputIsText
<1>5. white' = white /\ UNCHANGED input
  BY DEF ConsumePlain
<1>6. QED
  BY <1>2, <1>3, <1>4, <1>5 DEF ReadsPlain

LEMMA PlainPrefix ==
  ASSUME TypeOK, peek = "0", PeekSecond \in DOMAIN BasePrefix, ConsumePlain(2)
  PROVE  ReadsPlain(2) /\ UNCHANGED input
<1>1. here.position <= Len(input) /\ input[here.position] = "0"
  BY Known DEF KnownCharacters, WordContinue, Digits
<1>2. PeekSecond \in {"x", "X", "b", "B", "o", "O"}
  BY DEF BasePrefix
<1>3. here.position < Len(input) /\ PeekSecond = input[here.position + 1]
  BY <1>2, LexerAssumption
     DEF PeekSecond, KnownCharacters, WordContinue, WordStart, Letters, SmallHex, BigHex
<1>4. here' = [position |-> here.position + 2, line |-> here.line, column |-> here.column + 2]
  BY DEF ConsumePlain, TypeOK, Locations
<1>5. input[here.position] \notin Whitespace /\ input[here.position + 1] \notin Whitespace
  BY <1>1, <1>2, <1>3 DEF Whitespace
<1>6. \A i \in here.position .. here.position + 2 - 1 : input[i] \notin Whitespace
  BY <1>5, InputIsText
<1>7. here.position + 2 <= Len(input) + 1
  BY <1>3, InputIsText
<1>8. white' = white /\ UNCHANGED input
  BY DEF ConsumePlain
<1>9. QED
  BY <1>4, <1>6, <1>7, <1>8 DEF ReadsPlain

-----------------------------------------------------------------------------
(* The actions, and what each kind is recognized by                        *)

LEMMA ToFails ==
  ASSUME mode \notin {"done", "failed"},
         \/ Throw(here) \/ Throw(start) \/ ThrowPastEnd
  PROVE  Kind
  BY DEF Throw, ThrowPastEnd, Kind, Fails, Stays, sourceVars

LEMMA ToEmits ==
  ASSUME Running, start.position < here.position, NEW type, NEW no_w, Emit(type, no_w)
  PROVE  Kind
  BY DEF Emit, Kind, Emits

\* A read function goes on in a mode in which it has read something.
LEMMA ToGoesOn ==
  ASSUME Ready, Running, mode' \in Consumed \ {"operator"}, start' = start,
         UNCHANGED <<input, tokens, failure>>,
         \/ ReadsOne \/ ReadsPlain(1) \/ ReadsPlain(2)
         \/ Stays /\ (mode \in Consumed \/ start.position < here.position)
  PROVE  Kind
<1>1. start.position <= here.position /\ start.position \in Nat /\ here.position \in Nat
  BY DEF Ready, Since, TypeOK, Locations
<1>2. start'.position < here'.position
  BY <1>1 DEF Ready, Begun, ReadsOne, ReadsPlain, Stays
<1>3. Begun'
  BY <1>2 DEF Begun, Consumed
<1>4. QED
  BY <1>3 DEF Kind, GoesOn, Running, Consumed

\* One character is read for good.
LEMMA ToReads ==
  ASSUME Ready, Running, Consume, mode' \in Consumed \ {"operator"}, start' = start,
         UNCHANGED <<tokens, failure>>
  PROVE  Kind
  BY Reading, ToGoesOn DEF Ready

LEMMA Progress ==
  ASSUME Ready
  PROVE  /\ start.position \in Nat /\ here.position \in Nat
         /\ Running => start.position <= here.position
         /\ mode \in Consumed => start.position < here.position
  BY DEF Ready, Since, Begun, TypeOK, Locations

LEMMA OpenedQuotes ==
  ASSUME Ready, mode = "quotes", quote.count \in {1, 2, 3, 6}
  PROVE  start.position < here.position
<1>1. start.position <= here.position /\ here.position # start.position
  <2>1. quote.count # 0
    OBVIOUS
  <2>2. QED
    BY <2>1, Progress DEF Ready, Begun, Running, Modes
<1>2. QED
  BY <1>1, Progress

LEMMA StringKinds == ASSUME Ready, StringStep PROVE Kind
<1>. USE DEF Running, Consumed, Modes, resultVars
<1>1. ASSUME OpeningQuote PROVE Kind
  <2>1. Consume /\ mode' = "quotes" /\ mode = "quotes" /\ UNCHANGED <<start, tokens, failure>>
    BY <1>1 DEF OpeningQuote
  <2>2. ReadsOne /\ UNCHANGED input
    BY <2>1, Reading DEF Ready
  <2>3. start'.position < here'.position
    BY <2>1, <2>2 DEF Ready, Since, TypeOK, Locations, ReadsOne
  <2>4. Begun'
    BY <2>1, <2>3, InputIsText DEF Begun, Ready, TypeOK, Locations
  <2>5. QED
    BY <2>1, <2>2, <2>4 DEF Kind, GoesOn
<1>2. ASSUME EmptyString PROVE Kind
  <2>1. mode = "quotes" /\ quote.count \in {2, 6}
    BY <1>2 DEF EmptyString
  <2>2. start.position < here.position
    BY <2>1, OpenedQuotes
  <2>3. QED
    BY <1>2, <2>1, <2>2, ToEmits DEF EmptyString
<1>3. ASSUME OpenString PROVE Kind
  <2>1. mode = "quotes" /\ quote.count \in {1, 3}
    BY <1>3 DEF OpenString
  <2>2. start.position < here.position
    BY <2>1, OpenedQuotes
  <2>3. QED
    BY <1>3, <2>1, <2>2, ToGoesOn DEF OpenString, sourceVars, Stays
<1>4. ASSUME StringChar \/ StringReturn \/ StringQuote PROVE Kind
  BY <1>4, ToReads DEF StringChar, StringReturn, StringQuote
<1>5. ASSUME StringError PROVE Kind
  BY <1>5, ToFails DEF StringError
<1>6. ASSUME CloseString PROVE Kind
  BY <1>6, Progress, ToEmits DEF CloseString
<1>7. QED
  BY <1>1, <1>2, <1>3, <1>4, <1>5, <1>6 DEF StringStep

\* An escape sequence goes back to the literal it stands in.
LEMMA ResumeModes ==
  ASSUME reader \in Readers, NEW letter
  PROVE  Resume(letter) \in Consumed \ {"operator"}
  BY DEF Readers, Resume, Consumed, Modes

\* The error has been located behind the character read.
LEMMA ToReadsAndFails ==
  ASSUME Ready, Running, Consume, mode' = "failed", UNCHANGED <<tokens, start>>,
         failure' = [kind |-> "LexerError", location |-> here']
  PROVE  Kind
  BY Reading DEF Ready, Kind, Fails, Running

LEMMA EscapeKinds == ASSUME Ready, EscapeStep PROVE Kind
<1>. USE DEF Running, Consumed, Modes, resultVars
<1>1. ASSUME Backslash \/ HexEscape PROVE Kind
  BY <1>1, ToReads DEF Backslash, HexEscape
<1>2. ASSUME SimpleEscape PROVE Kind
  <2>1. mode' \in Consumed \ {"operator"}
    BY <1>2, ResumeModes DEF Ready, SimpleEscape
  <2>2. QED
    BY <1>2, <2>1, ToReads DEF SimpleEscape
<1>3. ASSUME EscapedLineEnd PROVE Kind
  <2>1. mode' \in Consumed \ {"operator"}
    BY <1>3 DEF Ready, Readers, EscapedLineEnd
  <2>2. QED
    BY <1>3, <2>1, ToReads DEF EscapedLineEnd
<1>4. ASSUME AfterEscapedReturn PROVE Kind
  <2>1. mode' \in Consumed \ {"operator"} /\ mode \in Consumed
    BY <1>4 DEF Ready, Readers, AfterEscapedReturn
  <2>2. CASE Consume
    BY <1>4, <2>1, <2>2, ToReads DEF AfterEscapedReturn
  <2>3. CASE UNCHANGED sourceVars
    BY <1>4, <2>1, <2>3, ToGoesOn DEF AfterEscapedReturn, sourceVars, Stays
  <2>4. QED
    BY <1>4, <2>2, <2>3 DEF AfterEscapedReturn
<1>5. ASSUME HexChar PROVE Kind
  <2>1. /\ mode = "hex" /\ Consume /\ UNCHANGED <<tokens, start>>
        /\ \/ mode' = mode /\ failure' = failure
           \/ mode' = Resume(escape.letter) /\ failure' = failure
           \/ mode' = "failed" /\ failure' = [kind |-> "LexerError", location |-> here']
    BY <1>5 DEF HexChar
  <2>2. Resume(escape.letter) \in Consumed \ {"operator"}
    BY ResumeModes DEF Ready
  <2>3. QED
    BY <2>1, <2>2, ToReads, ToReadsAndFails
<1>6. ASSUME NotHexChar PROVE Kind
  BY <1>6, ToReadsAndFails DEF NotHexChar
<1>7. ASSUME EscapeError PROVE Kind
  BY <1>7, ToFails DEF EscapeError
<1>8. QED
  BY <1>1, <1>2, <1>3, <1>4, <1>5, <1>6, <1>7 DEF EscapeStep

LEMMA CharKinds == ASSUME Ready, CharStep PROVE Kind
<1>. USE DEF Running, Consumed, Modes, resultVars
<1>1. ASSUME CharContent \/ NextByte \/ ByteEscape \/ ClosingQuote PROVE Kind
  BY <1>1, ToReads DEF CharContent, NextByte, ByteEscape, ClosingQuote
<1>2. ASSUME NotByteEscape PROVE Kind
  BY <1>2, ToReadsAndFails DEF NotByteEscape
<1>3. ASSUME CloseChar PROVE Kind
  BY <1>3, Progress, ToEmits DEF CloseChar
<1>4. ASSUME NotOneCodePoint \/ CharError PROVE Kind
  BY <1>4, ToFails DEF NotOneCodePoint, CharError
<1>5. QED
  BY <1>1, <1>2, <1>3, <1>4 DEF CharStep

LEMMA QuotedKinds == ASSUME Ready, QuotedStep PROVE Kind
<1>. USE DEF Running, Consumed, Modes, resultVars
<1>1. ASSUME QuotedChar \/ ClosingBacktick PROVE Kind
  BY <1>1, ToReads DEF QuotedChar, ClosingBacktick
<1>2. ASSUME CloseQuotedIdent PROVE Kind
  BY <1>2, Progress, ToEmits DEF CloseQuotedIdent
<1>3. ASSUME QuotedError PROVE Kind
  BY <1>3, ToFails DEF QuotedError
<1>4. QED
  BY <1>1, <1>2, <1>3 DEF QuotedStep

\* A plain character is read for good.
LEMMA ToReadsPlain ==
  ASSUME Ready, Running, peek \in KnownCharacters \ Whitespace, ConsumePlain(1),
         mode' \in Consumed \ {"operator"}, start' = start, UNCHANGED <<tokens, failure>>
  PROVE  Kind
  BY Plain, ToGoesOn DEF Ready

LEMMA NumberCharacters ==
  /\ Digits \cup Letters \cup {"_", ".", "+", "-"} \subseteq KnownCharacters \ Whitespace
  /\ \A base : DigitsOf(base) \subseteq Digits \cup Letters
  /\ DigitsHere \subseteq Digits \cup Letters
  /\ ExponentMark \subseteq Letters
<1>1. Digits \cup Letters \cup {"_", ".", "+", "-"} \subseteq KnownCharacters \ Whitespace
  BY DEF Digits, Letters, SmallHex, BigHex, KnownCharacters, WordContinue, WordStart,
         OperatorStart, Whitespace
<1>2. ASSUME NEW base PROVE DigitsOf(base) \subseteq Digits \cup Letters
  <2>1. {"0", "1"} \subseteq Digits
    BY DEF Digits
  <2>2. QED
    BY <2>1 DEF DigitsOf, Letters
<1>3. ExponentMark \subseteq Letters
  BY DEF ExponentMark, Letters, SmallHex, BigHex
<1>4. QED
  BY <1>1, <1>2, <1>3 DEF DigitsHere

LEMMA NumberKinds == ASSUME Ready, NumberStep PROVE Kind
<1>. USE DEF Running, Consumed, Modes, resultVars
<1>1. ASSUME NoBasePrefix PROVE Kind
  <2>1. /\ mode = "number" /\ mode' = "integer" /\ literal' = NewLiteral
        /\ UNCHANGED <<input, here, white, tokens, failure, start>>
    BY <1>1 DEF NoBasePrefix, sourceVars
  <2>2. ~ HasDigits'
    BY <2>1 DEF HasDigits, NewLiteral
  <2>3. Begun'
    BY <2>1, <2>2 DEF Begun
  <2>4. QED
    BY <2>1, <2>3 DEF Kind, GoesOn, Stays
<1>2. ASSUME ReadBasePrefix PROVE Kind
  <2>1. /\ mode = "number" /\ mode' = "integer"
        /\ UNCHANGED <<tokens, failure, start>>
        /\ ReadsPlain(2) /\ UNCHANGED input
    BY <1>2, PlainPrefix DEF Ready, ReadBasePrefix
  <2>2. start'.position < here'.position
    BY <2>1, Progress DEF ReadsPlain
  <2>3. Begun'
    BY <2>1, <2>2, Progress DEF Begun, ReadsPlain
  <2>4. QED
    BY <2>1, <2>3 DEF Kind, GoesOn
<1>3. ASSUME /\ peek \in KnownCharacters \ Whitespace /\ ConsumePlain(1)
             /\ mode' \in {"integer", "fraction", "exponent_sign", "exponent_begin", "exponent"}
             /\ mode \in {"number", "integer", "fraction", "exponent_sign", "exponent"}
             /\ UNCHANGED <<tokens, failure, start>>
      PROVE  Kind
  <2>1. ReadsPlain(1) /\ UNCHANGED input
    BY <1>3, Plain DEF Ready
  <2>2. start'.position < here'.position
    BY <1>3, <2>1, Progress DEF ReadsPlain
  <2>3. Begun'
    BY <1>3, <2>1, <2>2, Progress DEF Begun, ReadsPlain
  <2>4. QED
    BY <1>3, <2>1, <2>3 DEF Kind, GoesOn
<1>4. ASSUME AssumeOctal PROVE Kind
  <2>1. peek \in Digits
    BY <1>4 DEF AssumeOctal, Digits
  <2>2. QED
    BY <1>3, <1>4, <2>1, NumberCharacters DEF AssumeOctal
<1>5. ASSUME ReadDigit \/ ReadUnderscore PROVE Kind
  BY <1>3, <1>5, NumberCharacters DEF ReadDigit, ReadUnderscore, InDigits
<1>6. ASSUME ReadPoint \/ ReadExponentMark PROVE Kind
  BY <1>3, <1>6, NumberCharacters DEF ReadPoint, ReadExponentMark, EndOfMantissa
<1>7. ASSUME ReadExponentSign PROVE Kind
  <2>1. CASE peek \in {"+", "-"}
    BY <1>3, <1>7, <2>1, NumberCharacters DEF ReadExponentSign
  <2>2. CASE peek \notin {"+", "-"}
    BY <1>7, <2>2, ToGoesOn DEF ReadExponentSign, sourceVars, Stays
  <2>3. QED
    BY <2>1, <2>2
<1>8. ASSUME BeginExponentDigits PROVE Kind
  BY <1>8, ToGoesOn DEF BeginExponentDigits, sourceVars, Stays
<1>9. ASSUME DigitError \/ ExponentError \/ NoDigits PROVE Kind
  BY <1>9, ToFails DEF DigitError, ExponentError, NoDigits, InDigits, EndOfMantissa, EndOfNumber
<1>10. ASSUME CloseNumber PROVE Kind
  <2>1. mode \in {"integer", "fraction", "exponent"} /\ HasDigits
    BY <1>10 DEF CloseNumber, EndOfNumber, EndOfMantissa
  <2>2. start.position < here.position
    <3>1. CASE mode = "integer"
      <4>1. here.position # start.position
        BY <2>1, <3>1 DEF Ready, Begun
      <4>2. QED
        BY <3>1, <4>1, Progress
    <3>2. CASE mode # "integer"
      BY <2>1, <3>2, Progress
    <3>3. QED
      BY <3>1, <3>2
  <2>3. QED
    BY <1>10, <2>1, <2>2, ToEmits DEF CloseNumber
<1>11. QED
  BY <1>1, <1>2, <1>4, <1>5, <1>6, <1>7, <1>8, <1>9, <1>10 DEF NumberStep

\* A token begins with one character read.
LEMMA ToBegins ==
  ASSUME Ready, mode = "token", Consume, start' = here, UNCHANGED <<tokens, failure>>,
         mode' \in Consumed, mode' = "operator" => peek \notin Whitespace
  PROVE  Kind
<1>1. ReadsOne /\ UNCHANGED input /\ peek = input[here.position]
  BY Reading DEF Ready
<1>2. start'.position < here'.position
  BY <1>1, Progress DEF ReadsOne
<1>3. Begun'
  BY <1>2 DEF Begun, Consumed
<1>4. QED
  BY <1>1, <1>3 DEF Kind, GoesOn, Consumed

LEMMA TokenKinds == ASSUME Ready, TokenStep PROVE Kind
<1>. USE DEF Consumed, Modes, resultVars
<1>1. ASSUME EndOfFile PROVE Kind
  BY <1>1 DEF EndOfFile, Kind, Finishes
<1>2. ASSUME SkipWhitespace PROVE Kind
  <2>1. ReadsOne /\ UNCHANGED input
    BY <1>2, Reading DEF Ready, SkipWhitespace
  <2>2. Begun'
    BY <1>2 DEF SkipWhitespace, Begun
  <2>3. QED
    BY <1>2, <2>1, <2>2 DEF SkipWhitespace, Kind, GoesOn
<1>3. ASSUME BeginOperator PROVE Kind
  <2>1. peek \notin Whitespace
    BY <1>3 DEF BeginOperator, Begin, OperatorStart, Whitespace
  <2>2. QED
    BY <1>3, <2>1, ToBegins DEF BeginOperator, Begin
<1>4. ASSUME BeginWord \/ BeginLiteral PROVE Kind
  BY <1>4, ToBegins DEF BeginWord, BeginLiteral, Begin
<1>5. ASSUME BeginNumber PROVE Kind
  <2>1. Begun'
    BY <1>5 DEF BeginNumber, Begin, Begun
  <2>2. QED
    BY <1>5, <2>1 DEF BeginNumber, Begin, Kind, GoesOn, Stays, sourceVars
<1>6. ASSUME BeginString PROVE Kind
  <2>1. /\ mode = "token" /\ mode' = "quotes" /\ quote'.count = 0
        /\ start' = here /\ UNCHANGED <<input, here, white, tokens, failure>>
    BY <1>6 DEF BeginString, Begin, BeginQuotes, sourceVars
  <2>2. Begun'
    BY <2>1 DEF Begun
  <2>3. QED
    BY <2>1, <2>2 DEF Kind, GoesOn, Stays
<1>7. ASSUME UnexpectedCharacter PROVE Kind
  BY <1>7, ToFails DEF UnexpectedCharacter
<1>8. QED
  BY <1>1, <1>2, <1>3, <1>4, <1>5, <1>6, <1>7 DEF TokenStep

LEMMA OperatorKinds == ASSUME Ready, OperatorStep PROVE Kind
<1>. USE DEF Running, Consumed, Modes, resultVars
<1>1. ASSUME ReadOperator PROVE Kind
  <2>1. /\ mode = "operator" /\ Consume /\ UNCHANGED <<start, tokens, failure>>
        /\ mode' \in {"operator", "line_comment", "block_comment"}
    BY <1>1 DEF ReadOperator
  <2>2. peek \notin Whitespace
    BY <1>1 DEF ReadOperator, Continues, Continuations, OperatorStart, Whitespace
  <2>3. ReadsOne /\ UNCHANGED input /\ peek = input[here.position]
    BY <2>1, Reading DEF Ready
  <2>4. start'.position < here'.position
    BY <2>1, <2>3, Progress DEF ReadsOne
  <2>5. Begun'
    BY <2>1, <2>4 DEF Begun
  <2>6. QED
    BY <2>1, <2>2, <2>3, <2>5 DEF Kind, GoesOn
<1>2. ASSUME PointBeforeDigit PROVE Kind
  <2>1. Begun'
    BY <1>2 DEF PointBeforeDigit, Begun
  <2>2. QED
    BY <1>2, <2>1 DEF PointBeforeDigit, SetLocation, Kind, GoesOn, GoesBack
<1>3. ASSUME CloseOperator PROVE Kind
  BY <1>3, Progress, ToEmits DEF CloseOperator, OperatorEnds
<1>4. ASSUME TwoPoints \/ PeekPastEnd PROVE Kind
  BY <1>4, ToFails DEF TwoPoints, PeekPastEnd, OperatorEnds
<1>5. QED
  BY <1>1, <1>2, <1>3, <1>4 DEF OperatorStep

LEMMA CommentKinds == ASSUME Ready, CommentStep PROVE Kind
<1>. USE DEF Running, Consumed, Modes, resultVars
<1>1. /\ mode \in {"line_comment", "block_comment", "star"}
      /\ mode' \in {"token", "line_comment", "block_comment", "star"}
      /\ UNCHANGED <<start, tokens, failure>>
      /\ Consume \/ (mode' = "token" /\ UNCHANGED <<input, here, white>>)
  BY DEF CommentStep, SkipLineComment, SkipBlockComment, CommentAtEnd, sourceVars
<1>2. CASE mode' = "token"
  <2>1. Begun'
    BY <1>2 DEF Begun
  <2>2. UNCHANGED input /\ (ReadsOne \/ Stays)
    BY <1>1, Reading DEF Ready, Stays
  <2>3. QED
    BY <1>1, <1>2, <2>1, <2>2 DEF Kind, GoesOn
<1>3. CASE mode' # "token"
  BY <1>1, <1>3, ToReads
<1>4. QED
  BY <1>2, <1>3

LEMMA WordKinds == ASSUME Ready, WordStep PROVE Kind
<1>. USE DEF Running, Consumed, Modes, resultVars
<1>1. ASSUME RawString PROVE Kind
  <2>1. /\ mode = "raw" /\ mode' = "quotes" /\ quote'.count = 0
        /\ UNCHANGED <<input, here, white, start, tokens, failure>>
    BY <1>1 DEF RawString, BeginQuotes, sourceVars
  <2>2. Begun'
    BY <2>1 DEF Begun
  <2>3. QED
    BY <2>1, <2>2 DEF Kind, GoesOn, Stays
<1>2. ASSUME NotRaw PROVE Kind
  BY <1>2, ToGoesOn DEF NotRaw, sourceVars, Stays
<1>3. ASSUME ReadWord PROVE Kind
  BY <1>3, ToReads DEF ReadWord
<1>4. ASSUME CloseWord PROVE Kind
  <2>1. mode = "word" /\ \E type, no_w : Emit(type, no_w)
    BY <1>4 DEF CloseWord
  <2>2. QED
    BY <2>1, Progress, ToEmits
<1>5. QED
  BY <1>1, <1>2, <1>3, <1>4 DEF WordStep

LEMMA Kinds == ASSUME Ready, Next PROVE Kind
  BY StringKinds, EscapeKinds, CharKinds, QuotedKinds, NumberKinds, TokenKinds,
     OperatorKinds, CommentKinds, WordKinds
     DEF Next, TextStep

-----------------------------------------------------------------------------
(* Lines and columns                                                       *)

LEMMA LocationType ==
  ASSUME NEW text \in Seq(STRING), NEW p \in 1 .. Len(text) + 1
  PROVE  LocationIn(text, p) \in Locations
<1>. DEFINE ends == {i \in 1 .. p - 1 : text[i] = "\n"}
            line == {i \in 1 .. p : \A j \in i .. p - 1 : text[j] # "\n"}
<1>1. IsFiniteSet(1 .. p - 1) /\ IsFiniteSet(1 .. p)
  BY FS_Interval
<1>2. ends \in SUBSET (1 .. p - 1) /\ line \in SUBSET (1 .. p)
  OBVIOUS
<1>3. /\ IsFiniteSet(ends) /\ Cardinality(ends) \in Nat
      /\ IsFiniteSet(line) /\ Cardinality(line) \in Nat
  BY <1>1, <1>2, FS_Subset, FS_CardinalityType
<1>4. p \in line
  OBVIOUS
<1>5. Cardinality(line) # 0
  BY <1>3, <1>4, FS_EmptySet
<1>6. QED
  BY <1>3, <1>5 DEF LocationIn, Locations

\* Behind a line end a new line begins; behind any other character the line is
\* the same and the column one more.
LEMMA LocationNext ==
  ASSUME NEW text \in Seq(STRING), NEW p \in 1 .. Len(text)
  PROVE  LocationIn(text, p + 1) =
           [position |-> p + 1,
            line     |-> IF text[p] = "\n" THEN LocationIn(text, p).line + 1
                                           ELSE LocationIn(text, p).line,
            column   |-> IF text[p] = "\n" THEN 1 ELSE LocationIn(text, p).column + 1]
<1>. DEFINE ends(q) == {i \in 1 .. q - 1 : text[i] = "\n"}
            line(q) == {i \in 1 .. q : \A j \in i .. q - 1 : text[j] # "\n"}
<1>1. /\ IsFiniteSet(ends(p)) /\ Cardinality(ends(p)) \in Nat
      /\ IsFiniteSet(line(p)) /\ Cardinality(line(p)) \in Nat
  <2>1. IsFiniteSet(1 .. p - 1) /\ IsFiniteSet(1 .. p)
    BY FS_Interval
  <2>2. ends(p) \in SUBSET (1 .. p - 1) /\ line(p) \in SUBSET (1 .. p)
    OBVIOUS
  <2>3. QED
    BY <2>1, <2>2, FS_Subset, FS_CardinalityType
<1>2. CASE text[p] = "\n"
  <2>1. ends(p + 1) = ends(p) \cup {p} /\ p \notin ends(p)
    BY <1>2
  <2>2. line(p + 1) = {p + 1}
    BY <1>2
  <2>3. Cardinality(ends(p + 1)) = Cardinality(ends(p)) + 1
    BY <1>1, <2>1, FS_AddElement
  <2>4. Cardinality(line(p + 1)) = 1
    BY <2>2, FS_Singleton
  <2>5. QED
    BY <1>1, <1>2, <2>3, <2>4 DEF LocationIn
<1>3. CASE text[p] # "\n"
  <2>1. ends(p + 1) = ends(p)
    BY <1>3
  <2>2. line(p + 1) = line(p) \cup {p + 1} /\ p + 1 \notin line(p)
    BY <1>3
  <2>3. Cardinality(line(p + 1)) = Cardinality(line(p)) + 1
    BY <1>1, <2>2, FS_AddElement
  <2>4. Cardinality(ends(p + 1)) = Cardinality(ends(p))
    BY <2>1
  <2>5. QED
    BY <1>1, <1>3, <2>3, <2>4 DEF LocationIn
<1>4. QED
  BY <1>2, <1>3

LEMMA LocationFirst ==
  ASSUME NEW text \in Seq(STRING)
  PROVE  LocationIn(text, 1) = Beginning
<1>. DEFINE ends == {i \in 1 .. 1 - 1 : text[i] = "\n"}
            line == {i \in 1 .. 1 : \A j \in i .. 1 - 1 : text[j] # "\n"}
<1>1. ends = {} /\ line = {1}
  OBVIOUS
<1>2. Cardinality(ends) = 0 /\ Cardinality(line) = 1
  BY <1>1, FS_EmptySet, FS_Singleton
<1>3. LocationIn(text, 1) = [position |-> 1, line |-> 1 + Cardinality(ends),
                             column |-> Cardinality(line)]
  BY DEF LocationIn
<1>4. QED
  BY <1>2, <1>3 DEF Beginning

-----------------------------------------------------------------------------
(* The invariant                                                           *)

LexerInv ==
  /\ TypeOK /\ LocationsCorrect /\ TokensInOrder /\ FlagIsWhiteSpace
  /\ Begun /\ Since /\ OperatorIsPlain /\ reader \in Readers

LEMMA LexerInit == Init => LexerInv
<1>1. SUFFICES ASSUME Init PROVE LexerInv
  OBVIOUS
<1>2. input \in Seq(STRING) /\ tokens = <<>> /\ mode = "token"
  BY <1>1, LexerAssumption DEF Init, StateInit
<1>3. Range(tokens) = {} /\ tokens \in Seq({}) /\ Len(tokens) = 0
  BY <1>2 DEF Range
<1>4. Beginning \in Locations /\ Beginning.position = 1
  BY DEF Beginning, Locations
<1>5. TypeOK
  BY <1>1, <1>2, <1>3, <1>4 DEF Init, StateInit, TypeOK, Modes, NoFailure
<1>6. LocationsCorrect
  BY <1>1, <1>2, <1>4, LocationFirst DEF Init, StateInit, LocationsCorrect, NoFailure
<1>7. QED
  BY <1>1, <1>2, <1>4, <1>5, <1>6
     DEF Init, StateInit, TextInit, LexerInv, TokensInOrder, FlagIsWhiteSpace, Begun, Since,
         OperatorIsPlain, Readers, Running, Consumed, LastEnd

\* Where a step that does not emit leads.
LEMMA PlaceNext ==
  ASSUME LexerInv, GoesOn \/ Fails
  PROVE  /\ here'.position \in Nat \ {0} /\ here'.position <= Len(input) + 1
         /\ here' = LocationIn(input, here'.position)
         /\ ~ GoesBack => here'.position >= here.position
<1>1. /\ input \in Seq(STRING) /\ Len(input) \in Nat
      /\ here.position \in 1 .. Len(input) + 1 /\ here = LocationIn(input, here.position)
  BY InputIsText DEF LexerInv, TypeOK, LocationsCorrect, Locations
<1>2. here.line \in Nat /\ here.column \in Nat
  BY DEF LexerInv, TypeOK, Locations
<1>3. CASE Stays
  BY <1>1, <1>3 DEF Stays
<1>4. CASE ReadsOne
  BY <1>1, <1>4, LocationNext DEF ReadsOne
<1>5. CASE ReadsPlain(1)
  <2>1. here.position \in 1 .. Len(input) /\ input[here.position] \notin Whitespace
    BY <1>1, <1>5 DEF ReadsPlain
  <2>2. input[here.position] # "\n"
    BY <2>1 DEF Whitespace
  <2>3. QED
    BY <1>1, <1>5, <2>1, <2>2, LocationNext DEF ReadsPlain
<1>6. CASE ReadsPlain(2)
  <2>1. /\ here.position \in 1 .. Len(input) /\ here.position + 1 \in 1 .. Len(input)
        /\ input[here.position] # "\n" /\ input[here.position + 1] # "\n"
    <3>1. /\ here.position \in 1 .. Len(input) /\ here.position + 1 \in 1 .. Len(input)
          /\ here.position \in here.position .. here.position + 2 - 1
          /\ here.position + 1 \in here.position .. here.position + 2 - 1
      BY <1>1, <1>6 DEF ReadsPlain
    <3>2. input[here.position] \notin Whitespace /\ input[here.position + 1] \notin Whitespace
      BY <1>6, <3>1 DEF ReadsPlain
    <3>3. QED
      BY <3>1, <3>2 DEF Whitespace
  <2>2. LocationIn(input, here.position + 1) =
          [position |-> here.position + 1, line |-> here.line, column |-> here.column + 1]
    BY <1>1, <2>1, LocationNext
  <2>3. LocationIn(input, here.position + 1 + 1) =
          [position |-> here.position + 1 + 1, line |-> here.line, column |-> here.column + 1 + 1]
    BY <1>1, <2>1, <2>2, LocationNext
  <2>4. /\ here.position + 1 + 1 = here.position + 2
        /\ here.column + 1 + 1 = here.column + 2
    BY <1>1, <1>2
  <2>5. here' = LocationIn(input, here.position + 2)
    BY <1>6, <2>3, <2>4 DEF ReadsPlain
  <2>6. QED
    BY <1>1, <1>6, <2>5 DEF ReadsPlain
<1>7. CASE GoesBack
  <2>1. /\ start.position \in Nat \ {0} /\ start = LocationIn(input, start.position)
        /\ start.position <= here.position
    BY <1>7, Progress DEF LexerInv, Ready, TypeOK, LocationsCorrect, Locations, GoesBack,
                          Running, Modes
  <2>2. QED
    BY <1>1, <1>7, <2>1 DEF GoesBack
<1>8. QED
  BY <1>3, <1>4, <1>5, <1>6, <1>7 DEF GoesOn, Fails

LEMMA AppendOne ==
  ASSUME NEW s, s \in Seq(Range(s)), NEW e, NEW t, t = Append(s, e)
  PROVE  /\ Len(s) \in Nat /\ Len(t) = Len(s) + 1
         /\ DOMAIN s = 1 .. Len(s) /\ DOMAIN t = 1 .. Len(s) + 1
         /\ t[Len(t)] = e /\ \A i \in 1 .. Len(s) : t[i] = s[i]
         /\ t # <<>> /\ t \in Seq(Range(t))
<1>. DEFINE S == Range(s) \cup {e}
<1>1. s \in Seq(S) /\ e \in S
  OBVIOUS
<1>2. /\ Len(s) \in Nat /\ Len(t) = Len(s) + 1 /\ t \in Seq(S)
      /\ DOMAIN s = 1 .. Len(s) /\ DOMAIN t = 1 .. Len(s) + 1
      /\ t[Len(s) + 1] = e /\ \A i \in 1 .. Len(s) : t[i] = s[i]
  BY <1>1
<1>3. t # <<>>
  BY <1>2
<1>4. t \in Seq(Range(t))
  BY <1>2 DEF Range
<1>5. QED
  BY <1>2, <1>3, <1>4

LEMMA LastEndType ==
  ASSUME TypeOK
  PROVE  /\ LastEnd \in Nat \ {0}
         /\ DOMAIN tokens = 1 .. Len(tokens) /\ Len(tokens) \in Nat
<1>1. DOMAIN tokens = 1 .. Len(tokens) /\ Len(tokens) \in Nat /\ Len(input) \in Nat
  BY InputIsText DEF TypeOK
<1>2. CASE tokens = <<>>
  BY <1>1, <1>2 DEF LastEnd
<1>3. CASE tokens # <<>>
  <2>1. Len(tokens) \in DOMAIN tokens
    BY <1>1, <1>3 DEF TypeOK
  <2>2. QED
    BY <1>1, <1>3, <2>1 DEF LastEnd, TypeOK
<1>4. QED
  BY <1>1, <1>2, <1>3

\* The places that the invariant relates.
LEMMA PlaceTypes ==
  ASSUME LexerInv
  PROVE  /\ LastEnd \in Nat \ {0} /\ start.position \in Nat \ {0}
         /\ here.position \in Nat \ {0} /\ LastEnd <= here.position
         /\ Running => LastEnd <= start.position /\ start.position <= here.position
  BY LastEndType DEF LexerInv, TypeOK, Locations, TokensInOrder, Since

LEMMA GoesOnWhite ==
  ASSUME LexerInv, GoesOn
  PROVE  white' \in BOOLEAN /\ FlagIsWhiteSpace'
<1>. DEFINE white_to(q) == WhiteBetween(LastEnd, q)
<1>1. /\ white \in BOOLEAN /\ mode # "done"
      /\ white <=> tokens = <<>> \/ white_to(here.position)
  BY DEF LexerInv, TypeOK, FlagIsWhiteSpace, GoesOn
<1>2. /\ white' \in BOOLEAN
      /\ white' <=> tokens = <<>> \/ white_to(here'.position)
  <2>1. CASE Stays
    BY <1>1, <2>1 DEF Stays
  <2>2. CASE ReadsOne
    <3>1. here'.position = here.position + 1
      BY <2>2 DEF ReadsOne
    <3>2. white_to(here.position + 1) <=>
            white_to(here.position) \/ input[here.position] \in Whitespace
      BY PlaceTypes DEF WhiteBetween
    <3>3. white' = (white \/ input[here.position] \in Whitespace)
      BY <2>2 DEF ReadsOne
    <3>. HIDE DEF white_to
    <3>4. QED
      BY <1>1, <3>1, <3>2, <3>3
  <2>3. ASSUME NEW n \in {1, 2}, ReadsPlain(n)
        PROVE  white' = white /\ (white_to(here'.position) <=> white_to(here.position))
    <3>1. here'.position = here.position + n /\ white' = white
      BY <2>3 DEF ReadsPlain
    <3>2. white_to(here.position + n) <=> white_to(here.position)
      BY <2>3, PlaceTypes DEF WhiteBetween, ReadsPlain
    <3>3. QED
      BY <3>1, <3>2
  <2>4. CASE GoesBack
    <3>1. ~ WhiteBetween(start.position, here.position) /\ Running
      BY <2>4 DEF LexerInv, OperatorIsPlain, GoesBack, Running, Modes
    <3>2. white_to(here.position) <=> white_to(start.position)
      BY <3>1, PlaceTypes DEF WhiteBetween
    <3>3. QED
      BY <1>1, <2>4, <3>2 DEF GoesBack
  <2>5. QED
    <3>. HIDE DEF white_to
    <3>1. QED
      BY <1>1, <2>1, <2>2, <2>3, <2>4 DEF GoesOn
<1>3. LastEnd' = LastEnd /\ tokens' = tokens /\ input' = input
  BY DEF GoesOn, LastEnd
<1>4. WhiteBetween(LastEnd, here.position)' <=> white_to(here'.position)
  BY <1>3 DEF WhiteBetween
<1>5. QED
  <2>. HIDE DEF white_to
  <2>1. QED
    BY <1>2, <1>3, <1>4 DEF FlagIsWhiteSpace

LEMMA GoesOnKeeps ==
  ASSUME LexerInv, GoesOn
  PROVE  /\ TypeOK' /\ LocationsCorrect' /\ TokensInOrder' /\ FlagIsWhiteSpace'
         /\ Begun' /\ Since' /\ OperatorIsPlain'
<1>1. /\ tokens' = tokens /\ input' = input /\ failure' = failure /\ LastEnd' = LastEnd
      /\ mode \notin {"done", "failed"} /\ mode' \in Modes \ {"done", "failed"}
  BY DEF GoesOn, LastEnd
<1>2. here' \in Locations /\ here'.position <= Len(input) + 1
  BY PlaceNext, LocationType, InputIsText DEF LexerInv
<1>3. start' = start \/ (start' = here /\ mode = "token")
  BY DEF GoesOn
<1>4. TypeOK'
  BY <1>1, <1>2, <1>3, GoesOnWhite DEF LexerInv, TypeOK
<1>5. LocationsCorrect'
  BY <1>1, <1>3, PlaceNext DEF LexerInv, LocationsCorrect
<1>6. mode # "token" => Running
  BY <1>1 DEF LexerInv, TypeOK, Running
<1>7. LastEnd <= here'.position
  BY <1>6, PlaceTypes, PlaceNext DEF GoesBack
<1>8. TokensInOrder'
  BY <1>1, <1>7 DEF LexerInv, TokensInOrder
<1>9. Since'
  <2>1. CASE mode = "token"
    <3>1. ~ GoesBack /\ here'.position >= here.position
      BY <2>1, PlaceNext DEF GoesBack
    <3>2. mode' # "token" => start' = here
      BY <2>1 DEF GoesOn
    <3>3. QED
      BY <1>1, <3>1, <3>2, PlaceTypes DEF Since, Running
  <2>2. CASE mode # "token"
    <3>1. start' = start
      BY <2>2 DEF GoesOn
    <3>2. start.position <= here'.position
      BY <1>6, <2>2, PlaceTypes, PlaceNext DEF GoesBack
    <3>3. QED
      BY <1>1, <1>6, <2>2, <3>1, <3>2, PlaceTypes DEF Since, Running
  <2>3. QED
    BY <2>1, <2>2
<1>10. OperatorIsPlain'
  <2>1. SUFFICES ASSUME mode' = "operator" PROVE ~ WhiteBetween(start'.position, here'.position)
    BY <1>1 DEF OperatorIsPlain, WhiteBetween
  <2>2. /\ here'.position = here.position + 1 /\ input[here.position] \notin Whitespace
        /\ mode \in {"token", "operator"}
    BY <2>1 DEF GoesOn, ReadsOne
  <2>3. CASE mode = "token"
    <3>1. start' = here
      BY <2>1, <2>3 DEF GoesOn
    <3>2. QED
      BY <2>2, <3>1, PlaceTypes DEF WhiteBetween
  <2>4. CASE mode = "operator"
    <3>1. start' = start /\ ~ WhiteBetween(start.position, here.position) /\ Running
      BY <1>6, <2>4 DEF GoesOn, LexerInv, OperatorIsPlain
    <3>2. QED
      BY <2>2, <3>1, PlaceTypes DEF WhiteBetween
  <2>5. QED
    BY <2>2, <2>3, <2>4
<1>11. QED
  BY <1>4, <1>5, <1>8, <1>9, <1>10, GoesOnWhite DEF GoesOn

LEMMA AppendKeeps ==
  ASSUME LexerInv, NEW token, tokens' = Append(tokens, token),
         token.location \in {here, start}, token.end = here.position,
         LastEnd <= token.location.position,
         token.type # <<"END_OF_FILE">> => token.location.position < token.end,
         mode' \in {"token", "done"}, white' = FALSE,
         UNCHANGED <<input, here, start, failure>>
  PROVE  /\ TypeOK' /\ LocationsCorrect' /\ TokensInOrder' /\ FlagIsWhiteSpace'
         /\ Begun' /\ Since' /\ OperatorIsPlain'
<1>1. /\ Len(tokens) \in Nat /\ Len(tokens') = Len(tokens) + 1
      /\ DOMAIN tokens = 1 .. Len(tokens) /\ DOMAIN tokens' = 1 .. Len(tokens) + 1
      /\ tokens'[Len(tokens) + 1] = token
      /\ \A i \in 1 .. Len(tokens) : tokens'[i] = tokens[i]
      /\ tokens' # <<>> /\ tokens' \in Seq(Range(tokens'))
  <2>1. tokens \in Seq(Range(tokens))
    BY DEF LexerInv, TypeOK
  <2>2. Len(tokens) \in Nat /\ Len(tokens') = Len(tokens) + 1
    BY <2>1, AppendOne
  <2>3. DOMAIN tokens = 1 .. Len(tokens) /\ DOMAIN tokens' = 1 .. Len(tokens) + 1
    BY <2>1, AppendOne
  <2>4. tokens'[Len(tokens')] = token
    BY <2>1, AppendOne
  <2>5. \A i \in 1 .. Len(tokens) : tokens'[i] = tokens[i]
    BY <2>1, AppendOne
  <2>6. tokens' # <<>> /\ tokens' \in Seq(Range(tokens'))
    BY <2>1, AppendOne
  <2>7. QED
    BY <2>2, <2>3, <2>4, <2>5, <2>6
<1>2. LastEnd' = here.position
  BY <1>1 DEF LastEnd
<1>3. /\ here \in Locations /\ start \in Locations /\ here.position \in Nat \ {0}
      /\ here.position <= Len(input) + 1 /\ Len(input) \in Nat
  BY InputIsText DEF LexerInv, TypeOK
<1>4. TypeOK'
  <2>1. token.location \in Locations /\ token.end \in 1 .. Len(input) + 1
    BY <1>3
  <2>2. \A i \in DOMAIN tokens' :
           tokens'[i].location \in Locations /\ tokens'[i].end \in 1 .. Len(input) + 1
    BY <1>1, <2>1 DEF LexerInv, TypeOK
  <2>3. QED
    BY <1>1, <1>3, <2>2 DEF LexerInv, TypeOK, Modes
<1>5. LocationsCorrect'
  <2>1. token.location = LocationIn(input, token.location.position)
    BY DEF LexerInv, LocationsCorrect
  <2>2. \A i \in DOMAIN tokens' :
           tokens'[i].location = LocationIn(input, tokens'[i].location.position)
    BY <1>1, <2>1 DEF LexerInv, LocationsCorrect
  <2>3. QED
    BY <2>2 DEF LexerInv, LocationsCorrect
<1>6. TokensInOrder'
  <2>1. \A i \in DOMAIN tokens' : tokens'[i].type # <<"END_OF_FILE">> =>
                                    tokens'[i].location.position < tokens'[i].end
    BY <1>1 DEF LexerInv, TokensInOrder
  <2>2. \A i \in DOMAIN tokens' : i > 1 => tokens'[i - 1].end <= tokens'[i].location.position
    <3>1. TAKE i \in DOMAIN tokens'
    <3>2. CASE i \in 1 .. Len(tokens)
      <4>1. i > 1 => i - 1 \in 1 .. Len(tokens)
        BY <1>1, <3>2
      <4>2. QED
        BY <1>1, <3>2, <4>1 DEF LexerInv, TokensInOrder
    <3>3. CASE i = Len(tokens) + 1 /\ i > 1
      <4>1. i - 1 = Len(tokens) /\ Len(tokens) \in 1 .. Len(tokens) /\ tokens # <<>>
        BY <1>1, <3>3
      <4>2. tokens'[i - 1].end = LastEnd /\ tokens'[i] = token
        BY <1>1, <3>3, <4>1 DEF LastEnd
      <4>3. QED
        BY <4>2
    <3>4. QED
      BY <1>1, <3>2, <3>3
  <2>3. LastEnd' <= here'.position
    BY <1>2, <1>3
  <2>4. QED
    BY <2>1, <2>2, <2>3 DEF TokensInOrder
<1>7. FlagIsWhiteSpace'
  <2>1. ~ WhiteBetween(LastEnd, here.position)'
    BY <1>2, <1>3 DEF WhiteBetween
  <2>2. QED
    BY <1>1, <2>1 DEF FlagIsWhiteSpace
<1>8. Begun' /\ Since' /\ OperatorIsPlain'
  BY DEF Begun, Since, OperatorIsPlain, Running, Consumed
<1>9. QED
  BY <1>4, <1>5, <1>6, <1>7, <1>8

LEMMA FailsKeeps ==
  ASSUME LexerInv, Fails
  PROVE  /\ TypeOK' /\ LocationsCorrect' /\ TokensInOrder' /\ FlagIsWhiteSpace'
         /\ Begun' /\ Since' /\ OperatorIsPlain'
<1>1. /\ tokens' = tokens /\ input' = input /\ start' = start /\ LastEnd' = LastEnd
      /\ mode' = "failed" /\ mode # "done" /\ ~ (ReadsOne /\ Stays)
      /\ failure'.location = here' \/ failure'.location = start
  BY PlaceTypes DEF Fails, LastEnd, ReadsOne, Stays
<1>2. here' \in Locations /\ here'.position <= Len(input) + 1
  BY PlaceNext, LocationType, InputIsText DEF LexerInv
<1>3. LastEnd <= here'.position
  BY PlaceTypes DEF Fails, Stays, ReadsOne
<1>4. white' \in BOOLEAN
  BY DEF Fails, Stays, ReadsOne, LexerInv, TypeOK
<1>5. TypeOK'
  BY <1>1, <1>2, <1>4 DEF Fails, LexerInv, TypeOK, Modes
<1>6. LocationsCorrect'
  BY <1>1, PlaceNext DEF LexerInv, LocationsCorrect
<1>7. TokensInOrder'
  BY <1>1, <1>3 DEF LexerInv, TokensInOrder
<1>8. FlagIsWhiteSpace'
  <2>1. white <=> tokens = <<>> \/ WhiteBetween(LastEnd, here.position)
    BY <1>1 DEF LexerInv, FlagIsWhiteSpace
  <2>2. white' <=> tokens = <<>> \/ WhiteBetween(LastEnd, here'.position)
    <3>1. CASE Stays
      BY <2>1, <3>1 DEF Stays
    <3>2. CASE ReadsOne
      <4>1. WhiteBetween(LastEnd, here.position + 1) <=>
              WhiteBetween(LastEnd, here.position) \/ input[here.position] \in Whitespace
        BY PlaceTypes DEF WhiteBetween
      <4>2. QED
        BY <2>1, <3>2, <4>1 DEF ReadsOne
    <3>3. QED
      BY <3>1, <3>2 DEF Fails
  <2>3. WhiteBetween(LastEnd, here.position)' <=> WhiteBetween(LastEnd, here'.position)
    BY <1>1 DEF WhiteBetween
  <2>4. QED
    BY <1>1, <2>2, <2>3 DEF FlagIsWhiteSpace
<1>9. Begun' /\ Since' /\ OperatorIsPlain'
  BY <1>1 DEF Begun, Since, OperatorIsPlain, Running, Consumed
<1>10. QED
  BY <1>5, <1>6, <1>7, <1>8, <1>9

LEMMA ReaderNext == ASSUME reader \in Readers, Next PROVE reader' \in Readers
<1>1. ASSUME TextStep PROVE reader' \in Readers
  <2>1. CASE StringStep
    BY <2>1 DEF StringStep, OpeningQuote, EmptyString, OpenString, StringChar, StringReturn,
                StringQuote, CloseString, StringError, textVars
  <2>2. ASSUME Backslash PROVE reader' \in Readers
    BY <2>2 DEF Backslash, Readers
  <2>3. CASE EscapeStep
    BY <2>2, <2>3 DEF EscapeStep, SimpleEscape, EscapedLineEnd, AfterEscapedReturn,
                HexEscape, HexChar, NotHexChar, EscapeError, textVars
  <2>4. CASE CharStep
    BY <2>4 DEF CharStep, CharContent, NextByte, ByteEscape, NotByteEscape, ClosingQuote,
                CloseChar, NotOneCodePoint, CharError, textVars
  <2>5. CASE QuotedStep
    BY <2>5 DEF QuotedStep, QuotedChar, ClosingBacktick, CloseQuotedIdent, QuotedError, textVars
  <2>6. QED
    BY <1>1, <2>1, <2>3, <2>4, <2>5 DEF TextStep
<1>2. ASSUME TokenStep PROVE reader' = reader
  BY <1>2 DEF TokenStep, EndOfFile, SkipWhitespace, BeginOperator, BeginNumber, BeginWord,
              BeginString, BeginQuotes, BeginLiteral, UnexpectedCharacter, textVars
<1>3. ASSUME OperatorStep \/ CommentStep PROVE reader' = reader
  BY <1>3 DEF OperatorStep, ReadOperator, PointBeforeDigit, CloseOperator, TwoPoints,
              PeekPastEnd, CommentStep, SkipLineComment, SkipBlockComment, CommentAtEnd, textVars
<1>4. ASSUME WordStep PROVE reader' = reader
  BY <1>4 DEF WordStep, RawString, BeginQuotes, NotRaw, ReadWord, CloseWord, textVars
<1>5. QED
  BY <1>1, <1>2, <1>3, <1>4 DEF Next, textVars

LEMMA LexerNext == LexerInv /\ [Next]_vars => LexerInv'
<1>1. ASSUME LexerInv, Next PROVE LexerInv'
  <2>1. reader' \in Readers
    BY <1>1, ReaderNext DEF LexerInv
  <2>2. Kind
    BY <1>1, Kinds DEF LexerInv, Ready
  <2>3. CASE GoesOn
    BY <1>1, <2>1, <2>3, GoesOnKeeps DEF LexerInv
  <2>4. CASE Emits
    <3>1. PICK type, no_w : tokens' = Append(tokens, Token(type, no_w))
      BY <2>4 DEF Emits
    <3>2. /\ Token(type, no_w).location = start /\ Token(type, no_w).end = here.position
          /\ start.position < here.position
      BY <2>4 DEF Emits, Token
    <3>3. LastEnd <= start.position
      BY <1>1, <2>4, PlaceTypes DEF Emits
    <3>4. mode' \in {"token", "done"} /\ white' = FALSE /\ UNCHANGED <<input, here, start, failure>>
      BY <2>4 DEF Emits
    <3>5. QED
      BY <1>1, <2>1, <3>1, <3>2, <3>3, <3>4, AppendKeeps DEF LexerInv
  <2>5. CASE Finishes
    <3>1. LastEnd <= here.position
      BY <1>1, PlaceTypes
    <3>2. QED
      BY <1>1, <2>1, <2>5, <3>1, AppendKeeps DEF Finishes, LexerInv
  <2>6. CASE Fails
    BY <1>1, <2>1, <2>6, FailsKeeps DEF LexerInv
  <2>7. QED
    BY <2>2, <2>3, <2>4, <2>5, <2>6 DEF Kind
<1>2. ASSUME LexerInv, UNCHANGED vars PROVE LexerInv'
  BY <1>2 DEF LexerInv, vars, sourceVars, resultVars, textVars, numberVars, TypeOK,
              LocationsCorrect, TokensInOrder, LastEnd, FlagIsWhiteSpace, WhiteBetween, Begun,
              HasDigits, Since, Running, Consumed, OperatorIsPlain
<1>3. QED
  BY <1>1, <1>2

-----------------------------------------------------------------------------
(* The theorems                                                            *)

\* The invariant holds in every state of every run, for every set of texts.
THEOREM LexerInvariant == Spec => []LexerInv
  BY LexerInit, LexerNext, PTL DEF Spec

\* read_file() never looks beyond the text: no place that it keeps or hands out
\* is behind the end, and m_result is a sequence of tokens with real places.
THEOREM LexerTypeCorrect == Spec => []TypeOK
  BY LexerInvariant, PTL DEF LexerInv

\* m_line and m_column, which next() and set_location() keep up to date step by
\* step, are the true ones for every text, in tokens and in errors.
THEOREM PlacesAreTrue == Spec => []LocationsCorrect
  BY LexerInvariant, PTL DEF LexerInv

\* emit_token() is never called for an empty token or one that overlaps another.
THEOREM TokensComeInOrder == Spec => []TokensInOrder
  BY LexerInvariant, PTL DEF LexerInv

\* m_previous_char_was_whitespace, set by next() in every read function and reset
\* by emit_token(), says of every text whether it has white space behind the
\* last token.
THEOREM FlagIsRight == Spec => []FlagIsWhiteSpace
  BY LexerInvariant, PTL DEF LexerInv

-----------------------------------------------------------------------------
(* What becomes of the characters                                          *)

CommentModes == {"line_comment", "block_comment", "star"}

\* The inductive invariant, in parts.  What is behind the last token is blank, up to
\* the token or comment that is being read; ...
BlankSoFar ==
  /\ mode = "token" => Blank(LastEnd, here.position)
  /\ Running => Blank(LastEnd, start.position)

\* ... what has been read of a comment begins one and does not end it, and behind
\* a star a slash would; ...
CommentSoFar ==
  mode \in CommentModes =>
    /\ start.position + 2 <= here.position
    /\ input[start.position] = "/"
    /\ input[start.position + 1] = IF mode = "line_comment" THEN "/" ELSE "*"
    /\ \A k \in start.position + 2 .. here.position - 1 : ~ CommentEnds(start.position, k)
    /\ mode # "line_comment" =>
         (mode = "star" <=> /\ start.position + 2 < here.position
                            /\ input[here.position - 1] = "*")

\* ... a word has nothing white in it, ...
WordSoFar ==
  mode \in {"raw", "word"} =>
    \A i \in start.position .. here.position - 1 : input[i] \in WordContinue

\* ... and of the operators that must touch what is before them none has been begun
\* behind white space.
TouchesSoFar ==
  mode = "operator" /\ white => Read \notin {<<"?">>, <<":", ":">>}

GapInv ==
  /\ GapsAreBlank /\ NoWMeansTouching
  /\ BlankSoFar /\ CommentSoFar /\ WordSoFar /\ TouchesSoFar

\* The SMT translation knows no string with this character: it is not expanded there.
DoubleQuote == "\""

StringModes == {"string", "string_end"}
InString ==
  mode \in StringModes \/ (mode \in {"escape", "escaped_return", "hex"} /\ reader = "string")

\* Where the text of a string begins, and a text without escapes and returns.
Opening == start.position + (IF quote.raw THEN 1 ELSE 0) + quote.count
Verbatim(first, end) ==
  \A i \in first .. end - 1 : input[i] # "\r" /\ (input[i] = "\\" => quote.raw)

\* The inductive invariant of strings, in parts.  What is kept, ...
Kept ==
  /\ scratch \in Seq(Range(scratch))
  /\ quote \in [raw : BOOLEAN, count : Nat, row : Nat]

\* ... the quotes that have been counted, ...
QuotesSoFar ==
  /\ mode = "raw" => here.position = start.position + 1
  /\ mode = "quotes" => scratch = <<>> /\ quote.row = 0 /\ here.position = Opening
  /\ InString => quote.count \in {1, 3} /\ Opening <= here.position
  /\ IF mode = "string_end" THEN quote.row = quote.count ELSE InString => quote.row < quote.count

\* ... an escape sequence in a string is seen in its text, ...
EscapeSoFar ==
  /\ InString /\ mode \notin StringModes => ~ Verbatim(start.position, here.position)
  /\ mode \in {"char_bytes", "char_byte"} => reader = "char"

\* ... and what is kept of the text of a string is what has been read of it, but for
\* the quotes in a row at the end of it.
BodySoFar ==
  mode \in StringModes /\ Verbatim(start.position, here.position) =>
    /\ Opening + Len(scratch) + quote.row = here.position
    /\ \A i \in 1 .. Len(scratch) : scratch[i] = <<input[Opening + i - 1]>>
    /\ \A i \in Opening + Len(scratch) .. here.position - 1 : input[i] = DoubleQuote

StringInv == Kept /\ QuotesSoFar /\ EscapeSoFar /\ BodySoFar /\ StringIsItsText

-----------------------------------------------------------------------------
(* The text read so far, and blank text                                    *)

LEMMA SubText ==
  ASSUME NEW text \in Seq(STRING), NEW p \in Nat \ {0}, NEW q \in Nat, p <= q, q <= Len(text) + 1
  PROVE  /\ Len(SubSeq(text, p, q - 1)) = q - p
         /\ \A i \in 1 .. q - p : SubSeq(text, p, q - 1)[i] = text[p + i - 1]
<1>1. \A i \in p .. q - 1 : text[i] \in STRING
  OBVIOUS
<1>2. /\ Len(SubSeq(text, p, q - 1)) = IF p <= q - 1 THEN q - 1 - p + 1 ELSE 0
      /\ \A i \in 1 .. q - 1 - p + 1 : SubSeq(text, p, q - 1)[i] = text[p + i - 1]
  BY <1>1, SubSeqProperties
<1>. QED  BY <1>2

\* The characters of what has been read of a token.
LEMMA ReadCharacters ==
  ASSUME LexerInv, Running
  PROVE  /\ Len(Read) = here.position - start.position
         /\ \A i \in 1 .. Len(Read) : Read[i] = input[start.position + i - 1]
         /\ start.position \in Nat \ {0} /\ here.position \in Nat \ {0}
         /\ start.position <= here.position
         /\ here.position <= Len(input) + 1 /\ Len(input) \in Nat
<1>1. /\ start.position \in Nat \ {0} /\ here.position \in Nat \ {0}
      /\ start.position <= here.position
  BY PlaceTypes
<1>2. input \in Seq(STRING) /\ here.position <= Len(input) + 1 /\ Len(input) \in Nat
  BY InputIsText DEF LexerInv, TypeOK
<1>3. Read = SubSeq(input, start.position, here.position - 1)
  BY DEF Read, substr_after, substr
<1>. QED  BY <1>1, <1>2, <1>3, SubText, SMTT(30)

\* Texts of one and two characters that are spelt out.
LEMMA OneCharacter ==
  ASSUME LexerInv, Running, NEW c, Read = <<c>>
  PROVE  here.position = start.position + 1 /\ input[start.position] = c
<1>1. Len(Read) = 1 /\ Read[1] = c
  OBVIOUS
<1>. QED  BY <1>1, ReadCharacters

LEMMA TwoCharacters ==
  ASSUME LexerInv, Running, NEW c, NEW d, Read = <<c, d>>
  PROVE  /\ here.position = start.position + 2
         /\ input[start.position] = c /\ input[start.position + 1] = d
<1>1. Len(Read) = 2 /\ Read[1] = c /\ Read[2] = d
  OBVIOUS
<1>. QED  BY <1>1, ReadCharacters

LEMMA BlankNothing == ASSUME NEW p \in Nat PROVE Blank(p, p)
<1>1. {p} \in SUBSET (p .. p) /\ p \in {p}
  OBVIOUS
<1>. QED  BY <1>1 DEF Blank

\* One more white character or comment.
LEMMA BlankMore ==
  ASSUME NEW first \in Nat, NEW p \in Nat, NEW q \in Nat, p < q, Blank(first, p),
         (q = p + 1 /\ input[p] \in Whitespace) \/ Comment(p, q)
  PROVE  Blank(first, q)
<1>1. PICK cuts \in SUBSET (first .. p) :
        /\ first \in cuts
        /\ \A i \in cuts \ {p} : \E j \in cuts :
             (j = i + 1 /\ input[i] \in Whitespace) \/ Comment(i, j)
  BY DEF Blank
<1>. DEFINE more == cuts \cup {q}
<1>2. first <= p
  BY <1>1
<1>3. more \in SUBSET (first .. q) /\ first \in more
  BY <1>1, <1>2
<1>4. ASSUME NEW i \in more \ {q}
      PROVE  \E j \in more : (j = i + 1 /\ input[i] \in Whitespace) \/ Comment(i, j)
  <2>1. CASE i = p
    BY <2>1
  <2>2. CASE i # p
    BY <1>1, <1>4, <2>2
  <2>. QED  BY <2>1, <2>2
<1>. QED  BY <1>3, <1>4 DEF Blank

-----------------------------------------------------------------------------
(* Tokens that are emitted                                                 *)

Touches == tokens # <<>> /\ ~ WhiteBetween(LastEnd, start.position)

\* Of what type a token is.
EmitsRight ==
  \E type, no_w :
    /\ Emit(type, no_w)
    /\ type # <<"END_OF_FILE">>
    /\ no_w => Touches
    /\ type \in OfTwoTypes => (no_w <=> Touches)

\* While nothing white has been read of the token, the flag tells.
LEMMA Touching ==
  ASSUME LexerInv, Running
  PROVE  /\ ~ white => Touches
         /\ ~ WhiteBetween(start.position, here.position) => (Touches <=> ~ white)
<1>1. white <=> tokens = <<>> \/ WhiteBetween(LastEnd, here.position)
  BY DEF LexerInv, FlagIsWhiteSpace, Running
<1>2. WhiteBetween(LastEnd, here.position) <=>
        WhiteBetween(LastEnd, start.position) \/ WhiteBetween(start.position, here.position)
  BY PlaceTypes DEF WhiteBetween
<1>. QED  BY <1>1, <1>2 DEF Touches

\* The types with names, but for identifiers, do not come in two variants.
LEMMA OneType ==
  ASSUME LexerInv, Running, NEW type \in Names \ {<<"IDENTIFIER">>, <<"END_OF_FILE">>},
         NEW no_w, Emit(type, no_w), no_w => ~ white
  PROVE  EmitsRight
<1>1. type \notin OfTwoTypes /\ type # <<"END_OF_FILE">>
  BY DEF Names, OfTwoTypes
<1>. QED  BY <1>1, Touching DEF EmitsRight

LEMMA TextEmits == ASSUME LexerInv, TextStep PROVE tokens' = tokens \/ EmitsRight
<1>. USE DEF Throw, resultVars
<1>1. StringStep => tokens' = tokens \/ (Running /\ Emit(<<"STRING_LITERAL">>, FALSE))
  BY DEF StringStep, OpeningQuote, EmptyString, OpenString, StringChar, StringReturn,
         StringQuote, CloseString, StringError, Running, Modes
<1>2. EscapeStep => tokens' = tokens
  BY DEF EscapeStep, Backslash, SimpleEscape, EscapedLineEnd, AfterEscapedReturn,
         HexEscape, HexChar, NotHexChar, EscapeError
<1>3. CharStep => tokens' = tokens \/ (Running /\ Emit(<<"CHAR_LITERAL">>, FALSE))
  BY DEF CharStep, CharContent, NextByte, ByteEscape, NotByteEscape, ClosingQuote,
         CloseChar, NotOneCodePoint, CharError, Running, Modes
<1>4. QuotedStep => tokens' = tokens \/ (Running /\ Emit(<<"QUOTED_IDENTIFIER">>, ~ white))
  BY DEF QuotedStep, QuotedChar, ClosingBacktick, CloseQuotedIdent, QuotedError, Running, Modes
<1>. QED  BY <1>1, <1>2, <1>3, <1>4, OneType DEF TextStep, Names

LEMMA NumberEmits == ASSUME LexerInv, NumberStep PROVE tokens' = tokens \/ EmitsRight
<1>1. CASE CloseNumber
  <2>1. Running
    BY <1>1 DEF CloseNumber, EndOfNumber, EndOfMantissa, Running, Modes
  <2>2. CASE NumericField
    BY <1>1, <2>1, <2>2, OneType DEF CloseNumber, NumericField, Names
  <2>3. CASE ~ NumericField
    BY <1>1, <2>1, <2>3, OneType DEF CloseNumber, Names
  <2>. QED  BY <2>2, <2>3
<1>2. CASE ~ CloseNumber
  BY <1>2 DEF NumberStep, NoBasePrefix, ReadBasePrefix, AssumeOctal, ReadDigit,
     ReadUnderscore, DigitError, ReadPoint, ReadExponentMark, ReadExponentSign,
     BeginExponentDigits, ExponentError, NoDigits, Throw, resultVars
<1>. QED  BY <1>1, <1>2

\* The variant of an operator is chosen by the flag, and where it has to touch it does.
LEMMA OperatorEmits ==
  ASSUME LexerInv, TouchesSoFar, OperatorStep PROVE tokens' = tokens \/ EmitsRight
<1>1. CASE CloseOperator
  <2>1. /\ mode = "operator" /\ Running /\ Read \in Operators
        /\ Emit(Read, NoW(Read))
    BY <1>1 DEF CloseOperator, OperatorEnds, Running, Modes
  <2>2. Touches <=> ~ white
    BY <2>1, Touching DEF LexerInv, OperatorIsPlain
  <2>3. Read \notin Names
    BY <2>1, OperatorSpelling
  <2>4. NoW(Read) => Touches
    BY <2>1, <2>2 DEF NoW, TouchesSoFar
  <2>5. Read \in OfTwoTypes => (NoW(Read) <=> Touches)
    BY <2>2, <2>3, <2>4 DEF OfTwoTypes, Names, NoW
  <2>. QED  BY <2>1, <2>3, <2>4, <2>5 DEF EmitsRight, Names
<1>2. CASE ~ CloseOperator
  BY <1>2 DEF OperatorStep, ReadOperator, PointBeforeDigit, TwoPoints, PeekPastEnd, Throw,
              ThrowPastEnd, resultVars
<1>. QED  BY <1>1, <1>2

LEMMA WordEmits ==
  ASSUME LexerInv, WordSoFar, WordStep PROVE tokens' = tokens \/ EmitsRight
<1>1. CASE CloseWord
  <2>1. mode = "word" /\ Running
    BY <1>1 DEF CloseWord, Running, Modes
  <2>2. WordContinue \cap Whitespace = {}
    BY DEF WordContinue, WordStart, Letters, SmallHex, BigHex, Digits, Whitespace
  <2>3. Touches <=> ~ white
    BY <2>1, <2>2, Touching DEF WordSoFar, WhiteBetween
  <2>4. CASE Read \in ReservedWords
    <3>1. Emit(Read, FALSE) /\ Read \notin Names
      BY <1>1, <2>4, KeywordsHaveNoNames DEF CloseWord
    <3>2. Read[1] \in WordContinue /\ Len(Read) > 0
      <4>1. start.position < here.position
        BY <2>1 DEF LexerInv, Begun, Consumed, Modes
      <4>2. input[start.position] \in WordContinue
        BY <2>1, <4>1, PlaceTypes DEF WordSoFar
      <4>. QED  BY <2>1, <4>1, <4>2, ReadCharacters
    <3>3. {"(", "[", "!", "+", "-"} \cap WordContinue = {}
      BY DEF WordContinue, WordStart, Letters, SmallHex, BigHex, Digits
    <3>4. Read \notin OfTwoTypes
      BY <3>1, <3>2, <3>3 DEF OfTwoTypes, Names
    <3>. QED  BY <3>1, <3>4 DEF EmitsRight, Names
  <2>5. CASE Read \notin ReservedWords
    <3>1. Emit(<<"IDENTIFIER">>, ~ white)
      BY <1>1, <2>5 DEF CloseWord
    <3>. QED  BY <2>3, <3>1 DEF EmitsRight
  <2>. QED  BY <2>4, <2>5
<1>2. CASE ~ CloseWord
  BY <1>2 DEF WordStep, RawString, BeginQuotes, NotRaw, ReadWord, resultVars
<1>. QED  BY <1>1, <1>2

LEMMA StepEmits ==
  ASSUME LexerInv, GapInv, Next PROVE tokens' = tokens \/ EmitsRight \/ EndOfFile
<1>1. CASE TokenStep
  BY <1>1 DEF TokenStep, SkipWhitespace, BeginOperator, BeginNumber, BeginWord, BeginString,
     BeginQuotes, BeginLiteral, UnexpectedCharacter, Throw, resultVars
<1>2. CASE CommentStep
  BY <1>2 DEF CommentStep, SkipLineComment, SkipBlockComment, CommentAtEnd, resultVars
<1>. QED
  BY <1>1, <1>2, TextEmits, NumberEmits, OperatorEmits, WordEmits DEF Next, GapInv

-----------------------------------------------------------------------------
(* What is being read                                                      *)

LEMMA OtherModes ==
  ASSUME reader \in Readers, TextStep \/ NumberStep
  PROVE  mode' \notin CommentModes \cup {"raw", "word", "operator"}
<1>. USE DEF CommentModes, Throw, Emit, Readers
<1>1. CASE StringStep
  BY <1>1 DEF StringStep, OpeningQuote, EmptyString, OpenString, StringChar, StringReturn,
              StringQuote, CloseString, StringError
<1>2. CASE EscapeStep
  BY <1>2 DEF EscapeStep, Backslash, SimpleEscape, EscapedLineEnd, AfterEscapedReturn,
              HexEscape, HexChar, NotHexChar, EscapeError, Resume
<1>3. CASE CharStep
  BY <1>3 DEF CharStep, CharContent, NextByte, ByteEscape, NotByteEscape, ClosingQuote,
              CloseChar, NotOneCodePoint, CharError
<1>4. CASE QuotedStep
  BY <1>4 DEF QuotedStep, QuotedChar, ClosingBacktick, CloseQuotedIdent, QuotedError
<1>5. CASE NumberStep
  BY <1>5 DEF NumberStep, NoBasePrefix, ReadBasePrefix, AssumeOctal, ReadDigit, InDigits,
     ReadUnderscore, DigitError, ReadPoint, ReadExponentMark, ReadExponentSign,
     BeginExponentDigits, ExponentError, CloseNumber, NoDigits
<1>. QED  BY <1>1, <1>2, <1>3, <1>4, <1>5 DEF TextStep

LEMMA CommentNext == ASSUME LexerInv, GapInv, Next PROVE CommentSoFar'
<1>. USE DEF CommentModes
<1>1. ASSUME ReadOperator PROVE CommentSoFar'
  <2>1. /\ mode = "operator" /\ Running /\ UNCHANGED <<start, input>> /\ ReadsOne
        /\ peek = input[here.position]
        /\ \/ Read = <<"/">> /\ peek = "/" /\ mode' = "line_comment"
           \/ Read = <<"/">> /\ peek = "*" /\ mode' = "block_comment"
           \/ mode' = "operator"
    BY <1>1, Reading DEF ReadOperator, LexerInv, Running, Modes
  <2>2. SUFFICES ASSUME Read = <<"/">> PROVE CommentSoFar'
    BY <2>1 DEF CommentSoFar
  <2>3. here.position = start.position + 1 /\ input[start.position] = "/"
    BY <2>1, <2>2, OneCharacter
  <2>4. here'.position = start.position + 2 /\ start.position \in Nat
    BY <2>1, <2>3, PlaceTypes DEF ReadsOne
  <2>. QED  BY <2>1, <2>3, <2>4 DEF CommentSoFar
<1>2. ASSUME SkipLineComment \/ SkipBlockComment PROVE CommentSoFar'
  <2>1. /\ mode \in CommentModes /\ Running /\ UNCHANGED <<start, input>>
        /\ here'.position = here.position + 1 /\ peek = input[here.position]
    BY <1>2, Reading
       DEF SkipLineComment, SkipBlockComment, LexerInv, Running, Modes, ReadsOne
  <2>2. /\ start.position \in Nat /\ here.position \in Nat
        /\ start.position + 2 <= here.position
        /\ input[start.position] = "/"
        /\ input[start.position + 1] = IF mode = "line_comment" THEN "/" ELSE "*"
        /\ \A k \in start.position + 2 .. here.position - 1 : ~ CommentEnds(start.position, k)
    BY <2>1, PlaceTypes DEF GapInv, CommentSoFar
  <2>3. CASE mode' = "token"
    BY <2>3 DEF CommentSoFar
  <2>4. CASE mode' # "token"
    <3>1. ~ CommentEnds(start.position, here.position)
      BY <1>2, <2>1, <2>2, <2>4
         DEF SkipLineComment, SkipBlockComment, CommentEnds, GapInv, CommentSoFar
    <3>2. \A k \in start.position + 2 .. here.position : ~ CommentEnds(start.position, k)
      BY <2>2, <3>1
    <3>3. \A k : CommentEnds(start.position, k)' <=> CommentEnds(start.position, k)
      BY <2>1 DEF CommentEnds
    <3>4. /\ mode' = "line_comment" <=> mode = "line_comment"
          /\ mode' # "line_comment" => (mode' = "star" <=> peek = "*")
      BY <1>2, <2>4 DEF SkipLineComment, SkipBlockComment
    <3>. QED  BY <2>1, <2>2, <3>2, <3>3, <3>4 DEF CommentSoFar
  <2>. QED  BY <2>3, <2>4
<1>3. CASE OperatorStep /\ ~ ReadOperator
  BY <1>3 DEF OperatorStep, PointBeforeDigit, CloseOperator, TwoPoints, PeekPastEnd, Throw,
              ThrowPastEnd, Emit, CommentSoFar
<1>4. CASE TokenStep
  BY <1>4 DEF TokenStep, EndOfFile, SkipWhitespace, BeginOperator, BeginNumber, BeginWord,
     BeginString, BeginLiteral, UnexpectedCharacter, Begin, Throw, CommentSoFar
<1>5. CASE WordStep
  BY <1>5 DEF WordStep, RawString, NotRaw, ReadWord, CloseWord, Emit, CommentSoFar
<1>6. CASE CommentAtEnd
  BY <1>6 DEF CommentAtEnd, CommentSoFar
<1>7. CASE TextStep \/ NumberStep
  BY <1>7, OtherModes DEF LexerInv, CommentSoFar
<1>. QED  BY <1>1, <1>2, <1>3, <1>4, <1>5, <1>6, <1>7 DEF Next, CommentStep

LEMMA WordNext == ASSUME LexerInv, GapInv, Next PROVE WordSoFar'
<1>1. ASSUME BeginWord PROVE WordSoFar'
  <2>1. /\ start' = here /\ input' = input /\ here'.position = here.position + 1
        /\ input[here.position] \in WordStart
    BY <1>1, Reading DEF BeginWord, Begin, LexerInv, ReadsOne
  <2>. QED  BY <2>1, PlaceTypes DEF WordSoFar, WordContinue
<1>2. ASSUME ReadWord PROVE WordSoFar'
  <2>1. /\ start' = start /\ input' = input /\ here'.position = here.position + 1
        /\ input[here.position] \in WordContinue /\ mode = "word"
    BY <1>2, Reading DEF ReadWord, LexerInv, ReadsOne
  <2>. QED  BY <2>1, PlaceTypes DEF WordSoFar, GapInv
<1>3. ASSUME NotRaw PROVE WordSoFar'
  BY <1>3 DEF NotRaw, GapInv, WordSoFar, sourceVars
<1>4. CASE RawString \/ CloseWord
  BY <1>4 DEF RawString, CloseWord, Emit, WordSoFar
<1>5. CASE TokenStep /\ ~ BeginWord
  BY <1>5 DEF TokenStep, EndOfFile, SkipWhitespace, BeginOperator, BeginNumber,
     BeginString, BeginLiteral, UnexpectedCharacter, Begin, Throw, WordSoFar
<1>6. CASE OperatorStep
  BY <1>6 DEF OperatorStep, ReadOperator, PointBeforeDigit, CloseOperator, TwoPoints,
              PeekPastEnd, Throw, ThrowPastEnd, Emit, WordSoFar
<1>7. CASE CommentStep
  BY <1>7 DEF CommentStep, SkipLineComment, SkipBlockComment, CommentAtEnd, WordSoFar
<1>8. CASE TextStep \/ NumberStep
  BY <1>8, OtherModes DEF LexerInv, WordSoFar
<1>. QED  BY <1>1, <1>2, <1>3, <1>4, <1>5, <1>6, <1>7, <1>8 DEF Next, WordStep

LEMMA TouchesNext == ASSUME LexerInv, GapInv, Next PROVE TouchesSoFar'
<1>1. SUFFICES ASSUME mode' = "operator", white'
               PROVE  Read' \notin {<<"?">>, <<":", ":">>}
  BY DEF TouchesSoFar
<1>2. BeginOperator \/ ReadOperator
  <2>1. ~ (TextStep \/ NumberStep)
    BY <1>1, OtherModes DEF LexerInv
  <2>. QED
    BY <1>1, <2>1 DEF Next, TokenStep, EndOfFile, SkipWhitespace, BeginNumber, BeginWord,
       BeginString, BeginLiteral, UnexpectedCharacter, Begin, Throw, WordStep, RawString,
       NotRaw, ReadWord, CloseWord, Emit, CommentStep, SkipLineComment, SkipBlockComment,
       CommentAtEnd, OperatorStep, PointBeforeDigit, CloseOperator, TwoPoints, PeekPastEnd,
       ThrowPastEnd
<1>3. PICK read : read = Read'
  OBVIOUS
<1>4. /\ Len(read) = here'.position - start'.position
      /\ \A i \in 1 .. Len(read) : read[i] = input'[start'.position + i - 1]
      /\ start'.position \in Nat \ {0} /\ here'.position \in Nat
  <2>1. LexerInv' /\ Running'
    BY <1>1, LexerNext DEF Running, Modes
  <2>2. /\ start'.position \in Nat \ {0} /\ here'.position \in Nat
        /\ start'.position <= here'.position
    BY <2>1 DEF LexerInv, TypeOK, Locations, Since
  <2>3. input' \in Seq(STRING) /\ here'.position <= Len(input') + 1
    BY <2>1, LexerAssumption DEF LexerInv, TypeOK
  <2>4. read = SubSeq(input', start'.position, here'.position - 1)
    BY <1>3 DEF Read, substr_after, substr
  <2>5. PICK text, p, q : text = input' /\ p = start'.position /\ q = here'.position
    OBVIOUS
  <2>6. /\ Len(SubSeq(text, p, q - 1)) = q - p
        /\ \A i \in 1 .. q - p : SubSeq(text, p, q - 1)[i] = text[p + i - 1]
    BY <2>2, <2>3, <2>5, SubText, SMTT(30)
  <2>. QED  BY <2>2, <2>4, <2>5, <2>6
<1>5. CASE BeginOperator
  <2>1. /\ start' = here /\ here'.position = here.position + 1 /\ input' = input
        /\ peek = input[here.position] /\ peek \in OperatorStart
        /\ white' = (white \/ peek \in Whitespace) /\ ~ (peek = "?" /\ white)
    BY <1>5, Reading DEF BeginOperator, Begin, Consume, LexerInv, ReadsOne
  <2>2. peek # "?"
    BY <1>1, <2>1 DEF OperatorStart, Whitespace
  <2>3. Len(read) = 1 /\ read[1] = peek
    BY <1>4, <2>1
  <2>4. ASSUME read = <<"?">> PROVE FALSE
    <3>1. read[1] = "?"
      BY <2>4
    <3>. QED  BY <2>2, <2>3, <3>1
  <2>5. ASSUME read = <<":", ":">> PROVE FALSE
    <3>1. Len(read) = 2
      BY <2>5
    <3>. QED  BY <2>3, <3>1
  <2>. QED  BY <1>3, <2>4, <2>5
<1>6. CASE ReadOperator
  <2>1. /\ mode = "operator" /\ Running /\ start' = start /\ input' = input
        /\ here'.position = here.position + 1 /\ peek = input[here.position]
        /\ white' = (white \/ peek \in Whitespace) /\ peek \in Continuations(Read)
        /\ Read = <<":">> => ~ white
        /\ start.position < here.position
    BY <1>6, Reading DEF ReadOperator, Continues, Consume, LexerInv, ReadsOne, Running,
       Modes, Begun, Consumed
  <2>2. PICK old : old = Read
    OBVIOUS
  <2>3. /\ Len(old) = here.position - start.position
        /\ \A i \in 1 .. Len(old) : old[i] = input[start.position + i - 1]
        /\ start.position \in Nat \ {0} /\ here.position \in Nat
    <3>1. /\ Len(Read) = here.position - start.position
          /\ \A i \in 1 .. Len(Read) : Read[i] = input[start.position + i - 1]
          /\ start.position \in Nat \ {0} /\ here.position \in Nat
      BY <2>1, ReadCharacters
    <3>. QED  BY <2>2, <3>1
  <2>4. /\ Len(read) # 1
        /\ Len(read) = 2 => Len(old) = 1 /\ here.position = start.position + 1
    <3>1. PICK p, q : p = start.position /\ q = here.position
      OBVIOUS
    <3>2. p \in Nat /\ q \in Nat /\ p < q /\ Len(old) = q - p /\ Len(read) = q + 1 - p
      BY <1>4, <2>1, <2>3, <3>1
    <3>. QED  BY <3>1, <3>2
  <2>5. ASSUME read = <<"?">> PROVE FALSE
    <3>1. Len(read) = 1
      BY <2>5
    <3>. QED  BY <2>4, <3>1
  <2>6. ASSUME read = <<":", ":">> PROVE FALSE
    <3>1. Len(read) = 2 /\ read[1] = ":" /\ read[2] = ":"
      BY <2>6
    <3>2. Len(old) = 1 /\ here.position = start.position + 1
      BY <2>4, <3>1
    <3>3. input[start.position] = ":" /\ peek = ":"
      BY <1>4, <2>1, <3>1, <3>2
    <3>4. old[1] = ":"
      BY <2>3, <3>2, <3>3
    <3>5. old \in Seq(STRING)
      <4>1. input \in Seq(STRING) /\ Len(input) \in Nat /\ here.position <= Len(input) + 1
        BY InputIsText DEF LexerInv, TypeOK
      <4>2. SubSeq(input, start.position, here.position - 1) \in Seq(STRING)
        BY <2>3, <4>1, SubSeqProperties
      <4>. QED  BY <2>2, <4>2 DEF Read, substr_after, substr
    <3>6. old = <<":">>
      BY <3>2, <3>4, <3>5
    <3>7. ":" \notin Whitespace
      BY DEF Whitespace
    <3>. QED  BY <1>1, <2>1, <2>2, <3>3, <3>6, <3>7
  <2>. QED  BY <1>3, <2>5, <2>6
<1>. QED  BY <1>2, <1>3, <1>5, <1>6

-----------------------------------------------------------------------------
(* What has been left behind                                               *)

LEMMA EmitsOne ==
  ASSUME LexerInv, NEW type, NEW no_w, Emit(type, no_w)
  PROVE  /\ tokens' # tokens
         /\ LastToken'.type = type
         /\ LastToken'.location = start /\ LastToken'.end = here.position
<1>1. tokens \in Seq(Range(tokens)) /\ tokens' = Append(tokens, Token(type, no_w))
  BY DEF LexerInv, TypeOK, Emit
<1>2. Len(tokens) \in Nat /\ Len(tokens') = Len(tokens) + 1
  BY <1>1, AppendOne
<1>3. tokens'[Len(tokens')] = Token(type, no_w)
  BY <1>1, AppendOne
<1>. QED  BY <1>2, <1>3 DEF LastToken, Token

LEMMA SameText == ASSUME input' = input PROVE \A p, q : Blank(p, q)' <=> Blank(p, q)
  BY DEF Blank, Comment, CommentEnds

\* Without a token, only white space and comments lead to the next.
LEMMA LeftBehind ==
  ASSUME LexerInv, Next, tokens' = tokens, mode' = "token"
  PROVE  SkipWhitespace \/ SkipLineComment \/ SkipBlockComment \/ CommentAtEnd
<1>. USE DEF Throw, resultVars
<1>1. ~ TextStep
  <2>1. ~ StringStep
    BY EmitsOne DEF StringStep, OpeningQuote, EmptyString, OpenString, StringChar,
       StringReturn, StringQuote, CloseString, StringError
  <2>2. ~ EscapeStep
    BY DEF EscapeStep, Backslash, SimpleEscape, EscapedLineEnd, AfterEscapedReturn,
           HexEscape, HexChar, NotHexChar, EscapeError, Resume, LexerInv, Readers
  <2>3. ~ CharStep
    BY EmitsOne DEF CharStep, CharContent, NextByte, ByteEscape, NotByteEscape, ClosingQuote,
           CloseChar, NotOneCodePoint, CharError
  <2>4. ~ QuotedStep
    BY EmitsOne DEF QuotedStep, QuotedChar, ClosingBacktick, CloseQuotedIdent, QuotedError
  <2>. QED  BY <2>1, <2>2, <2>3, <2>4 DEF TextStep
<1>2. ~ NumberStep
  BY EmitsOne DEF NumberStep, NoBasePrefix, ReadBasePrefix, AssumeOctal, ReadDigit, InDigits,
     ReadUnderscore, DigitError, ReadPoint, ReadExponentMark, ReadExponentSign,
     BeginExponentDigits, ExponentError, CloseNumber, NoDigits
<1>3. ~ OperatorStep /\ ~ WordStep
  BY EmitsOne DEF OperatorStep, ReadOperator, PointBeforeDigit, CloseOperator, TwoPoints,
     PeekPastEnd, ThrowPastEnd, WordStep, RawString, NotRaw, ReadWord, CloseWord
<1>4. TokenStep => SkipWhitespace
  BY DEF TokenStep, EndOfFile, BeginOperator, BeginNumber, BeginWord, BeginString,
         BeginLiteral, UnexpectedCharacter, Begin
<1>. QED  BY <1>1, <1>2, <1>3, <1>4 DEF Next, CommentStep

\* A comment that has been read is one.
LEMMA CommentIsRead ==
  ASSUME LexerInv, GapInv, mode' = "token",
         SkipLineComment \/ SkipBlockComment \/ CommentAtEnd
  PROVE  Comment(start.position, here'.position) /\ start.position < here'.position
<1>1. mode \in CommentModes /\ Running
  BY DEF SkipLineComment, SkipBlockComment, CommentAtEnd, CommentModes, Running, Modes
<1>2. /\ start.position \in Nat /\ here.position \in Nat /\ Len(input) \in Nat
      /\ start.position + 2 <= here.position /\ here.position <= Len(input) + 1
      /\ input[start.position] = "/"
      /\ input[start.position + 1] = IF mode = "line_comment" THEN "/" ELSE "*"
      /\ \A k \in start.position + 2 .. here.position - 1 : ~ CommentEnds(start.position, k)
  BY <1>1, PlaceTypes, InputIsText DEF GapInv, CommentSoFar, LexerInv, TypeOK
<1>3. CASE CommentAtEnd
  <2>1. here' = here /\ here.position = Len(input) + 1
    BY <1>2, <1>3 DEF CommentAtEnd, at_end, sourceVars
  <2>. QED  BY <1>2, <2>1 DEF Comment
<1>4. CASE SkipLineComment \/ SkipBlockComment
  <2>1. here'.position = here.position + 1 /\ peek = input[here.position]
    BY <1>4, Reading DEF SkipLineComment, SkipBlockComment, LexerInv, ReadsOne
  <2>2. CommentEnds(start.position, here.position)
    BY <1>2, <1>4, <2>1
       DEF SkipLineComment, SkipBlockComment, CommentEnds, GapInv, CommentSoFar, CommentModes
  <2>3. here'.position - 1 = here.position
    BY <1>2, <2>1
  <2>. QED  BY <1>2, <2>1, <2>2, <2>3 DEF Comment
<1>. QED  BY <1>3, <1>4

LEMMA BlankNext == ASSUME LexerInv, GapInv, Next PROVE BlankSoFar'
<1>1. Kind
  BY Kinds DEF LexerInv, Ready
<1>2. CASE Emits
  <2>1. PICK type, no_w : tokens' = Append(tokens, Token(type, no_w))
    BY <1>2 DEF Emits
  <2>2. LastEnd' = here.position
    <3>1. tokens \in Seq(Range(tokens))
      BY DEF LexerInv, TypeOK
    <3>2. tokens'[Len(tokens')] = Token(type, no_w) /\ tokens' # <<>>
      BY <2>1, <3>1, AppendOne
    <3>. QED  BY <3>2 DEF LastEnd, Token
  <2>3. mode' = "token" /\ here' = here /\ here.position \in Nat /\ input' = input
    BY <1>2, PlaceTypes DEF Emits
  <2>4. Blank(here.position, here.position)'
    BY <2>3, BlankNothing, SameText
  <2>. QED  BY <2>2, <2>3, <2>4 DEF BlankSoFar, Running
<1>3. CASE Finishes \/ Fails
  BY <1>3 DEF Finishes, Fails, BlankSoFar, Running
<1>4. CASE GoesOn
  <2>1. /\ tokens' = tokens /\ input' = input /\ LastEnd' = LastEnd
        /\ mode \notin {"done", "failed"} /\ mode' \in Modes \ {"done", "failed"}
        /\ mode # "token" => Running
    BY <1>4 DEF GoesOn, LastEnd, LexerInv, TypeOK, Running
  <2>2. CASE mode' # "token"
    <3>1. Blank(LastEnd, start'.position)
      BY <1>4, <2>1, <2>2 DEF GoesOn, GapInv, BlankSoFar
    <3>. QED  BY <2>1, <2>2, <3>1, SameText DEF BlankSoFar
  <2>3. CASE mode' = "token"
    <3>1. SUFFICES Blank(LastEnd, here'.position)
      BY <2>1, <2>3, SameText DEF BlankSoFar, Running
    <3>2. CASE SkipWhitespace
      <4>1. /\ mode = "token" /\ here'.position = here.position + 1
            /\ input[here.position] \in Whitespace
        BY <3>2, Reading DEF SkipWhitespace, LexerInv, ReadsOne
      <4>2. Blank(LastEnd, here.position)
        BY <4>1 DEF GapInv, BlankSoFar
      <4>. QED  BY <4>1, <4>2, PlaceTypes, BlankMore
    <3>3. CASE SkipLineComment \/ SkipBlockComment \/ CommentAtEnd
      <4>1. Comment(start.position, here'.position) /\ start.position < here'.position
        BY <2>3, <3>3, CommentIsRead
      <4>2. Running
        BY <3>3 DEF SkipLineComment, SkipBlockComment, CommentAtEnd, Running, Modes
      <4>3. Blank(LastEnd, start.position) /\ here'.position \in Nat
        BY <4>2, LexerNext DEF GapInv, BlankSoFar, LexerInv, TypeOK, Locations
      <4>. QED  BY <4>1, <4>3, PlaceTypes, BlankMore
    <3>. QED  BY <2>1, <2>3, <3>2, <3>3, LeftBehind
  <2>. QED  BY <2>2, <2>3
<1>. QED  BY <1>1, <1>2, <1>3, <1>4 DEF Kind

-----------------------------------------------------------------------------
(* The tokens                                                              *)

GapAt(i) ==
  Blank(IF i = 1 THEN 1 ELSE tokens[i - 1].end, tokens[i].location.position)
TouchingAt(i) ==
  i > 1 /\ ~ WhiteBetween(tokens[i - 1].end, tokens[i].location.position)
VariantAt(i) ==
  /\ tokens[i].no_w => TouchingAt(i)
  /\ tokens[i].type \in OfTwoTypes => (tokens[i].no_w <=> TouchingAt(i))

\* What has been said of the tokens stays true when one is added ...
LEMMA EarlierTokens ==
  ASSUME LexerInv, GapInv, input' = input,
         NEW token, tokens' = Append(tokens, token), mode # "done"
  PROVE  /\ DOMAIN tokens' = 1 .. Len(tokens) + 1 /\ Len(tokens') = Len(tokens) + 1
         /\ Len(tokens) \in Nat /\ tokens'[Len(tokens) + 1] = token
         /\ \A i \in 1 .. Len(tokens) :
              /\ GapAt(i)' /\ VariantAt(i)'
              /\ tokens'[i].type # <<"END_OF_FILE">>
<1>1. tokens \in Seq(Range(tokens))
  BY DEF LexerInv, TypeOK
<1>2. /\ Len(tokens) \in Nat /\ DOMAIN tokens = 1 .. Len(tokens)
      /\ DOMAIN tokens' = 1 .. Len(tokens) + 1 /\ Len(tokens') = Len(tokens) + 1
  BY <1>1, AppendOne
<1>3. tokens'[Len(tokens) + 1] = token /\ \A i \in 1 .. Len(tokens) : tokens'[i] = tokens[i]
  BY <1>1, <1>2, AppendOne
<1>4. ASSUME NEW i \in 1 .. Len(tokens)
      PROVE  GapAt(i)' /\ VariantAt(i)' /\ tokens'[i].type # <<"END_OF_FILE">>
  <2>1. /\ tokens'[i] = tokens[i] /\ (i > 1 => tokens'[i - 1] = tokens[i - 1])
        /\ i = 1 \/ i > 1
    BY <1>2, <1>3
  <2>2. GapAt(i) /\ VariantAt(i) /\ tokens[i].type # <<"END_OF_FILE">>
    BY <1>2 DEF GapInv, GapsAreBlank, NoWMeansTouching, GapAt, VariantAt, TouchingAt
  <2>3. GapAt(i)'
    BY <2>1, <2>2, SameText DEF GapAt
  <2>4. TouchingAt(i)' <=> TouchingAt(i)
    BY <2>1 DEF TouchingAt, WhiteBetween
  <2>. QED  BY <2>1, <2>2, <2>3, <2>4 DEF VariantAt
<1>. QED  BY <1>2, <1>3, <1>4

\* ... and the added one continues where the last one ended.
LEMMA AddedToken ==
  ASSUME LexerInv, input' = input, NEW token, tokens' = Append(tokens, token),
         Blank(LastEnd, token.location.position),
         NEW touches,
         touches <=> tokens # <<>> /\ ~ WhiteBetween(LastEnd, token.location.position),
         token.no_w => touches,
         token.type \in OfTwoTypes => (token.no_w <=> touches),
         NEW last, last = Len(tokens) + 1
  PROVE  GapAt(last)' /\ VariantAt(last)'
<1>1. tokens \in Seq(Range(tokens))
  BY DEF LexerInv, TypeOK
<1>2. /\ Len(tokens) \in Nat /\ Len(tokens') = Len(tokens) + 1
      /\ \A i \in 1 .. Len(tokens) : tokens'[i] = tokens[i]
  BY <1>1, AppendOne
<1>3. tokens'[Len(tokens) + 1] = token
  BY <1>1, <1>2, AppendOne
<1>4. PICK n \in Nat : n = Len(tokens)
  BY <1>2
<1>5. n = 0 <=> tokens = <<>>
  BY <1>1, <1>4
<1>6. LastEnd = IF n = 0 THEN 1 ELSE tokens'[n].end
  BY <1>2, <1>4, <1>5 DEF LastEnd
<1>7. GapAt(n + 1)'
  BY <1>3, <1>4, <1>6, SameText DEF GapAt
<1>8. TouchingAt(n + 1)' <=> touches
  BY <1>3, <1>4, <1>5, <1>6 DEF TouchingAt, WhiteBetween
<1>9. VariantAt(n + 1)'
  BY <1>3, <1>4, <1>8 DEF VariantAt
<1>. QED  BY <1>4, <1>7, <1>9

LEMMA TokensNext == ASSUME LexerInv, GapInv, Next PROVE GapsAreBlank' /\ NoWMeansTouching'
<1>1. Kind
  BY Kinds DEF LexerInv, Ready
<1>2. input' = input /\ mode # "done" /\ input \in Seq(STRING) /\ tokens \in Seq(Range(tokens))
  BY <1>1, InputIsText DEF Kind, GoesOn, Emits, Finishes, Fails, Running, Modes, LexerInv, TypeOK
<1>3. (GapsAreBlank /\ NoWMeansTouching)' <=>
        /\ mode' = "done" => LastEnd' = Len(input') + 1
        /\ \A i \in DOMAIN tokens' :
             /\ GapAt(i)' /\ VariantAt(i)'
             /\ tokens'[i].type = <<"END_OF_FILE">> <=> (mode' = "done" /\ i = Len(tokens'))
  BY DEF GapsAreBlank, NoWMeansTouching, GapAt, VariantAt, TouchingAt
<1>4. CASE tokens' = tokens
  <2>1. mode' # "done"
    <3>1. ~ Finishes
      BY <1>2, <1>4, AppendOne DEF Finishes
    <3>. QED  BY <1>1, <3>1 DEF Kind, GoesOn, Emits, Fails
  <2>2. \A i : (GapAt(i)' <=> GapAt(i)) /\ (VariantAt(i)' <=> VariantAt(i))
    BY <1>2, <1>4, SameText DEF GapAt, VariantAt, TouchingAt, WhiteBetween
  <2>. QED
    BY <1>2, <1>3, <1>4, <2>1, <2>2
       DEF GapInv, GapsAreBlank, NoWMeansTouching, GapAt, VariantAt, TouchingAt
<1>5. CASE EmitsRight
  <2>1. PICK type, no_w :
          /\ Emit(type, no_w) /\ type # <<"END_OF_FILE">>
          /\ no_w => Touches
          /\ type \in OfTwoTypes => (no_w <=> Touches)
    BY <1>5 DEF EmitsRight
  <2>2. PICK token : token = Token(type, no_w)
    OBVIOUS
  <2>3. /\ tokens' = Append(tokens, token) /\ mode' = "token"
        /\ token.type = type /\ token.no_w = no_w /\ token.location = start
    BY <2>1, <2>2 DEF Emit, Token
  <2>4. Running
    <3>1. tokens' # tokens
      BY <2>1, EmitsOne
    <3>. QED  BY <1>1, <2>3, <3>1 DEF Kind, GoesOn, Emits, Finishes, Fails
  <2>5. Blank(LastEnd, token.location.position)
    BY <2>3, <2>4 DEF GapInv, BlankSoFar
  <2>6. PICK last : last = Len(tokens) + 1
    OBVIOUS
  <2>7. GapAt(last)' /\ VariantAt(last)'
    <3>1. PICK touches \in BOOLEAN : touches <=> Touches
      OBVIOUS
    <3>2. /\ touches <=> tokens # <<>> /\ ~ WhiteBetween(LastEnd, token.location.position)
          /\ token.no_w => touches
          /\ token.type \in OfTwoTypes => (token.no_w <=> touches)
      <4>1. no_w => touches
        BY <2>1, <3>1
      <4>2. type \in OfTwoTypes => (no_w <=> touches)
        BY <2>1, <3>1
      <4>3. touches <=> tokens # <<>> /\ ~ WhiteBetween(LastEnd, token.location.position)
        BY <2>3, <3>1 DEF Touches
      <4>. QED  BY <2>3, <4>1, <4>2, <4>3
    <3>. QED  BY <1>2, <2>3, <2>5, <2>6, <3>2, AddedToken
  <2>8. /\ DOMAIN tokens' = 1 .. last /\ Len(tokens) \in Nat /\ tokens'[last] = token
        /\ \A i \in 1 .. Len(tokens) :
             GapAt(i)' /\ VariantAt(i)' /\ tokens'[i].type # <<"END_OF_FILE">>
    BY <1>2, <2>3, <2>6, EarlierTokens
  <2>9. \A i \in DOMAIN tokens' :
          GapAt(i)' /\ VariantAt(i)' /\ tokens'[i].type # <<"END_OF_FILE">>
    <3>1. tokens'[last].type # <<"END_OF_FILE">>
      BY <2>1, <2>3, <2>8
    <3>2. ASSUME NEW i \in DOMAIN tokens', i # last PROVE i \in 1 .. Len(tokens)
      BY <2>6, <2>8, <3>2
    <3>. QED  BY <2>7, <2>8, <3>1, <3>2
  <2>. QED  BY <1>3, <2>3, <2>9
<1>6. CASE EndOfFile
  <2>1. PICK token : token = [type |-> <<"END_OF_FILE">>, no_w |-> FALSE,
                              location |-> here, end |-> here.position]
    OBVIOUS
  <2>2. /\ tokens' = Append(tokens, token) /\ mode = "token" /\ mode' = "done"
        /\ token.type = <<"END_OF_FILE">> /\ token.no_w = FALSE
        /\ token.location.position = here.position /\ token.end = here.position
        /\ here.position = Len(input) + 1
    BY <1>2, <1>6, <2>1, PlaceTypes DEF EndOfFile, at_end, LexerInv, TypeOK
  <2>3. Blank(LastEnd, token.location.position)
    BY <2>2 DEF GapInv, BlankSoFar
  <2>4. PICK last : last = Len(tokens) + 1
    OBVIOUS
  <2>5. GapAt(last)' /\ VariantAt(last)'
    <3>1. token.type \notin OfTwoTypes
      BY <2>2 DEF OfTwoTypes
    <3>2. PICK touches : touches = (tokens # <<>> /\ ~ WhiteBetween(LastEnd, token.location.position))
      OBVIOUS
    <3>. QED  BY <1>2, <2>2, <2>3, <2>4, <3>1, <3>2, AddedToken
  <2>6. /\ DOMAIN tokens' = 1 .. last /\ Len(tokens) \in Nat /\ Len(tokens') = last
        /\ tokens'[last] = token
        /\ \A i \in 1 .. Len(tokens) :
             GapAt(i)' /\ VariantAt(i)' /\ tokens'[i].type # <<"END_OF_FILE">>
    BY <1>2, <2>2, <2>4, EarlierTokens
  <2>7. LastEnd' = Len(input') + 1
    <3>1. tokens' # <<>>
      BY <1>2, <2>2, AppendOne
    <3>. QED  BY <1>2, <2>2, <2>6, <3>1 DEF LastEnd
  <2>8. \A i \in DOMAIN tokens' :
          GapAt(i)' /\ VariantAt(i)' /\ (tokens'[i].type = <<"END_OF_FILE">> <=> i = last)
    BY <2>2, <2>4, <2>5, <2>6
  <2>. QED  BY <1>3, <2>2, <2>6, <2>7, <2>8
<1>. QED  BY <1>4, <1>5, <1>6, StepEmits

-----------------------------------------------------------------------------
(* Strings                                                                 *)

\* A string is the last token only from its last quote on, to the next step.
LEMMA NewString ==
  ASSUME LexerInv, Next, Completed({<<"STRING_LITERAL">>})'
  PROVE  EmptyString \/ CloseString
<1>. USE DEF Throw, resultVars
<1>1. /\ mode' = "token" /\ here'.position = LastEnd'
      /\ LastToken'.type = <<"STRING_LITERAL">>
  BY DEF Completed
<1>2. tokens' # tokens
  <2>1. SUFFICES ASSUME tokens' = tokens PROVE FALSE
    OBVIOUS
  <2>2. LastEnd' = LastEnd
    BY <2>1 DEF LastEnd
  <2>3. CASE SkipWhitespace
    <3>1. here'.position = here.position + 1
      BY <2>3, Reading DEF SkipWhitespace, LexerInv, ReadsOne
    <3>. QED  BY <1>1, <2>2, <3>1, PlaceTypes
  <2>4. CASE SkipLineComment \/ SkipBlockComment \/ CommentAtEnd
    <3>1. LastEnd <= start.position /\ start.position < here.position
      BY <2>4, PlaceTypes DEF SkipLineComment, SkipBlockComment, CommentAtEnd, LexerInv, Begun,
                              Consumed, Running, Modes
    <3>2. here'.position = here.position \/ here'.position = here.position + 1
      BY <2>4, Reading DEF SkipLineComment, SkipBlockComment, CommentAtEnd, LexerInv, ReadsOne,
                           sourceVars
    <3>. QED  BY <1>1, <2>2, <3>1, <3>2, PlaceTypes
  <2>. QED  BY <1>1, <2>1, <2>3, <2>4, LeftBehind
<1>. DEFINE others == {<<"IDENTIFIER">>, <<"QUOTED_IDENTIFIER">>, <<"CHAR_LITERAL">>,
                      <<"NUMBER">>, <<"NUMBER_FIELD">>}
<1>3. \A type \in others : \A no_w : ~ Emit(type, no_w)
  <2>1. <<"STRING_LITERAL">> \notin others
    OBVIOUS
  <2>. QED  BY <1>1, <2>1, EmitsOne
<1>. HIDE DEF others
<1>4. /\ <<"IDENTIFIER">> \in others /\ <<"QUOTED_IDENTIFIER">> \in others
      /\ <<"CHAR_LITERAL">> \in others
      /\ <<"NUMBER">> \in others /\ <<"NUMBER_FIELD">> \in others
  BY DEF others
<1>5. ~ NumberStep
  BY <1>2, <1>3, <1>4
     DEF NumberStep, NoBasePrefix, ReadBasePrefix, AssumeOctal, ReadDigit, InDigits,
         ReadUnderscore, DigitError, ReadPoint, ReadExponentMark, ReadExponentSign,
         BeginExponentDigits, ExponentError, CloseNumber, NoDigits
<1>6. ~ OperatorStep
  <2>1. CASE CloseOperator
    BY <1>1, <2>1, EmitsOne, OperatorSpelling DEF CloseOperator, Names
  <2>. QED
    BY <1>2, <2>1 DEF OperatorStep, ReadOperator, PointBeforeDigit, TwoPoints, PeekPastEnd,
                      ThrowPastEnd
<1>7. ~ WordStep
  <2>1. CASE CloseWord
    <3>1. ~ (Read \in ReservedWords /\ Emit(Read, FALSE))
      BY <1>1, EmitsOne, KeywordsHaveNoNames DEF Names
    <3>. QED  BY <2>1, <3>1, <1>3, <1>4 DEF CloseWord
  <2>. QED  BY <1>2, <2>1 DEF WordStep, RawString, BeginQuotes, NotRaw, ReadWord
<1>8. ~ TokenStep /\ ~ CommentStep
  BY <1>1, <1>2 DEF TokenStep, EndOfFile, SkipWhitespace, BeginOperator, BeginNumber, BeginWord,
     BeginString, BeginQuotes, BeginLiteral, UnexpectedCharacter,
     CommentStep, SkipLineComment, SkipBlockComment, CommentAtEnd
<1>9. ASSUME TextStep PROVE EmptyString \/ CloseString
  <2>1. ~ EscapeStep
    BY <1>2 DEF EscapeStep, Backslash, SimpleEscape, EscapedLineEnd, AfterEscapedReturn,
           HexEscape, HexChar, NotHexChar, EscapeError
  <2>2. ~ CharStep
    BY <1>2, <1>3, <1>4 DEF CharStep, CharContent, NextByte, ByteEscape, NotByteEscape,
       ClosingQuote, CloseChar, NotOneCodePoint, CharError
  <2>3. ~ QuotedStep
    BY <1>2, <1>3, <1>4 DEF QuotedStep, QuotedChar, ClosingBacktick, CloseQuotedIdent,
       QuotedError
  <2>4. StringStep => EmptyString \/ CloseString
    BY <1>2 DEF StringStep, OpeningQuote, OpenString, StringChar, StringReturn, StringQuote,
                StringError
  <2>. QED  BY <1>9, <2>1, <2>2, <2>3, <2>4 DEF TextStep
<1>. QED  BY <1>5, <1>6, <1>7, <1>8, <1>9 DEF Next

LEMMA StringKept ==
  ASSUME LexerInv, Next, ~ EmptyString, ~ CloseString PROVE StringIsItsText'
<1>1. ~ Completed({<<"STRING_LITERAL">>})'
  BY NewString
<1>. QED  BY <1>1, Zenon DEF StringIsItsText

LEMMA OwnRange == ASSUME NEW S, NEW r \in Seq(S) PROVE r \in Seq(Range(r))
<1>1. DOMAIN r = 1 .. Len(r) /\ Len(r) \in Nat
  OBVIOUS
<1>. QED  BY <1>1 DEF Range

\* A character adds itself to what is kept, behind the quotes in a row, which turn out
\* to be part of the string.
LEMMA StringCharRow ==
  ASSUME Kept, StringChar
  PROVE  /\ scratch' \in Seq(Range(scratch'))
         /\ Len(scratch) \in Nat /\ Len(scratch') = Len(scratch) + quote.row + 1
         /\ \A i \in 1 .. Len(scratch) : scratch'[i] = scratch[i]
         /\ \A i \in Len(scratch) + 1 .. Len(scratch) + quote.row : scratch'[i] = <<DoubleQuote>>
         /\ scratch'[Len(scratch) + quote.row + 1] = <<peek>>
<1>1. scratch' = Append(scratch \o [i \in 1 .. quote.row |-> <<DoubleQuote>>], <<peek>>)
  BY Zenon DEF StringChar, DoubleQuote
<1>2. PICK s, t, n, q, e, row, r, S, T :
        /\ s = scratch /\ t = scratch' /\ n = quote.row
        /\ q = <<DoubleQuote>> /\ e = <<peek>> /\ row = [i \in 1 .. n |-> q]
        /\ r = s \o row /\ S = Range(s) \cup {q} /\ T = Range(s) \cup {q, e}
  OBVIOUS
<1>3. t = Append(r, e) /\ n \in Nat
  BY <1>1, <1>2 DEF Kept
<1>4. s \in Seq(S) /\ Len(s) \in Nat
  BY <1>2 DEF Kept
<1>5. row \in Seq(S) /\ Len(row) = n /\ \A i \in 1 .. n : row[i] = q
  BY <1>2, <1>3
<1>6. r \in Seq(S) /\ Len(r) = Len(s) + n
  <2>1. s \o row \in Seq(S) /\ Len(s \o row) = Len(s) + Len(row)
    BY <1>4, <1>5, ConcatProperties
  <2>2. r = s \o row
    BY <1>2
  <2>. QED  BY <1>5, <2>1, <2>2
<1>7. /\ \A i \in 1 .. Len(s) : r[i] = s[i]
      /\ \A i \in Len(s) + 1 .. Len(s) + n : r[i] = q
  <2>1. \A i \in 1 .. Len(s) + Len(row) :
           (s \o row)[i] = IF i <= Len(s) THEN s[i] ELSE row[i - Len(s)]
    BY <1>4, <1>5, ConcatProperties
  <2>2. r = s \o row
    BY <1>2
  <2>. QED  BY <1>3, <1>4, <1>5, <2>1, <2>2
<1>8. r \in Seq(T) /\ e \in T
  BY <1>2, <1>6
<1>9. Append(r, e) \in Seq(T) /\ Len(Append(r, e)) = Len(r) + 1
  BY <1>8, AppendProperties
<1>10. /\ \A i \in 1 .. Len(r) : Append(r, e)[i] = r[i]
       /\ Append(r, e)[Len(r) + 1] = e
  BY <1>8, AppendProperties
<1>11. t \in Seq(Range(t))
  BY <1>3, <1>9, OwnRange
<1>12. /\ Len(t) = Len(s) + n + 1
       /\ \A i \in 1 .. Len(s) : t[i] = s[i]
       /\ \A i \in Len(s) + 1 .. Len(s) + n : t[i] = q
       /\ t[Len(s) + n + 1] = e
  <2>1. Len(t) = Len(s) + n + 1
    BY <1>3, <1>4, <1>6, <1>9
  <2>2. \A i \in 1 .. Len(s) + n : t[i] = r[i]
    BY <1>3, <1>6, <1>10
  <2>3. t[Len(s) + n + 1] = e
    BY <1>3, <1>6, <1>10
  <2>. QED  BY <1>3, <1>4, <1>7, <2>1, <2>2, <2>3
<1>. QED  BY <1>2, <1>4, <1>11, <1>12

LEMMA KeptNext == ASSUME Kept, Next PROVE Kept'
<1>1. ASSUME NEW s, s = scratch, NEW x, NEW t, t = Append(s, x) PROVE t \in Seq(Range(t))
  <2>1. s \in Seq(Range(s))
    BY <1>1 DEF Kept
  <2>. QED  BY <1>1, <2>1, AppendOne
<1>2. ASSUME scratch' = scratch \/ \E x : scratch' = Append(scratch, x), quote' = quote
      PROVE  Kept'
  <2>1. PICK s, t : s = scratch /\ t = scratch'
    OBVIOUS
  <2>2. t \in Seq(Range(t))
    BY <1>1, <1>2, <2>1 DEF Kept
  <2>3. scratch' \in Seq(Range(scratch'))
    BY <2>1, <2>2
  <2>. QED  BY <1>2, <2>3 DEF Kept
<1>3. ASSUME scratch' = <<>>,
             quote' = quote \/ \E raw \in BOOLEAN : quote' = [raw |-> raw, count |-> 0, row |-> 0]
      PROVE  Kept'
  <2>1. <<>> \in Seq(Range(<<>>))
    OBVIOUS
  <2>. QED  BY <1>3, <2>1 DEF Kept
<1>4. ASSUME scratch' = scratch,
             quote' = [quote EXCEPT !.count = @ + 1] \/ quote' = [quote EXCEPT !.row = @ + 1]
      PROVE  Kept'
  <2>1. quote \in [raw : BOOLEAN, count : Nat, row : Nat] /\ quote' \in [raw : BOOLEAN, count : Nat, row : Nat]
    BY <1>4 DEF Kept
  <2>. QED  BY <1>4, <2>1 DEF Kept
<1>5. ASSUME StringChar PROVE Kept'
  <2>1. scratch' \in Seq(Range(scratch'))
    BY <1>5, StringCharRow
  <2>. QED  BY <1>5, <2>1 DEF StringChar, Kept
<1>6. CASE TokenStep
  BY <1>2, <1>3, <1>6 DEF TokenStep, EndOfFile, SkipWhitespace, BeginOperator, BeginNumber,
     BeginWord, BeginString, BeginQuotes, BeginLiteral, UnexpectedCharacter, textVars
<1>7. CASE OperatorStep \/ CommentStep \/ (NumberStep /\ UNCHANGED textVars)
  BY <1>2, <1>7 DEF OperatorStep, ReadOperator, PointBeforeDigit, CloseOperator, TwoPoints,
     PeekPastEnd, CommentStep, SkipLineComment, SkipBlockComment, CommentAtEnd, textVars
<1>8. CASE WordStep
  BY <1>2, <1>3, <1>8 DEF WordStep, RawString, BeginQuotes, NotRaw, ReadWord, CloseWord, textVars
<1>9. CASE StringStep
  BY <1>2, <1>4, <1>5, <1>9 DEF StringStep, OpeningQuote, EmptyString, OpenString, StringReturn,
     StringQuote, CloseString, StringError, textVars
<1>10. CASE EscapeStep
  BY <1>2, <1>10 DEF EscapeStep, Backslash, SimpleEscape, EscapedLineEnd, AfterEscapedReturn,
     HexEscape, HexChar, NotHexChar, EscapeError, textVars
<1>11. CASE CharStep
  BY <1>2, <1>11 DEF CharStep, CharContent, NextByte, ByteEscape, NotByteEscape, ClosingQuote,
     CloseChar, NotOneCodePoint, CharError, textVars
<1>12. CASE QuotedStep
  BY <1>2, <1>12 DEF QuotedStep, QuotedChar, ClosingBacktick, CloseQuotedIdent, QuotedError,
     textVars
<1>. QED
  BY <1>6, <1>7, <1>8, <1>9, <1>10, <1>11, <1>12 DEF Next, TextStep

SoFar == QuotesSoFar /\ EscapeSoFar /\ BodySoFar

\* Nothing is said of the other modes.
LEMMA SaidOfOthers ==
  ASSUME mode' \notin {"raw", "quotes", "string", "string_end"},
         mode' \in {"escape", "escaped_return", "hex"} => reader' \in {"char", "quoted_ident"},
         mode' \in {"char_bytes", "char_byte"} => reader' = "char"
  PROVE  SoFar'
<1>1. ~ InString'
  BY DEF InString, StringModes
<1>. QED  BY <1>1 DEF SoFar, QuotesSoFar, EscapeSoFar, BodySoFar, StringModes

LEMMA BeginSoFar ==
  ASSUME LexerInv, StringInv, TokenStep \/ OperatorStep \/ CommentStep \/ WordStep \/ NumberStep
  PROVE  SoFar'
<1>. USE DEF Throw, resultVars
<1>1. CASE BeginString \/ RawString
  <2>1. /\ mode' = "quotes" /\ scratch' = <<>> /\ quote'.row = 0 /\ quote'.count = 0
        /\ here' = here
        /\ here.position = start'.position + (IF quote'.raw THEN 1 ELSE 0)
        /\ start'.position \in Nat
    <3>1. here.position \in Nat /\ start.position \in Nat
      BY PlaceTypes
    <3>2. CASE BeginString
      <4>1. /\ mode' = "quotes" /\ scratch' = <<>> /\ start' = here /\ here' = here
            /\ quote' = [raw |-> FALSE, count |-> 0, row |-> 0]
        BY <3>2 DEF BeginString, Begin, BeginQuotes, sourceVars
      <4>2. quote'.row = 0 /\ quote'.count = 0 /\ ~ quote'.raw
        BY <4>1
      <4>. QED  BY <3>1, <4>1, <4>2
    <3>3. CASE RawString
      <4>1. here.position = start.position + 1
        BY <3>3 DEF RawString, StringInv, QuotesSoFar
      <4>. QED  BY <3>1, <3>3, <4>1 DEF RawString, BeginQuotes, sourceVars
    <3>. QED  BY <1>1, <3>2, <3>3
  <2>. QED  BY <2>1 DEF SoFar, QuotesSoFar, EscapeSoFar, BodySoFar, InString, StringModes, Opening
<1>2. CASE BeginWord
  <2>1. mode' \in {"raw", "word"} /\ start' = here /\ here'.position = here.position + 1
    BY <1>2, Reading DEF BeginWord, Begin, LexerInv, ReadsOne
  <2>. QED  BY <2>1 DEF SoFar, QuotesSoFar, EscapeSoFar, BodySoFar, InString, StringModes
<1>3. CASE TokenStep /\ ~ BeginString /\ ~ BeginWord
  BY <1>3, SaidOfOthers DEF TokenStep, EndOfFile, SkipWhitespace, BeginOperator, BeginNumber,
     BeginLiteral, UnexpectedCharacter, Begin
<1>4. CASE WordStep /\ ~ RawString
  BY <1>4, SaidOfOthers DEF WordStep, NotRaw, ReadWord, CloseWord, Emit
<1>5. CASE OperatorStep
  BY <1>5, SaidOfOthers DEF OperatorStep, ReadOperator, PointBeforeDigit, CloseOperator,
     TwoPoints, PeekPastEnd, ThrowPastEnd, Emit
<1>6. CASE CommentStep
  BY <1>6, SaidOfOthers DEF CommentStep, SkipLineComment, SkipBlockComment, CommentAtEnd
<1>7. CASE NumberStep
  BY <1>7, SaidOfOthers DEF NumberStep, NoBasePrefix, ReadBasePrefix, AssumeOctal, ReadDigit,
     InDigits, ReadUnderscore, DigitError, ReadPoint, ReadExponentMark, ReadExponentSign,
     BeginExponentDigits, ExponentError, CloseNumber, NoDigits, Emit
<1>. QED  BY <1>1, <1>2, <1>3, <1>4, <1>5, <1>6, <1>7 DEF TokenStep, WordStep

LEMMA CharSoFar == ASSUME StringInv, CharStep \/ QuotedStep PROVE SoFar'
<1>. USE DEF Throw, resultVars, textVars
<1>1. mode \in {"char_bytes", "char_byte"} => reader = "char"
  BY DEF StringInv, EscapeSoFar
<1>2. CASE CharStep
  BY <1>1, <1>2, SaidOfOthers DEF CharStep, CharContent, NextByte, ByteEscape, NotByteEscape,
     ClosingQuote, CloseChar, NotOneCodePoint, CharError, Emit
<1>3. CASE QuotedStep
  BY <1>3, SaidOfOthers DEF QuotedStep, QuotedChar, ClosingBacktick, CloseQuotedIdent,
     QuotedError, Emit
<1>. QED  BY <1>2, <1>3

LEMMA EscapesSoFar == ASSUME LexerInv, StringInv, EscapeStep PROVE SoFar'
<1>. USE DEF Throw, resultVars, textVars
<1>1. /\ mode' \in {"escape", "escaped_return", "hex", "string", "char", "quoted_ident", "char_bytes",
                    "char_end", "failed"}
      /\ start' = start /\ quote' = quote /\ input' = input
      /\ reader' = IF mode \in {"string", "char", "quoted_ident"} THEN mode ELSE reader
      /\ mode \in {"string", "char", "quoted_ident", "escape", "escaped_return", "hex"}
      /\ mode \in {"string", "char", "quoted_ident"} => mode' = "escape"
      /\ mode' = "string" => reader' = "string"
      /\ mode' = "char_bytes" => reader' = "char"
      /\ here' = here \/ ReadsOne
  BY Reading DEF EscapeStep, Backslash, SimpleEscape, EscapedLineEnd, AfterEscapedReturn,
     HexEscape, HexChar, NotHexChar, EscapeError, Resume, LexerInv, Readers, Consume, sourceVars
<1>2. CASE reader' # "string" \/ mode' = "failed"
  BY <1>1, <1>2, SaidOfOthers DEF LexerInv, Readers
<1>3. CASE reader' = "string" /\ mode' # "failed"
  <2>1. InString
    BY <1>1, <1>3 DEF InString, StringModes
  <2>2. /\ start.position \in Nat /\ start.position <= here.position /\ here.position \in Nat
        /\ here'.position \in {here.position, here.position + 1}
    BY <1>1, <2>1, PlaceTypes DEF InString, StringModes, Running, Modes, ReadsOne
  <2>3. ~ Verbatim(start.position, here'.position)
    <3>1. CASE mode = "string"
      <4>1. /\ input[here.position] = "\\" /\ ~ quote.raw
            /\ here'.position = here.position + 1
        BY <3>1, Reading
           DEF EscapeStep, Backslash, SimpleEscape, EscapedLineEnd, AfterEscapedReturn,
               HexEscape, HexChar, NotHexChar, EscapeError, LexerInv, ReadsOne
      <4>. QED  BY <2>2, <4>1 DEF Verbatim
    <3>2. CASE mode # "string"
      <4>1. ~ Verbatim(start.position, here.position)
        BY <1>1, <2>1, <3>2 DEF StringInv, EscapeSoFar, StringModes
      <4>. QED  BY <2>2, <4>1 DEF Verbatim
    <3>. QED  BY <3>1, <3>2
  <2>4. /\ quote.count \in {1, 3} /\ quote.row < quote.count
        /\ Opening <= here'.position /\ Opening' = Opening
    <3>1. quote.count \in {1, 3} /\ Opening <= here.position /\ quote.row < quote.count
      BY <1>1, <2>1 DEF StringInv, QuotesSoFar
    <3>2. Opening \in Nat /\ Opening' = Opening
      BY <1>1, <2>2, <3>1 DEF Opening
    <3>. QED  BY <2>2, <3>1, <3>2
  <2>. QED  BY <1>1, <1>3, <2>3, <2>4 DEF SoFar, QuotesSoFar, EscapeSoFar, BodySoFar, InString,
     StringModes, Verbatim
<1>. QED  BY <1>2, <1>3

\* A character that is neither a quote nor a return ends the row of quotes.
LEMMA StringCharSoFar == ASSUME LexerInv, StringInv, StringChar PROVE SoFar'
<1>1. /\ mode = "string" /\ mode' = mode /\ start' = start /\ Consume
      /\ scratch' = Append(scratch \o [i \in 1 .. quote.row |-> <<DoubleQuote>>], <<peek>>)
      /\ quote' = [quote EXCEPT !.row = 0]
  BY Zenon DEF StringChar, DoubleQuote
<1>2. /\ mode = "string" /\ mode' = "string" /\ start' = start /\ input' = input
      /\ here'.position = here.position + 1 /\ peek = input[here.position]
      /\ start.position \in Nat /\ here.position \in Nat
  BY <1>1, Reading, PlaceTypes DEF LexerInv, ReadsOne
<1>3. /\ quote \in [raw : BOOLEAN, count : Nat, row : Nat]
      /\ quote'.raw = quote.raw /\ quote'.count = quote.count /\ quote'.row = 0
  BY <1>1 DEF StringInv, Kept
<1>4. /\ quote.count \in {1, 3} /\ Opening <= here.position
      /\ Opening \in Nat /\ Opening' = Opening
  BY <1>2, <1>3 DEF StringInv, QuotesSoFar, InString, StringModes, Opening
<1>5. ASSUME Verbatim(start.position, here.position + 1)
      PROVE  /\ Opening + Len(scratch') = here.position + 1
             /\ \A i \in 1 .. Len(scratch') : scratch'[i] = <<input[Opening + i - 1]>>
  <2>1. Verbatim(start.position, here.position)
    BY <1>2, <1>5 DEF Verbatim
  <2>2. PICK s, t, n, q, e :
          /\ s = scratch /\ t = scratch' /\ n = quote.row /\ q = <<DoubleQuote>> /\ e = <<peek>>
    OBVIOUS
  <2>3. n \in Nat
    BY <1>3, <2>2
  <2>5. /\ Len(s) \in Nat /\ Len(t) = Len(s) + n + 1
        /\ \A i \in 1 .. Len(s) : t[i] = s[i]
        /\ \A i \in Len(s) + 1 .. Len(s) + n : t[i] = q
        /\ t[Len(s) + n + 1] = e
    BY <2>2, StringCharRow DEF StringInv
  <2>6. PICK l, o, h : l = Len(s) /\ o = Opening /\ h = here.position
    OBVIOUS
  <2>7. /\ o + l + n = h /\ o \in Nat /\ l \in Nat /\ h \in Nat
        /\ \A i \in 1 .. l : s[i] = <<input[o + i - 1]>>
        /\ \A i \in o + l .. h - 1 : input[i] = DoubleQuote
    BY <1>2, <1>4, <2>1, <2>2, <2>5, <2>6 DEF StringInv, BodySoFar, StringModes
  <2>8. ASSUME NEW i \in 1 .. l + n + 1 PROVE t[i] = <<input[o + i - 1]>>
    <3>1. CASE i \in 1 .. l
      BY <2>5, <2>6, <2>7, <3>1
    <3>2. CASE i \in l + 1 .. l + n
      <4>1. o + i - 1 \in o + l .. h - 1
        BY <2>3, <2>7, <3>2
      <4>. QED  BY <2>2, <2>5, <2>6, <2>7, <3>2, <4>1, SMTT(30)
    <3>3. CASE i = l + n + 1
      <4>1. o + i - 1 = h
        BY <2>3, <2>7, <3>3
      <4>. QED  BY <1>2, <2>2, <2>5, <2>6, <3>3, <4>1
    <3>4. n \in Nat /\ l \in Nat /\ i \in 1 .. l + n + 1
      BY <2>3, <2>7
    <3>5. i \in 1 .. l \/ i \in l + 1 .. l + n \/ i = l + n + 1
      BY <3>4
    <3>. QED  BY <3>1, <3>2, <3>3, <3>5
  <2>9. o + (l + n + 1) = h + 1
    <3>1. o + l + n = h /\ o \in Nat /\ l \in Nat /\ n \in Nat
      BY <2>3, <2>7
    <3>. QED  BY <3>1
  <2>. QED  BY <2>2, <2>5, <2>6, <2>8, <2>9
<1>6. Verbatim(start.position, here.position)' => Verbatim(start.position, here.position + 1)
  BY <1>2, <1>3 DEF Verbatim
<1>7. BodySoFar'
  <2>1. SUFFICES ASSUME Verbatim(start.position, here.position)'
        PROVE  /\ Opening' + Len(scratch') + quote'.row = here'.position
               /\ \A i \in 1 .. Len(scratch') : scratch'[i] = <<input'[Opening' + i - 1]>>
               /\ \A i \in Opening' + Len(scratch') .. here'.position - 1 : input'[i] = DoubleQuote
    BY DEF BodySoFar
  <2>2. PICK n, p : n = Opening + Len(scratch') /\ p = here.position + 1
    OBVIOUS
  <2>3. n = p /\ p \in Nat /\ \A i \in 1 .. Len(scratch') : scratch'[i] = <<input[Opening + i - 1]>>
    BY <1>2, <1>5, <1>6, <2>1, <2>2
  <2>. QED  BY <1>2, <1>3, <1>4, <2>2, <2>3
<1>8. QuotesSoFar' /\ EscapeSoFar'
  BY <1>2, <1>3, <1>4 DEF QuotesSoFar, EscapeSoFar, InString, StringModes
<1>. QED  BY <1>7, <1>8 DEF SoFar

LEMMA StringQuoteSoFar == ASSUME LexerInv, StringInv, StringQuote PROVE SoFar'
<1>1. /\ mode = "string" /\ start' = start /\ Consume /\ scratch' = scratch
      /\ peek = DoubleQuote /\ quote' = [quote EXCEPT !.row = @ + 1]
      /\ mode' = IF quote.row + 1 = quote.count THEN "string_end" ELSE mode
  BY Zenon DEF StringQuote, DoubleQuote
<1>2. /\ mode = "string" /\ start' = start /\ input' = input /\ scratch' = scratch
      /\ mode' = IF quote.row + 1 = quote.count THEN "string_end" ELSE "string"
      /\ here'.position = here.position + 1 /\ input[here.position] = DoubleQuote
      /\ start.position \in Nat /\ here.position \in Nat
  BY <1>1, Reading, PlaceTypes DEF LexerInv, ReadsOne
<1>3. /\ quote \in [raw : BOOLEAN, count : Nat, row : Nat]
      /\ quote'.raw = quote.raw /\ quote'.count = quote.count /\ quote'.row = quote.row + 1
  BY <1>1 DEF StringInv, Kept
<1>4. /\ quote.count \in {1, 3} /\ Opening <= here.position /\ quote.row < quote.count
      /\ Opening \in Nat /\ Opening' = Opening
  BY <1>2, <1>3 DEF StringInv, QuotesSoFar, InString, StringModes, Opening
<1>5. QuotesSoFar' /\ EscapeSoFar'
  BY <1>2, <1>3, <1>4 DEF QuotesSoFar, EscapeSoFar, InString, StringModes
<1>6. Verbatim(start.position, here.position)' => Verbatim(start.position, here.position)
  BY <1>2, <1>3 DEF Verbatim
<1>7. Len(scratch) \in Nat
  BY DEF StringInv, Kept
<1>8. BodySoFar'
  <2>1. SUFFICES ASSUME Verbatim(start.position, here.position)'
        PROVE  /\ Opening' + Len(scratch') + quote'.row = here'.position
               /\ \A i \in 1 .. Len(scratch') : scratch'[i] = <<input'[Opening' + i - 1]>>
               /\ \A i \in Opening' + Len(scratch') .. here'.position - 1 : input'[i] = DoubleQuote
    BY DEF BodySoFar
  <2>2. /\ Opening + Len(scratch) + quote.row = here.position
        /\ \A i \in 1 .. Len(scratch) : scratch[i] = <<input[Opening + i - 1]>>
        /\ \A i \in Opening + Len(scratch) .. here.position - 1 : input[i] = DoubleQuote
    BY <1>2, <1>6, <2>1 DEF StringInv, BodySoFar, StringModes
  <2>3. PICK l, o, h, n : l = Len(scratch) /\ o = Opening /\ h = here.position /\ n = quote.row
    OBVIOUS
  <2>4. /\ o + l + n = h /\ o \in Nat /\ l \in Nat /\ h \in Nat /\ n \in Nat
        /\ \A i \in o + l .. h - 1 : input[i] = DoubleQuote
        /\ input[h] = DoubleQuote
    BY <1>2, <1>3, <1>4, <1>7, <2>2, <2>3
  <2>5. o + l + (n + 1) = h + 1 /\ \A i \in o + l .. h + 1 - 1 : input[i] = DoubleQuote
    BY <2>4
  <2>. QED  BY <1>2, <1>3, <1>4, <2>2, <2>3, <2>5, SMTT(30)
<1>. QED  BY <1>5, <1>8 DEF SoFar

LEMMA StringSoFar == ASSUME LexerInv, StringInv, StringStep PROVE SoFar'
<1>. USE DEF Throw, resultVars, textVars
<1>1. quote \in [raw : BOOLEAN, count : Nat, row : Nat]
  BY DEF StringInv, Kept
<1>2. CASE OpeningQuote
  <2>1. /\ mode = "quotes" /\ mode' = mode /\ start' = start /\ scratch' = scratch /\ Consume
        /\ quote' = [quote EXCEPT !.count = @ + 1]
    BY <1>2, Zenon DEF OpeningQuote
  <2>2. /\ mode = "quotes" /\ mode' = mode /\ start' = start /\ scratch' = scratch
        /\ here'.position = here.position + 1 /\ start.position \in Nat
    BY <2>1, Reading, PlaceTypes DEF LexerInv, ReadsOne
  <2>3. quote'.raw = quote.raw /\ quote'.count = quote.count + 1 /\ quote'.row = quote.row
    BY <1>1, <2>1
  <2>4. scratch = <<>> /\ quote.row = 0 /\ here.position = Opening /\ Opening' = Opening + 1
    BY <1>1, <2>2, <2>3 DEF StringInv, QuotesSoFar, Opening
  <2>. QED  BY <2>2, <2>3, <2>4 DEF SoFar, QuotesSoFar, EscapeSoFar, BodySoFar, InString, StringModes
<1>3. CASE OpenString
  <2>1. /\ mode = "quotes" /\ mode' = "string" /\ start' = start /\ scratch' = scratch
        /\ here' = here /\ quote' = quote /\ quote.count \in {1, 3} /\ start.position \in Nat
    BY <1>3, PlaceTypes DEF OpenString, sourceVars
  <2>2. scratch = <<>> /\ quote.row = 0 /\ here.position = Opening /\ Opening' = Opening
    BY <2>1 DEF StringInv, QuotesSoFar, Opening
  <2>3. Opening \in Nat /\ Len(scratch) = 0
    BY <1>1, <2>1, <2>2 DEF Opening
  <2>. QED  BY <2>1, <2>2, <2>3 DEF SoFar, QuotesSoFar, EscapeSoFar, BodySoFar, InString, StringModes
<1>4. CASE StringReturn
  <2>1. /\ mode = "string" /\ mode' = "string" /\ start' = start /\ input' = input
        /\ quote' = quote /\ here'.position = here.position + 1
        /\ input[here.position] = "\r"
        /\ start.position \in Nat /\ here.position \in Nat /\ start.position <= here.position
    BY <1>4, Reading, PlaceTypes DEF StringReturn, LexerInv, ReadsOne, Running, Modes
  <2>2. ~ Verbatim(start.position, here.position)'
    BY <2>1 DEF Verbatim
  <2>3. /\ quote.count \in {1, 3} /\ Opening <= here.position /\ quote.row < quote.count
        /\ Opening \in Nat /\ Opening' = Opening
    BY <1>1, <2>1 DEF StringInv, QuotesSoFar, InString, StringModes, Opening
  <2>. QED
    BY <2>1, <2>2, <2>3 DEF SoFar, QuotesSoFar, EscapeSoFar, BodySoFar, InString, StringModes
<1>5. CASE EmptyString \/ CloseString \/ StringError
  BY <1>5, SaidOfOthers DEF EmptyString, CloseString, StringError, Emit
<1>. QED  BY <1>2, <1>3, <1>4, <1>5, StringCharSoFar, StringQuoteSoFar DEF StringStep

\* What the property says of the token that is added when a string is closed.
LEMMA ClosedString == ASSUME LexerInv, StringInv, CloseString PROVE StringIsItsText'
<1>1. /\ mode = "string_end" /\ Running /\ UNCHANGED <<input, scratch, quote>>
      /\ Emit(<<"STRING_LITERAL">>, FALSE)
  BY DEF CloseString, Emit, Running, Modes, textVars
<1>2. PICK text, p, h, o, n, l, before :
        /\ text = SubSeq(input, start.position, here.position - 1)
        /\ p = start.position /\ h = here.position /\ o = Opening /\ n = quote.count
        /\ l = Len(scratch) /\ before = IF quote.raw THEN quote.count + 1 ELSE quote.count
  OBVIOUS
<1>3. LastText' = text
  <2>1. LastToken'.location = start /\ LastToken'.end = here.position
    BY <1>1, EmitsOne
  <2>. QED  BY <1>1, <1>2, <2>1 DEF LastText, substr
<1>4. /\ quote \in [raw : BOOLEAN, count : Nat, row : Nat] /\ scratch \in Seq(Range(scratch))
      /\ n \in {1, 3} /\ quote.row = n
  BY <1>1, <1>2 DEF StringInv, Kept, QuotesSoFar, InString, StringModes
<1>5. /\ p \in Nat \ {0} /\ h \in Nat /\ p <= h /\ h <= Len(input) + 1 /\ input \in Seq(STRING)
      /\ before \in Nat /\ o = p + before /\ l \in Nat
  <2>1. Opening = start.position + before
    <3>1. start.position \in Nat /\ quote.count \in Nat
      BY <1>4, PlaceTypes
    <3>. QED  BY <1>2, <3>1 DEF Opening
  <2>. QED  BY <1>1, <1>2, <1>4, <2>1, PlaceTypes, InputIsText, SMTT(30) DEF LexerInv, TypeOK
<1>6. /\ Len(text) = h - p
      /\ \A i \in 1 .. h - p : text[i] = input[p + i - 1]
  <2>1. text = SubSeq(input, p, h - 1)
    BY <1>2
  <2>. QED  BY <1>5, <2>1, SubText
<1>7. text \in Seq(STRING)
  <2>1. \A i \in p .. h - 1 : input[i] \in STRING
    BY <1>5
  <2>2. p \in Int /\ h - 1 \in Int
    BY <1>5
  <2>. QED  BY <1>2, <2>1, <2>2, SubSeqProperties
<1>8. SUFFICES ASSUME \A i \in DOMAIN text : text[i] # "\r" /\ (text[i] = "\\" => quote.raw)
      PROVE  scratch = [i \in DOMAIN SubSeq(text, before + 1, Len(text) - n)
                          |-> <<SubSeq(text, before + 1, Len(text) - n)[i]>>]
  BY <1>1, <1>2, <1>3, Zenon DEF StringIsItsText
<1>9. Verbatim(p, h)
  <2>1. SUFFICES ASSUME NEW i \in p .. h - 1
                 PROVE  input[i] # "\r" /\ (input[i] = "\\" => quote.raw)
    BY DEF Verbatim
  <2>2. i - p + 1 \in 1 .. h - p /\ p + (i - p + 1) - 1 = i
    BY <1>5
  <2>3. i - p + 1 \in DOMAIN text
    BY <1>6, <1>7, <2>2
  <2>. QED  BY <1>6, <1>8, <2>2, <2>3
<1>10. o + l + n = h /\ \A i \in 1 .. l : scratch[i] = <<input[o + i - 1]>>
  BY <1>1, <1>2, <1>4, <1>9 DEF StringInv, BodySoFar, StringModes
<1>11. PICK body, q : body = SubSeq(text, before + 1, Len(text) - n) /\ q = before + l + 1
  OBVIOUS
<1>12. Len(body) = l /\ \A i \in 1 .. l : body[i] = text[before + i]
  <2>1. /\ Len(text) - n = q - 1 /\ q - (before + 1) = l
        /\ before + 1 \in Nat \ {0} /\ q \in Nat /\ before + 1 <= q /\ q <= Len(text) + 1
    BY <1>4, <1>5, <1>6, <1>10, <1>11
  <2>2. body = SubSeq(text, before + 1, q - 1)
    BY <1>11, <2>1
  <2>3. PICK m : m = before + 1
    OBVIOUS
  <2>4. /\ Len(SubSeq(text, m, q - 1)) = q - m
        /\ \A i \in 1 .. q - m : SubSeq(text, m, q - 1)[i] = text[m + i - 1]
    BY <1>7, <2>1, <2>3, SubText
  <2>5. q - m = l /\ \A i \in 1 .. l : m + i - 1 = before + i
    BY <1>5, <2>1, <2>3
  <2>. QED  BY <2>2, <2>3, <2>4, <2>5
<1>13. \A i \in 1 .. l : body[i] = input[o + i - 1]
  <2>1. SUFFICES ASSUME NEW i \in 1 .. l PROVE body[i] = input[o + i - 1]
    OBVIOUS
  <2>2. before + i \in 1 .. h - p /\ p + (before + i) - 1 = o + i - 1
    BY <1>4, <1>5, <1>10
  <2>. QED  BY <1>6, <1>12, <2>2
<1>14. body \in Seq(STRING)
  <2>1. \A i \in before + 1 .. Len(text) - n : text[i] \in STRING
    BY <1>4, <1>5, <1>6, <1>7
  <2>2. before + 1 \in Int /\ Len(text) - n \in Int
    BY <1>4, <1>5, <1>6
  <2>. QED  BY <1>11, <2>1, <2>2, SubSeqProperties
<1>15. DOMAIN body = 1 .. l
  BY <1>12, <1>14
<1>16. PICK s : s = scratch
  OBVIOUS
<1>17. s = [i \in 1 .. l |-> s[i]]
  BY <1>2, <1>4, <1>16
<1>18. \A i \in 1 .. l : s[i] = <<body[i]>>
  BY <1>10, <1>13, <1>16
<1>. QED  BY <1>11, <1>15, <1>16, <1>17, <1>18

LEMMA StringInvInit == Init => StringInv
<1>1. SUFFICES ASSUME Init PROVE StringInv
  OBVIOUS
<1>2. /\ mode = "token" /\ tokens = <<>> /\ scratch = <<>>
      /\ quote = [raw |-> FALSE, count |-> 0, row |-> 0]
  BY <1>1 DEF Init, StateInit, TextInit, NoQuote
<1>3. <<>> \in Seq(Range(<<>>))
  OBVIOUS
<1>4. StringIsItsText
  BY <1>2, Zenon DEF StringIsItsText, Completed
<1>. QED
  BY <1>2, <1>3, <1>4 DEF StringInv, Kept, QuotesSoFar, EscapeSoFar, BodySoFar, InString, StringModes

LEMMA StringInvNext == LexerInv /\ StringInv /\ [Next]_vars => StringInv'
<1>1. ASSUME LexerInv, StringInv, Next PROVE StringInv'
  <2>1. Kept'
    BY <1>1, KeptNext DEF StringInv
  <2>2. SoFar'
    BY <1>1, BeginSoFar, CharSoFar, EscapesSoFar, StringSoFar DEF Next, TextStep
  <2>3. EmptyString => StringIsItsText'
    <3>1. EmptyString => quote' = quote /\ quote.count \in {2, 6}
      BY Zenon DEF EmptyString, textVars
    <3>2. EmptyString => quote'.count \notin {1, 3}
      BY <3>1
    <3>. QED  BY <3>2, Zenon DEF StringIsItsText
  <2>4. StringIsItsText'
    BY <1>1, <2>3, ClosedString, StringKept
  <2>. QED  BY <2>1, <2>2, <2>4 DEF StringInv, SoFar
<1>2. ASSUME StringInv, UNCHANGED vars PROVE StringInv'
  <2>1. UNCHANGED <<input, here, mode, start, tokens, scratch, quote, reader>>
    BY <1>2 DEF vars, sourceVars, resultVars, textVars
  <2>2. Kept' /\ SoFar'
    <3>1. Kept'
      BY <1>2, <2>1 DEF StringInv, Kept
    <3>2. (InString' <=> InString) /\ Opening' = Opening
      BY <2>1 DEF InString, StringModes, Opening
    <3>3. Verbatim(start.position, here.position)' <=> Verbatim(start.position, here.position)
      BY <2>1 DEF Verbatim
    <3>4. QuotesSoFar' /\ EscapeSoFar'
      BY <1>2, <2>1, <3>2, <3>3 DEF StringInv, QuotesSoFar, EscapeSoFar, StringModes
    <3>5. BodySoFar'
      BY <1>2, <2>1, <3>2, <3>3 DEF StringInv, BodySoFar, StringModes
    <3>. QED  BY <3>1, <3>4, <3>5 DEF SoFar
  <2>3. StringIsItsText'
    BY <1>2, <2>1, ZenonT(30) DEF StringInv, StringIsItsText, Completed, LastText, LastToken, LastEnd,
                             substr
  <2>. QED  BY <2>2, <2>3 DEF StringInv, SoFar
<1>. QED  BY <1>1, <1>2

-----------------------------------------------------------------------------
(* The theorems                                                            *)

LEMMA GapInvInit == Init => GapInv
<1>1. SUFFICES ASSUME Init PROVE GapInv
  OBVIOUS
<1>2. mode = "token" /\ tokens = <<>> /\ here.position = 1
  BY <1>1 DEF Init, StateInit, Beginning
<1>3. Blank(1, 1)
  BY BlankNothing
<1>4. GapsAreBlank /\ NoWMeansTouching
  BY <1>2 DEF GapsAreBlank, NoWMeansTouching
<1>. QED
  BY <1>2, <1>3, <1>4 DEF GapInv, BlankSoFar, CommentSoFar, WordSoFar, TouchesSoFar,
     CommentModes, LastEnd, Running

LEMMA GapInvNext == LexerInv /\ GapInv /\ [Next]_vars => GapInv'
<1>1. CASE Next
  BY <1>1, TokensNext, BlankNext, CommentNext, WordNext, TouchesNext DEF GapInv
<1>2. ASSUME UNCHANGED vars, GapInv PROVE GapInv'
  <2>1. UNCHANGED <<input, here, white, tokens, mode, start>>
    BY <1>2 DEF vars, sourceVars, resultVars
  <2>2. (\A p, q : Blank(p, q)' <=> Blank(p, q)) /\ LastEnd' = LastEnd /\ Read' = Read
    BY <2>1, SameText DEF LastEnd, Read, substr_after, substr
  <2>3. GapsAreBlank'
    BY <1>2, <2>1, <2>2 DEF GapInv, GapsAreBlank
  <2>4. NoWMeansTouching'
    BY <1>2, <2>1 DEF GapInv, NoWMeansTouching, WhiteBetween
  <2>5. BlankSoFar' /\ WordSoFar' /\ TouchesSoFar'
    BY <1>2, <2>1, <2>2 DEF GapInv, BlankSoFar, WordSoFar, TouchesSoFar, Running
  <2>6. CommentSoFar'
    BY <1>2, <2>1 DEF GapInv, CommentSoFar, CommentEnds
  <2>. QED  BY <2>3, <2>4, <2>5, <2>6 DEF GapInv
<1>. QED  BY <1>1, <1>2

LEMMA GapInvariant == Spec => []GapInv
  BY GapInvInit, GapInvNext, LexerInvariant, PTL DEF Spec

\* The lexer drops no character of any text: what is between two tokens, and before the
\* first, is white space and whole comments, and a complete row of tokens reaches the
\* end of the text, with its one END_OF_FILE there.
THEOREM NothingIsDropped == Spec => []GapsAreBlank
  BY GapInvariant, PTL DEF GapInv

\* A token is of the _NO_W type of its two if and only if it touches the token before
\* it, for every text, though the flag that chooses the type was set many steps before.
THEOREM VariantsAreRight == Spec => []NoWMeansTouching
  BY GapInvariant, PTL DEF GapInv

LEMMA StringInvariant == Spec => []StringInv
  BY LexerInvariant, StringInvInit, StringInvNext, PTL DEF Spec

\* A string without escapes and carriage returns is kept as it is written, for every
\* text: the quotes in a row that did not close it are in it, in their place, and those
\* that closed it are not.
THEOREM StringsAreTheirText == Spec => []StringIsItsText
  BY StringInvariant, PTL DEF StringInv

-----------------------------------------------------------------------------
(* Numbers.  The text is followed from its start to where read_number()    *)
(* has got to: the parts read so far, joined, are that text                *)
(* (WrittenSoFar), in all of the phases and over the way back to a leading *)
(* zero that is no prefix.                                                 *)

NumberTypes == {<<"NUMBER">>, <<"NUMBER_FIELD">>}
NumberModes == {"integer", "fraction", "exponent_sign", "exponent_begin", "exponent"}
\* The provers do not know what a string is: that the point is one is said here.
Character   == STRING \cup {"."}
Characters  == Seq(Character)

LiteralRecord ==
  [base : Int, assumed_octal : BOOLEAN, at_boundary : BOOLEAN, underscore : BOOLEAN,
   base_prefix : Characters, integer_digits : Characters, has_decimal_point : BOOLEAN,
   fractional_digits : Characters, exponent_prefix : Characters,
   exponent_sign : Characters, exponent_digits : Characters]

\* The parts of a number, one after the other.
Point(l)        == IF l.has_decimal_point THEN <<".">> ELSE <<>>
UpToInteger(l)  == l.base_prefix \o l.integer_digits
UpToPoint(l)    == UpToInteger(l) \o Point(l)
UpToFraction(l) == UpToPoint(l) \o l.fractional_digits
UpToMark(l)     == UpToFraction(l) \o l.exponent_prefix
UpToSign(l)     == UpToMark(l) \o l.exponent_sign
Written(l)      == UpToSign(l) \o l.exponent_digits

\* The inductive invariant, in parts.  A part of the number that has not been come
\* to is empty, and an exponent's digits begin at a boundary, ...
PartsInOrder(m, l) ==
  /\ m = "integer" => ~ l.has_decimal_point /\ l.fractional_digits = <<>>
  /\ m \in {"integer", "fraction"} => l.exponent_prefix = <<>>
  /\ m \in {"integer", "fraction", "exponent_sign"} => l.exponent_sign = <<>>
  /\ m \in NumberModes \ {"exponent"} => l.exponent_digits = <<>>
  /\ m \in {"exponent_sign", "exponent_begin"} => l.at_boundary /\ ~ l.underscore

\* ... the parts are what has been read, ...
WrittenSoFar ==
  /\ mode = "number" => here.position = start.position
  /\ mode \in NumberModes => substr_after(start.position) = Written(literal)

\* ... a prefix that may turn out to be a digit is a zero, ...
ZeroFirst ==
  mode \in NumberModes /\ literal.assumed_octal =>
    /\ literal.base_prefix = <<"0">>
    /\ start.position < here.position /\ input[start.position] = "0"

\* (The provers cannot read the character.)
Underscore == "_"

\* ... an underscore before position `end' is where it may be, or the last character
\* read, which the flag says, ...
Separates(i, end, l) ==
  /\ start.position < i
  /\ input[i - 1] \in HexDigits \/ i - start.position = Len(l.base_prefix)
  /\ IF i + 1 = end THEN l.underscore ELSE input[i + 1] \in HexDigits
UnderscoresSoFar ==
  mode \in NumberModes =>
    \A i \in start.position .. here.position - 1 :
      input[i] = Underscore => Separates(i, here.position, literal)

\* ... and off the boundary the last character is a digit, an underscore or the end
\* of the prefix.
OffBoundary ==
  mode \in NumberModes /\ ~ literal.at_boundary =>
    /\ start.position < here.position
    /\ \/ input[here.position - 1] \in HexDigits \cup {Underscore}
       \/ here.position - start.position = Len(literal.base_prefix)

NumberSoFar == WrittenSoFar /\ ZeroFirst /\ UnderscoresSoFar /\ OffBoundary
NumberInv ==
  /\ literal \in LiteralRecord /\ PartsInOrder(mode, literal) /\ NumberSoFar
  /\ NumberIsItsText /\ UnderscoresSeparateDigits

-----------------------------------------------------------------------------
(* Joining parts                                                           *)

\* Concatenation, Append and the empty sequence under names that the provers do
\* not look through.
Behind(s, t) == s \o t
Added(s, c) == Append(s, c)
None == <<>>

LEMMA BehindRows ==
  ASSUME NEW S, NEW s \in Seq(S), NEW t \in Seq(S)
  PROVE  Behind(s, t) \in Seq(S) /\ Behind(s, <<>>) = s /\ Behind(<<>>, s) = s
  BY ConcatEmptySeq DEF Behind

LEMMA AddedBehind ==
  ASSUME NEW S, NEW s \in Seq(S), NEW t \in Seq(S), NEW c \in S
  PROVE  Added(t, c) \in Seq(S) /\ Added(Behind(s, t), c) = Behind(s, Added(t, c))
<1>. <<c>> \in Seq(S)
  OBVIOUS
<1>1. s \o t \in Seq(S) /\ Append(t, c) \in Seq(S)
  OBVIOUS
<1>2. \A q \in Seq(S) : Append(q, c) = q \o <<c>>
  BY AppendIsConcat, Zenon
<1>3. (s \o t) \o <<c>> = s \o (t \o <<c>>)
  BY ConcatAssociative
<1>4. Append(s \o t, c) = (s \o t) \o <<c>> /\ Append(t, c) = t \o <<c>>
  BY <1>1, <1>2
<1>. QED  BY <1>1, <1>3, <1>4 DEF Behind, Added

LEMMA AddedRows ==
  ASSUME NEW S
  PROVE  \A s \in Seq(S), t \in Seq(S), c \in S :
           Added(t, c) \in Seq(S) /\ Added(Behind(s, t), c) = Behind(s, Added(t, c))
  BY AddedBehind

LEMMA Rows ==
  /\ None \in Characters
  /\ \A s \in Characters, t \in Characters : Behind(s, t) \in Characters
  /\ \A s \in Characters, c \in Character : Added(s, c) \in Characters
  /\ \A s \in Characters, t \in Characters, c \in Character :
        Added(Behind(s, t), c) = Behind(s, Added(t, c))
  /\ \A s \in Characters : Behind(s, None) = s /\ Behind(None, s) = s
<1>. None \in Characters
  BY DEF Characters, None
<1>1. \A s \in Characters, t \in Characters :
        Behind(s, t) \in Characters /\ Behind(s, None) = s /\ Behind(None, s) = s
  BY BehindRows DEF Characters, None
<1>2. \A s \in Characters, t \in Characters, c \in Character :
        Added(t, c) \in Characters /\ Added(Behind(s, t), c) = Behind(s, Added(t, c))
  BY AddedRows DEF Characters
<1>. QED  BY <1>1, <1>2

LEMMA PointRow == <<".">> \in Characters /\ <<".">> = Added(None, ".")
<1>1. "." \in Character
  BY DEF Character
<1>2. <<".">> = Added(None, ".")
  BY DEF Added, None
<1>. QED  BY <1>1, <1>2, Rows

\* The parts behind the last that is not empty do not matter.
LEMMA Parts ==
  ASSUME NEW l \in LiteralRecord
  PROVE  /\ UpToInteger(l) \in Characters /\ UpToInteger(l) = Behind(l.base_prefix, l.integer_digits)
         /\ UpToPoint(l) \in Characters /\ UpToPoint(l) = Behind(UpToInteger(l), Point(l))
         /\ UpToFraction(l) \in Characters
         /\ UpToFraction(l) = Behind(UpToPoint(l), l.fractional_digits)
         /\ UpToMark(l) \in Characters /\ UpToMark(l) = Behind(UpToFraction(l), l.exponent_prefix)
         /\ UpToSign(l) \in Characters /\ UpToSign(l) = Behind(UpToMark(l), l.exponent_sign)
         /\ Written(l) \in Characters /\ Written(l) = Behind(UpToSign(l), l.exponent_digits)
         /\ ~ l.has_decimal_point => UpToPoint(l) = UpToInteger(l)
         /\ l.fractional_digits = None => UpToFraction(l) = UpToPoint(l)
         /\ l.exponent_prefix = None => UpToMark(l) = UpToFraction(l)
         /\ l.exponent_sign = None => UpToSign(l) = UpToMark(l)
         /\ l.exponent_digits = None => Written(l) = UpToSign(l)
<1>1. /\ UpToInteger(l) = Behind(l.base_prefix, l.integer_digits)
      /\ UpToPoint(l) = Behind(UpToInteger(l), Point(l))
      /\ UpToFraction(l) = Behind(UpToPoint(l), l.fractional_digits)
      /\ UpToMark(l) = Behind(UpToFraction(l), l.exponent_prefix)
      /\ UpToSign(l) = Behind(UpToMark(l), l.exponent_sign)
      /\ Written(l) = Behind(UpToSign(l), l.exponent_digits)
  BY DEF UpToInteger, UpToPoint, UpToFraction, UpToMark, UpToSign, Written, Behind
<1>2. /\ Point(l) \in Characters
      /\ ~ l.has_decimal_point => Point(l) = None
  BY PointRow, Rows DEF Point, None
<1>3. /\ l.base_prefix \in Characters /\ l.integer_digits \in Characters
      /\ l.fractional_digits \in Characters /\ l.exponent_prefix \in Characters
      /\ l.exponent_sign \in Characters /\ l.exponent_digits \in Characters
  BY DEF LiteralRecord
<1>4. UpToInteger(l) \in Characters
  BY <1>1, <1>3, Rows
<1>5. UpToPoint(l) \in Characters
  BY <1>1, <1>2, <1>4, Rows
<1>6. UpToFraction(l) \in Characters
  BY <1>1, <1>3, <1>5, Rows
<1>7. UpToMark(l) \in Characters
  BY <1>1, <1>3, <1>6, Rows
<1>8. UpToSign(l) \in Characters
  BY <1>1, <1>3, <1>7, Rows
<1>9. Written(l) \in Characters
  BY <1>1, <1>3, <1>8, Rows
<1>10. \A s \in Characters : Behind(s, None) = s
  BY Rows
<1>. QED
  BY <1>1, <1>2, <1>4, <1>5, <1>6, <1>7, <1>8, <1>9, <1>10

-----------------------------------------------------------------------------
(* Steps of the other read functions                                       *)

\* None of them is in the middle of a number, or emits one.
Elsewhere ==
  \/ mode' \notin NumberModes \cup {"number", "token"}
  \/ mode' = "number" /\ here' = start'
  \/ mode' = "token" /\ \E type, no_w : type \notin NumberTypes /\ Emit(type, no_w)
  \/ mode' = "token" /\ tokens' = tokens /\ here'.position > LastEnd

LEMMA EmitsElsewhere ==
  ASSUME NEW type, type \notin NumberTypes, NEW no_w, Emit(type, no_w)
  PROVE  Elsewhere
  BY DEF Elsewhere, Emit

LEMMA TextElsewhere == ASSUME reader \in Readers, TextStep PROVE Elsewhere
<1>. DEFINE Away == mode' \notin NumberModes \cup {"number", "token"}
<1>. USE DEF NumberModes, Throw, Readers, resultVars
<1>1. StringStep => Away \/ Emit(<<"STRING_LITERAL">>, FALSE)
  BY DEF StringStep, OpeningQuote, EmptyString, OpenString, StringChar, StringReturn,
         StringQuote, CloseString, StringError
<1>2. EscapeStep => Away
  BY DEF EscapeStep, Backslash, SimpleEscape, EscapedLineEnd, AfterEscapedReturn,
         HexEscape, HexChar, NotHexChar, EscapeError, Resume
<1>3. CharStep => Away \/ Emit(<<"CHAR_LITERAL">>, FALSE)
  BY DEF CharStep, CharContent, NextByte, ByteEscape, NotByteEscape, ClosingQuote,
         CloseChar, NotOneCodePoint, CharError
<1>4. QuotedStep => Away \/ Emit(<<"QUOTED_IDENTIFIER">>, ~ white)
  BY DEF QuotedStep, QuotedChar, ClosingBacktick, CloseQuotedIdent, QuotedError
<1>5. Away => Elsewhere
  BY DEF Elsewhere
<1>. HIDE DEF Away
<1>. QED
  BY <1>1, <1>2, <1>3, <1>4, <1>5, EmitsElsewhere DEF TextStep, NumberTypes

LEMMA OtherElsewhere ==
  ASSUME LexerInv, TokenStep \/ OperatorStep \/ CommentStep \/ WordStep
  PROVE  Elsewhere
<1>. USE DEF Elsewhere, NumberModes, NumberTypes, Throw, ThrowPastEnd
<1>1. CASE TokenStep
  <2>1. ASSUME SkipWhitespace PROVE here'.position > LastEnd
    BY <2>1, Reading, PlaceTypes DEF LexerInv, SkipWhitespace, ReadsOne
  <2>. QED
    BY <1>1, <2>1 DEF TokenStep, EndOfFile, SkipWhitespace, BeginOperator, BeginNumber,
       BeginWord, BeginString, BeginLiteral, UnexpectedCharacter, Begin, sourceVars, resultVars
<1>2. CASE OperatorStep
  <2>1. Read \in Operators => Read \notin NumberTypes
    BY OperatorSpelling DEF Names
  <2>2. ASSUME CloseOperator PROVE Elsewhere
    BY <2>1, <2>2, EmitsElsewhere DEF CloseOperator
  <2>. QED
    BY <1>2, <2>2 DEF OperatorStep, ReadOperator, PointBeforeDigit, TwoPoints, PeekPastEnd,
       SetLocation, resultVars
<1>3. CASE CommentStep
  <2>1. /\ mode \in {"line_comment", "block_comment", "star"} /\ tokens' = tokens
        /\ mode' \in {"token", "line_comment", "block_comment", "star"}
        /\ Consume \/ here' = here
    BY <1>3 DEF CommentStep, SkipLineComment, SkipBlockComment, CommentAtEnd, sourceVars,
                resultVars
  <2>2. start.position < here.position /\ Running
    BY <2>1 DEF LexerInv, Begun, Consumed, Modes, Running
  <2>3. here'.position >= here.position
    BY <2>1, Reading, PlaceTypes DEF LexerInv, ReadsOne
  <2>4. here.position \in Nat /\ here'.position \in Nat /\ start.position \in Nat
    BY <2>1, Reading, PlaceTypes DEF LexerInv, ReadsOne
  <2>. QED  BY <2>1, <2>2, <2>3, <2>4, PlaceTypes
<1>4. CASE WordStep
  <2>1. Read \in ReservedWords => Read \notin NumberTypes
    BY KeywordsHaveNoNames DEF Names
  <2>2. ASSUME CloseWord PROVE Elsewhere
    BY <2>1, <2>2, EmitsElsewhere DEF CloseWord
  <2>. QED
    BY <1>4, <2>2 DEF WordStep, RawString, NotRaw, ReadWord, resultVars
<1>. QED  BY <1>1, <1>2, <1>3, <1>4

\* No number has been read then.
LEMMA NoNumberElsewhere ==
  ASSUME LexerInv, Elsewhere
  PROVE  NumberSoFar' /\ ~ Completed(NumberTypes)'
<1>1. ~ Completed(NumberTypes)'
  <2>1. ASSUME mode' = "token", NEW type, NEW no_w, type \notin NumberTypes, Emit(type, no_w)
        PROVE  ~ Completed(NumberTypes)'
    BY <2>1, AppendOne DEF Emit, Completed, LastToken, Token, LexerInv, TypeOK
  <2>2. ASSUME tokens' = tokens, here'.position > LastEnd
        PROVE  ~ Completed(NumberTypes)'
    BY <2>2, PlaceTypes DEF Completed, LastEnd
  <2>. QED  BY <2>1, <2>2 DEF Elsewhere, Completed
<1>2. mode' \notin NumberModes /\ (mode' = "number" => here' = start')
  BY DEF Elsewhere, NumberModes
<1>. QED
  BY <1>1, <1>2 DEF NumberSoFar, WrittenSoFar, ZeroFirst, UnderscoresSoFar, OffBoundary

-----------------------------------------------------------------------------
(* Characters of a number                                                  *)

LEMMA InputRow ==
  ASSUME TypeOK
  PROVE  /\ input \in Seq(Character) /\ Len(input) \in Nat
         /\ \A i \in 1 .. Len(input) : input[i] \in Character
<1>1. input \in Seq(STRING) /\ STRING \subseteq Character
  BY InputIsText DEF Character
<1>2. input \in Seq(Character)
  BY <1>1, SeqMonotonic
<1>. QED  BY <1>2, ElementOfSeq

\* What has been read grows by the character read.
LEMMA TextGrows ==
  ASSUME TypeOK, NEW first \in 1 .. Len(input), NEW end \in first .. Len(input)
  PROVE  /\ substr(first, end + 1) = Added(substr(first, end), input[end])
         /\ substr(first, first) = <<>> /\ substr(first, end) \in Characters
<1>1. input \in Seq(Character) /\ Len(input) \in Nat
  BY InputRow
<1>2. substr(first, end) \in Seq(Character) /\ substr(first, first) = <<>>
  BY <1>1, SubSeqProperties, SubSeqEmpty DEF substr
<1>3. input[end] \in Character
  BY InputRow
<1>4. SubSeq(input, first, end) = SubSeq(input, first, end - 1) \o <<input[end]>>
  BY <1>1, SubSeqRecursiveSecond
<1>5. Append(substr(first, end), input[end]) = substr(first, end) \o <<input[end]>>
  BY <1>2, <1>3, AppendIsConcat
<1>6. end + 1 - 1 = end
  BY <1>1
<1>. QED
  BY <1>2, <1>4, <1>5, <1>6 DEF substr, Added, Characters

\* Where a number ends as long as it is read in a mode.
LEMMA Ends ==
  ASSUME NEW l \in LiteralRecord, NEW m, PartsInOrder(m, l)
  PROVE  /\ m = "integer" => Written(l) = UpToInteger(l)
         /\ m \in {"integer", "fraction"} => Written(l) = UpToFraction(l)
         /\ m = "exponent_sign" => Written(l) = UpToMark(l)
         /\ m = "exponent_begin" => Written(l) = UpToSign(l)
<1>1. m \in NumberModes \ {"exponent"} => Written(l) = UpToSign(l)
  BY Parts DEF PartsInOrder, None
<1>2. m \in {"integer", "fraction", "exponent_sign"} => Written(l) = UpToMark(l)
  BY <1>1, Parts DEF PartsInOrder, None, NumberModes
<1>3. m \in {"integer", "fraction"} => Written(l) = UpToFraction(l)
  BY <1>2, Parts DEF PartsInOrder, None
<1>4. m = "integer" => Written(l) = UpToInteger(l)
  BY <1>3, Parts DEF PartsInOrder, None
<1>. QED  BY <1>1, <1>2, <1>3, <1>4 DEF NumberModes

\* A digit or an underscore goes to the part that is being read.
With(l, part, c, u) == [l EXCEPT ![part] = Append(@, c), !.underscore = u]
WithInside(l, part, c, u) ==
  [l EXCEPT ![part] = Append(@, c), !.underscore = u, !.at_boundary = FALSE]

LEMMA DigitAdded ==
  ASSUME literal \in LiteralRecord, PartsInOrder(mode, literal), InDigits,
         NEW c \in Character, NEW u \in BOOLEAN, NEW new,
         \/ new = With(literal, Part, c, u) /\ ~ literal.at_boundary
         \/ new = WithInside(literal, Part, c, u)
  PROVE  /\ new \in LiteralRecord /\ PartsInOrder(mode, new)
         /\ Written(new) = Added(Written(literal), c)
         /\ new.base_prefix = literal.base_prefix /\ new.assumed_octal = literal.assumed_octal
         /\ new.underscore = u /\ new.at_boundary = FALSE
<1>1. /\ literal.base_prefix \in Characters /\ literal.integer_digits \in Characters
      /\ literal.fractional_digits \in Characters /\ literal.exponent_prefix \in Characters
      /\ literal.exponent_sign \in Characters /\ literal.exponent_digits \in Characters
  BY DEF LiteralRecord
<1>2. \A s \in Characters : Added(s, c) \in Characters
  BY Rows
<1>3. \A s, t \in Characters : Added(Behind(s, t), c) = Behind(s, Added(t, c))
  BY Rows
<1>4. CASE mode = "integer"
  <2>1. \/ new = [literal EXCEPT !.integer_digits = Added(@, c), !.underscore = u,
                      !.at_boundary = FALSE]
        \/ /\ new = [literal EXCEPT !.integer_digits = Added(@, c), !.underscore = u]
           /\ ~ literal.at_boundary
    BY <1>4, Zenon DEF With, WithInside, Part, Added
  <2>2. new \in LiteralRecord /\ PartsInOrder(mode, new)
    BY <1>1, <1>2, <1>4, <2>1 DEF LiteralRecord, PartsInOrder, NumberModes
  <2>3. new.integer_digits = Added(literal.integer_digits, c)
    BY <2>1 DEF LiteralRecord
  <2>4. new.base_prefix = literal.base_prefix
    BY <2>1 DEF LiteralRecord
  <2>5. UpToInteger(new) = Added(UpToInteger(literal), c)
    <3>1. UpToInteger(new) = Behind(literal.base_prefix, Added(literal.integer_digits, c))
      BY <2>2, <2>3, <2>4, Parts
    <3>2. UpToInteger(literal) = Behind(literal.base_prefix, literal.integer_digits)
      BY Parts
    <3>. QED  BY <1>1, <1>3, <3>1, <3>2, Parts
  <2>6. Written(new) = Added(Written(literal), c)
    BY <1>4, <2>2, <2>5, Ends
  <2>. QED  BY <2>1, <2>2, <2>6 DEF LiteralRecord
<1>5. CASE mode = "fraction"
  <2>1. \/ new = [literal EXCEPT !.fractional_digits = Added(@, c), !.underscore = u,
                      !.at_boundary = FALSE]
        \/ /\ new = [literal EXCEPT !.fractional_digits = Added(@, c), !.underscore = u]
           /\ ~ literal.at_boundary
    BY <1>5, Zenon DEF With, WithInside, Part, Added
  <2>2. new \in LiteralRecord /\ PartsInOrder(mode, new)
    BY <1>1, <1>2, <1>5, <2>1 DEF LiteralRecord, PartsInOrder, NumberModes
  <2>3. new.fractional_digits = Added(literal.fractional_digits, c)
    BY <2>1 DEF LiteralRecord
  <2>4. UpToPoint(new) = UpToPoint(literal)
    BY <2>1 DEF UpToPoint, UpToInteger, Point, LiteralRecord
  <2>5. UpToFraction(new) = Added(UpToFraction(literal), c)
    <3>1. UpToFraction(new) = Behind(UpToPoint(literal), Added(literal.fractional_digits, c))
      BY <2>2, <2>3, <2>4, Parts
    <3>2. UpToFraction(literal) = Behind(UpToPoint(literal), literal.fractional_digits)
      BY Parts
    <3>. QED  BY <1>1, <1>3, <3>1, <3>2, Parts
  <2>6. Written(new) = Added(Written(literal), c)
    BY <1>5, <2>2, <2>5, Ends
  <2>. QED  BY <2>1, <2>2, <2>6 DEF LiteralRecord
<1>6. CASE mode = "exponent"
  <2>1. \/ new = [literal EXCEPT !.exponent_digits = Added(@, c), !.underscore = u,
                      !.at_boundary = FALSE]
        \/ /\ new = [literal EXCEPT !.exponent_digits = Added(@, c), !.underscore = u]
           /\ ~ literal.at_boundary
    BY <1>6, Zenon DEF With, WithInside, Part, Added
  <2>2. new \in LiteralRecord /\ PartsInOrder(mode, new)
    BY <1>1, <1>2, <1>6, <2>1 DEF LiteralRecord, PartsInOrder, NumberModes
  <2>3. new.exponent_digits = Added(literal.exponent_digits, c)
    BY <2>1 DEF LiteralRecord
  <2>4. UpToSign(new) = UpToSign(literal)
    BY <2>1 DEF UpToSign, UpToMark, UpToFraction, UpToPoint, UpToInteger, Point, LiteralRecord
  <2>5. Written(new) = Added(Written(literal), c)
    <3>1. Written(new) = Behind(UpToSign(literal), Added(literal.exponent_digits, c))
      BY <2>2, <2>3, <2>4, Parts
    <3>2. Written(literal) = Behind(UpToSign(literal), literal.exponent_digits)
      BY Parts
    <3>. QED  BY <1>1, <1>3, <3>1, <3>2, Parts
  <2>6. Written(new) = Added(Written(literal), c)
    BY <1>6, <2>2, <2>5, Ends
  <2>. QED  BY <2>1, <2>2, <2>6 DEF LiteralRecord
<1>. QED  BY <1>4, <1>5, <1>6 DEF InDigits

-----------------------------------------------------------------------------
(* Steps within a number                                                   *)

\* A prefix stays, or turns out to be a digit.
KeepsPrefix ==
  \/ /\ literal'.base_prefix = literal.base_prefix
     /\ literal'.assumed_octal => literal.assumed_octal
  \/ literal.assumed_octal /\ ~ literal'.assumed_octal /\ literal'.base_prefix = <<>>

\* What is said of the characters read so far stays true of them.
LEMMA StillSeparates ==
  ASSUME NumberInv, mode \in NumberModes, KeepsPrefix, UNCHANGED <<input, start>>,
         NEW i \in start.position .. here.position - 1, input[i] = Underscore,
         start.position \in Nat, here.position \in Nat
  PROVE  /\ start'.position < i
         /\ input'[i - 1] \in HexDigits \/ i - start'.position = Len(literal'.base_prefix)
         /\ i + 1 < here.position => input'[i + 1] \in HexDigits
         /\ i + 1 = here.position => literal.underscore
<1>1. Separates(i, here.position, literal)
  BY DEF NumberInv, NumberSoFar, UnderscoresSoFar
<1>2. CASE literal'.base_prefix = literal.base_prefix
  BY <1>1, <1>2 DEF Separates
<1>3. CASE literal.assumed_octal
  <2>1. literal.base_prefix = <<"0">> /\ input[start.position] = "0"
    BY <1>3 DEF NumberInv, NumberSoFar, ZeroFirst
  <2>2. i - start.position = 1 => input[i - 1] \in HexDigits
    BY <2>1 DEF HexDigits, Digits
  <2>3. Len(literal.base_prefix) = 1
    BY <2>1
  <2>. QED  BY <1>1, <2>2, <2>3 DEF Separates
<1>. QED  BY <1>2, <1>3 DEF KeepsPrefix

\* One more character of the number is read.
LEMMA OneMore ==
  ASSUME LexerInv, NumberInv, mode \in NumberModes, mode' \in NumberModes,
         ReadsPlain(1), KeepsPrefix, UNCHANGED <<input, start>>,
         NEW c, c = input[here.position],
         Written(literal') = Added(Written(literal), c),
         c = Underscore => ~ literal.at_boundary /\ ~ literal.underscore /\ literal'.underscore,
         literal.underscore => c \in HexDigits,
         ~ literal'.at_boundary => c \in HexDigits \cup {Underscore}
  PROVE  NumberSoFar'
<1>. DEFINE first == start.position  end == here.position
<1>1. /\ first \in 1 .. end /\ end \in 1 .. Len(input) /\ here'.position = end + 1
      /\ Len(input) \in Nat
  <2>1. Running
    BY DEF LexerInv, TypeOK, NumberModes, Running
  <2>2. Len(input) \in Nat
    BY InputRow DEF LexerInv
  <2>. QED  BY <2>1, <2>2, PlaceTypes DEF ReadsPlain
<1>2. WrittenSoFar'
  <2>1. substr(first, end + 1) = Added(substr(first, end), input[end])
    <3>1. first \in 1 .. Len(input) /\ end \in first .. Len(input)
      BY <1>1
    <3>. QED  BY <3>1, TextGrows DEF LexerInv
  <2>2. substr(first, end) = Written(literal)
    BY DEF NumberInv, NumberSoFar, WrittenSoFar, substr_after
  <2>3. substr_after(start.position)' = substr(first, end + 1)
    BY <1>1 DEF substr_after, substr
  <2>. QED  BY <2>1, <2>2, <2>3 DEF WrittenSoFar, NumberModes
<1>3. ZeroFirst'
  BY <1>1 DEF NumberInv, NumberSoFar, ZeroFirst, KeepsPrefix
<1>4. ASSUME NEW i \in first .. end, input[i] = Underscore
      PROVE  Separates(i, here.position, literal)'
  <2>1. CASE i < end
    <3>1. /\ start'.position < i
          /\ input'[i - 1] \in HexDigits \/ i - start'.position = Len(literal'.base_prefix)
          /\ i + 1 < end => input'[i + 1] \in HexDigits
          /\ i + 1 = end => literal.underscore
      BY <1>1, <1>4, <2>1, StillSeparates
    <3>. QED  BY <1>1, <2>1, <3>1 DEF Separates
  <2>2. CASE i = end
    <3>1. c = Underscore /\ ~ literal.at_boundary /\ ~ literal.underscore /\ literal'.underscore
      BY <1>4, <2>2
    <3>2. /\ first < end
          /\ input[end - 1] \in HexDigits \cup {Underscore} \/ end - first = Len(literal.base_prefix)
      BY <3>1 DEF NumberInv, NumberSoFar, OffBoundary
    <3>3. input[end - 1] # Underscore
      <4>1. ASSUME input[end - 1] = Underscore PROVE literal.underscore
        BY <1>1, <3>2, <4>1, StillSeparates
      <4>. QED  BY <3>1, <4>1
    <3>4. input[end - 1] \in HexDigits \/ end - first = Len(literal'.base_prefix)
      <4>1. CASE literal'.base_prefix = literal.base_prefix
        BY <3>2, <3>3, <4>1
      <4>2. CASE literal.assumed_octal
        <5>1. literal.base_prefix = <<"0">> /\ input[first] = "0"
          BY <4>2 DEF NumberInv, NumberSoFar, ZeroFirst
        <5>2. end - first = 1 => input[end - 1] \in HexDigits
          BY <1>1, <5>1 DEF HexDigits, Digits
        <5>. QED  BY <3>2, <3>3, <5>1, <5>2
      <4>. QED  BY <4>1, <4>2 DEF KeepsPrefix
    <3>. QED  BY <1>1, <2>2, <3>1, <3>2, <3>4 DEF Separates
  <2>. QED  BY <1>1, <2>1, <2>2
<1>5. UnderscoresSoFar'
  BY <1>1, <1>4 DEF UnderscoresSoFar
<1>6. OffBoundary'
  BY <1>1 DEF OffBoundary
<1>. QED  BY <1>2, <1>3, <1>5, <1>6 DEF NumberSoFar

LEMMA UnderscoreApart ==
  /\ Underscore \notin HexDigits \cup {".", "+", "-"} /\ Underscore \notin Letters
  /\ "0" \in HexDigits
  /\ \A base : DigitsOf(base) \subseteq HexDigits
<1>1. Underscore \notin HexDigits \cup {".", "+", "-"} /\ Underscore \notin Letters
  BY Zenon DEF Underscore, HexDigits, Digits, SmallHex, BigHex, Letters
<1>3. "0" \in HexDigits
  BY DEF HexDigits, Digits
<1>4. ASSUME NEW base PROVE DigitsOf(base) \subseteq HexDigits
  <2>1. {"0", "1"} \subseteq Digits
    BY DEF Digits
  <2>. QED  BY <2>1 DEF DigitsOf, HexDigits
<1>. QED  BY <1>1, <1>3, <1>4

\* In the middle of a number nothing is asked of the last token.
LEMMA WithinNumber ==
  ASSUME mode' # "token"
  PROVE  NumberIsItsText' /\ UnderscoresSeparateDigits'
  BY DEF NumberIsItsText, UnderscoresSeparateDigits, Completed

\* A number of which no more than a prefix has been read.
OnlyPrefix(base, octal, prefix, boundary) ==
  [base |-> base, assumed_octal |-> octal, at_boundary |-> boundary, underscore |-> FALSE,
   base_prefix |-> prefix, integer_digits |-> <<>>, has_decimal_point |-> FALSE,
   fractional_digits |-> <<>>, exponent_prefix |-> <<>>, exponent_sign |-> <<>>,
   exponent_digits |-> <<>>]

LEMMA Fresh ==
  ASSUME NEW p \in Characters, NEW base \in Int, NEW octal \in BOOLEAN, NEW b \in BOOLEAN
  PROVE  /\ OnlyPrefix(base, octal, p, b) \in LiteralRecord
         /\ PartsInOrder("integer", OnlyPrefix(base, octal, p, b))
         /\ Written(OnlyPrefix(base, octal, p, b)) = p
         /\ OnlyPrefix(base, octal, p, b).base_prefix = p
         /\ OnlyPrefix(base, octal, p, b).assumed_octal = octal
         /\ OnlyPrefix(base, octal, p, b).at_boundary = b
<1>. DEFINE l == OnlyPrefix(base, octal, p, b)
<1>. <<>> \in Characters
  BY Rows DEF None
<1>1. l \in LiteralRecord /\ PartsInOrder("integer", l)
  BY DEF OnlyPrefix, LiteralRecord, PartsInOrder, NumberModes
<1>2. /\ l.base_prefix = p /\ l.integer_digits = None
      /\ l.assumed_octal = octal /\ l.at_boundary = b
  BY DEF OnlyPrefix, None
<1>. HIDE DEF l
<1>3. Written(l) = Behind(p, None)
  BY <1>1, <1>2, Ends, Parts
<1>4. Written(l) = p
  BY <1>3, Rows
<1>. QED  BY <1>1, <1>2, <1>4 DEF l

LEMMA OneAppended == ASSUME NEW x, NEW y PROVE Append(<<x>>, y) = <<x, y>>
<1>. DEFINE S == {x, y}
<1>1. <<x>> \in Seq(S) /\ <<x, y>> \in Seq(S) /\ y \in S
  OBVIOUS
<1>2. /\ Len(<<x>>) = 1 /\ <<x>>[1] = x
      /\ Len(<<x, y>>) = 2 /\ <<x, y>>[1] = x /\ <<x, y>>[2] = y
  OBVIOUS
<1>3. /\ Append(<<x>>, y) \in Seq(S) /\ Len(Append(<<x>>, y)) = 2
      /\ Append(<<x>>, y)[1] = x /\ Append(<<x>>, y)[2] = y
  BY <1>1, <1>2, AppendProperties
<1>4. \A i \in 1 .. 2 : Append(<<x>>, y)[i] = <<x, y>>[i]
  BY <1>2, <1>3
<1>. QED  BY <1>1, <1>2, <1>3, <1>4, SeqEqual

LEMMA NumberBegins ==
  ASSUME LexerInv, NumberInv, NoBasePrefix \/ ReadBasePrefix \/ AssumeOctal
  PROVE  NumberInv'
<1>. DEFINE first == start.position
<1>0. TypeOK
  BY DEF LexerInv
<1>1. /\ mode = "number" /\ mode' = "integer" /\ UNCHANGED <<input, start>>
      /\ here.position = first /\ first \in Nat \ {0} /\ start'.position = first
  BY PlaceTypes
     DEF NumberInv, NumberSoFar, WrittenSoFar, NoBasePrefix, ReadBasePrefix, AssumeOctal,
         ConsumePlain, sourceVars
<1>2. NumberIsItsText' /\ UnderscoresSeparateDigits'
  BY <1>1, WithinNumber
<1>3. CASE NoBasePrefix
  <2>1. literal' = NewLiteral /\ here' = here
    BY <1>3 DEF NoBasePrefix, sourceVars
  <2>2. literal' = OnlyPrefix(10, FALSE, <<>>, TRUE)
    BY <2>1 DEF NewLiteral, OnlyPrefix
  <2>3. <<>> \in Characters
    BY Rows DEF None
  <2>4. /\ literal' \in LiteralRecord /\ PartsInOrder("integer", literal')
        /\ Written(literal') = <<>>
        /\ literal'.assumed_octal = FALSE /\ literal'.at_boundary = TRUE
    <3>1. 10 \in Int /\ FALSE \in BOOLEAN /\ TRUE \in BOOLEAN
      OBVIOUS
    <3>. QED  BY <2>2, <2>3, <3>1, Fresh, Zenon
  <2>5. substr_after(first)' = <<>>
    BY <1>1, <2>1, SubSeqEmpty DEF substr_after, substr
  <2>6. NumberSoFar'
    BY <1>1, <2>1, <2>4, <2>5
       DEF NumberSoFar, WrittenSoFar, ZeroFirst, UnderscoresSoFar, OffBoundary, NumberModes
  <2>. QED  BY <1>1, <1>2, <2>4, <2>6 DEF NumberInv
<1>4. CASE AssumeOctal
  <2>1. /\ peek = "0" /\ ConsumePlain(1)
        /\ literal' = OnlyPrefix(8, TRUE, <<"0">>, FALSE)
    BY <1>4 DEF AssumeOctal, NewLiteral, OnlyPrefix
  <2>2. first <= Len(input) /\ input[first] = "0" /\ here'.position = first + 1
    BY <1>1, <2>1, Known
       DEF LexerInv, TypeOK, Locations, KnownCharacters, WordContinue, Digits, ConsumePlain
  <2>3. first \in 1 .. Len(input) /\ first \in first .. Len(input)
    BY <1>1, <2>2, InputRow DEF LexerInv
  <2>4. substr(first, first + 1) = Added(None, "0") /\ Added(None, "0") \in Characters
    <3>1. substr(first, first + 1) = Added(substr(first, first), input[first])
      BY <1>0, <2>3, TextGrows
    <3>2. substr(first, first) = None
      BY <1>0, <2>3, TextGrows DEF None
    <3>3. input[first] \in Character
      BY <1>0, <2>3, InputRow
    <3>. QED  BY <2>2, <3>1, <3>2, <3>3, Rows
  <2>5. Added(None, "0") = <<"0">>
    BY DEF Added, None
  <2>6. /\ literal' \in LiteralRecord /\ PartsInOrder("integer", literal')
        /\ Written(literal') = <<"0">> /\ literal'.base_prefix = <<"0">>
        /\ literal'.assumed_octal = TRUE /\ literal'.at_boundary = FALSE
    <3>1. 8 \in Int /\ FALSE \in BOOLEAN /\ TRUE \in BOOLEAN /\ <<"0">> \in Characters
      BY <2>4, <2>5
    <3>. QED  BY <2>1, <3>1, Fresh, Zenon
  <2>7. substr_after(start.position)' = substr(first, first + 1)
    BY <1>1, <2>2 DEF substr_after, substr
  <2>8. WrittenSoFar'
    BY <1>1, <2>4, <2>5, <2>6, <2>7 DEF WrittenSoFar
  <2>9. ZeroFirst' /\ OffBoundary'
    BY <1>1, <2>2, <2>6, UnderscoreApart DEF ZeroFirst, OffBoundary
  <2>10. UnderscoresSoFar'
    BY <1>1, <2>2, UnderscoreApart DEF UnderscoresSoFar
  <2>. QED  BY <1>1, <1>2, <2>6, <2>8, <2>9, <2>10 DEF NumberInv, NumberSoFar
<1>5. CASE ReadBasePrefix
  <2>1. /\ peek = "0" /\ PeekSecond \in DOMAIN BasePrefix /\ ReadsPlain(2)
    BY <1>5, PlainPrefix DEF ReadBasePrefix, LexerInv
  <2>2. first + 1 <= Len(input) /\ input[first] = "0" /\ here'.position = first + 2
    BY <1>1, <2>1, Known, InputRow
       DEF LexerInv, KnownCharacters, WordContinue, Digits, ReadsPlain
  <2>3. PeekSecond = input[first + 1] /\ PeekSecond \in {"x", "X", "b", "B", "o", "O"}
    BY <1>1, <2>1, <2>2, InputRow DEF PeekSecond, BasePrefix, LexerInv
  <2>4. literal' = OnlyPrefix(BasePrefix[PeekSecond], FALSE, <<"0", input[first + 1]>>, FALSE)
    BY <1>5, <2>1, <2>3 DEF ReadBasePrefix, NewLiteral, OnlyPrefix
  <2>5. BasePrefix[PeekSecond] \in Int
    BY <2>3 DEF BasePrefix
  <2>6. /\ first \in 1 .. Len(input) /\ first \in first .. Len(input)
        /\ first + 1 \in first .. Len(input)
    BY <1>1, <2>2, InputRow DEF LexerInv
  <2>7. /\ substr(first, first + 1 + 1) = Added(Added(None, "0"), input[first + 1])
        /\ Added(None, "0") \in Characters
        /\ Added(Added(None, "0"), input[first + 1]) \in Characters
    <3>1. substr(first, first + 1) = Added(substr(first, first), input[first])
      BY <1>0, <2>6, TextGrows
    <3>2. substr(first, first + 1 + 1) = Added(substr(first, first + 1), input[first + 1])
      BY <1>0, <2>6, TextGrows
    <3>3. substr(first, first) = None
      BY <1>0, <2>6, TextGrows DEF None
    <3>4. input[first] \in Character /\ input[first + 1] \in Character
      BY <1>0, <1>1, <2>6, InputRow
    <3>. QED  BY <2>2, <3>1, <3>2, <3>3, <3>4, Rows
  <2>8. Added(Added(None, "0"), input[first + 1]) = <<"0", input[first + 1]>>
    <3>1. Append(<<>>, "0") = <<"0">>
      OBVIOUS
    <3>2. Append(<<"0">>, input[first + 1]) = <<"0", input[first + 1]>>
      BY OneAppended
    <3>. QED  BY <3>1, <3>2, Zenon DEF Added, None
  <2>9. /\ literal' \in LiteralRecord /\ PartsInOrder("integer", literal')
        /\ Written(literal') = <<"0", input[first + 1]>>
        /\ literal'.base_prefix = <<"0", input[first + 1]>>
        /\ literal'.assumed_octal = FALSE /\ literal'.at_boundary = FALSE
    <3>1. FALSE \in BOOLEAN /\ <<"0", input[first + 1]>> \in Characters
      BY <2>7, <2>8
    <3>. QED  BY <2>4, <2>5, <3>1, Fresh, Zenon
  <2>10. substr_after(start.position)' = substr(first, first + 1 + 1)
    <3>1. here'.position - 1 = (first + 1 + 1) - 1
      BY <1>1, <2>2
    <3>2. substr_after(start.position)' = SubSeq(input, first, here'.position - 1)
      BY <1>1 DEF substr_after, substr
    <3>3. substr(first, first + 1 + 1) = SubSeq(input, first, (first + 1 + 1) - 1)
      BY DEF substr
    <3>. QED  BY <3>1, <3>2, <3>3, Zenon
  <2>11. WrittenSoFar'
    BY <1>1, <2>7, <2>8, <2>9, <2>10 DEF WrittenSoFar
  <2>12. ZeroFirst' /\ OffBoundary'
    BY <1>1, <2>2, <2>9 DEF ZeroFirst, OffBoundary
  <2>13. input[first + 1] # Underscore
    BY <2>3, UnderscoreApart DEF Letters, SmallHex, BigHex
  <2>14. UnderscoresSoFar'
    BY <1>1, <2>2, <2>13, UnderscoreApart DEF UnderscoresSoFar
  <2>. QED  BY <1>1, <1>2, <2>9, <2>11, <2>12, <2>14 DEF NumberInv, NumberSoFar
<1>. QED  BY <1>3, <1>4, <1>5

LEMMA OneBehind ==
  ASSUME NEW s \in Characters, NEW c \in Character
  PROVE  <<c>> \in Characters /\ Behind(s, <<c>>) = Added(s, c)
<1>1. <<c>> = Added(None, c)
  BY DEF Added, None
<1>2. Added(Behind(s, None), c) = Behind(s, Added(None, c)) /\ Behind(s, None) = s
  BY Rows
<1>. QED  BY <1>1, <1>2, Rows

\* What may be read of a number is not white.
LEMMA Readable ==
  ASSUME TypeOK, ConsumePlain(1), peek \in HexDigits \cup Letters \cup {Underscore, ".", "+", "-"}
  PROVE  /\ ReadsPlain(1) /\ UNCHANGED input
         /\ peek = input[here.position] /\ peek \in Character
<1>1. peek \in Digits \cup Letters \cup {"_", ".", "+", "-"}
  BY Zenon DEF Underscore, HexDigits, Letters
<1>2. peek \in KnownCharacters \ Whitespace
  BY <1>1, NumberCharacters, Zenon
<1>. HIDE <1>1
<1>3. here.position <= Len(input) /\ peek = input[here.position]
  BY <1>2, Known
<1>4. here.position \in 1 .. Len(input)
  BY <1>3, InputIsText, InputRow
<1>. QED  BY <1>2, <1>3, <1>4, Plain, InputRow

LEMMA DigitNext ==
  ASSUME LexerInv, NumberInv, ReadDigit \/ ReadUnderscore
  PROVE  NumberInv'
<1>1. /\ InDigits /\ mode' = mode /\ ConsumePlain(1) /\ start' = start
      /\ peek \in HexDigits \cup {Underscore}
  <2>1. CASE ReadDigit
    <3>1. DigitsHere \subseteq HexDigits
      BY UnderscoreApart DEF DigitsHere, HexDigits
    <3>. QED  BY <2>1, <3>1, Zenon DEF ReadDigit
  <2>2. CASE ReadUnderscore
    BY <2>2, Zenon DEF ReadUnderscore, Underscore
  <2>. QED  BY <2>1, <2>2
<1>2. /\ peek \in HexDigits
      /\ literal' = WithInside(literal, Part, peek, FALSE)
   \/ /\ peek = Underscore /\ ~ literal.at_boundary /\ ~ literal.underscore
      /\ literal' = With(literal, Part, peek, TRUE)
  <2>1. CASE ReadDigit
    <3>1. DigitsHere \subseteq HexDigits
      BY UnderscoreApart DEF DigitsHere, HexDigits
    <3>. QED  BY <2>1, <3>1, Zenon DEF ReadDigit, WithInside
  <2>2. CASE ReadUnderscore
    BY <2>2, Zenon DEF ReadUnderscore, Underscore, With
  <2>. QED  BY <2>1, <2>2
<1>3. ReadsPlain(1) /\ input' = input /\ peek = input[here.position] /\ peek \in Character
  BY <1>1, Readable DEF LexerInv
<1>4. mode \in NumberModes /\ mode' # "token"
  BY <1>1 DEF InDigits, NumberModes
<1>5. /\ literal' \in LiteralRecord /\ PartsInOrder(mode, literal')
      /\ Written(literal') = Added(Written(literal), peek)
      /\ literal'.base_prefix = literal.base_prefix
      /\ literal'.assumed_octal = literal.assumed_octal /\ literal'.at_boundary = FALSE
      /\ peek = Underscore => literal'.underscore
  <2>1. literal \in LiteralRecord /\ PartsInOrder(mode, literal)
    BY DEF NumberInv
  <2>2. CASE literal' = WithInside(literal, Part, peek, FALSE) /\ peek \in HexDigits
    BY <1>1, <1>3, <2>1, <2>2, DigitAdded, UnderscoreApart
  <2>3. CASE literal' = With(literal, Part, peek, TRUE) /\ ~ literal.at_boundary
    BY <1>1, <1>3, <2>1, <2>3, DigitAdded
  <2>. QED  BY <1>2, <2>2, <2>3
<1>6. NumberSoFar'
  <2>1. KeepsPrefix
    BY <1>5 DEF KeepsPrefix
  <2>2. /\ peek = Underscore =>
             ~ literal.at_boundary /\ ~ literal.underscore /\ literal'.underscore
        /\ literal.underscore => peek \in HexDigits
    BY <1>2, <1>5, UnderscoreApart
  <2>. QED  BY <1>1, <1>3, <1>4, <1>5, <2>1, <2>2, OneMore
<1>. QED  BY <1>1, <1>4, <1>5, <1>6, WithinNumber DEF NumberInv

\* That a leading zero did not mean octal changes nothing about what is written.
LEMMA DecimalKept ==
  ASSUME literal \in LiteralRecord, NEW l, l = DecimalAfterAll
  PROVE  /\ l \in LiteralRecord /\ \A m : PartsInOrder(m, literal) => PartsInOrder(m, l)
         /\ UpToInteger(l) = UpToInteger(literal) /\ UpToMark(l) = UpToMark(literal)
         /\ Written(l) = Written(literal)
         /\ l.underscore = literal.underscore /\ l.at_boundary = literal.at_boundary
         /\ \/ l = literal
            \/ literal.assumed_octal /\ ~ l.assumed_octal /\ l.base_prefix = <<>>
<1>1. CASE ~ literal.assumed_octal
  BY <1>1 DEF DecimalAfterAll
<1>2. CASE literal.assumed_octal
  <2>1. /\ literal.base_prefix \in Characters /\ literal.integer_digits \in Characters
        /\ <<>> \in Characters
    BY Rows DEF LiteralRecord, None
  <2>2. literal.base_prefix \o literal.integer_digits \in Characters
    BY <2>1, Rows DEF Behind
  <2>. DEFINE digits == literal.base_prefix \o literal.integer_digits
  <2>3. l = [literal EXCEPT !.base = 10, !.assumed_octal = FALSE, !.base_prefix = <<>>,
               !.integer_digits = digits]
    BY <1>2 DEF DecimalAfterAll
  <2>. HIDE DEF digits
  <2>4. /\ l \in LiteralRecord /\ ~ l.assumed_octal /\ l.base_prefix = <<>>
        /\ l.integer_digits = digits
        /\ l.has_decimal_point = literal.has_decimal_point
        /\ l.fractional_digits = literal.fractional_digits
        /\ l.exponent_prefix = literal.exponent_prefix
        /\ l.exponent_sign = literal.exponent_sign
        /\ l.exponent_digits = literal.exponent_digits
        /\ l.underscore = literal.underscore /\ l.at_boundary = literal.at_boundary
    <3>1. digits \in Characters
      BY <2>2 DEF digits
    <3>. DEFINE decimal == [literal EXCEPT !.base = 10, !.assumed_octal = FALSE]
    <3>2. decimal \in LiteralRecord
      <4>1. \A base \in Int : [literal EXCEPT !.base = base] \in LiteralRecord
        BY DEF LiteralRecord
      <4>2. \A r \in LiteralRecord : [r EXCEPT !.assumed_octal = FALSE] \in LiteralRecord
        BY DEF LiteralRecord
      <4>3. 10 \in Int
        OBVIOUS
      <4>4. [literal EXCEPT !.base = 10] \in LiteralRecord
        BY <4>1, <4>3, Zenon
      <4>. QED  BY <4>2, <4>4, Zenon
    <3>3. l = [decimal EXCEPT !.base_prefix = <<>>, !.integer_digits = digits]
      BY <2>3
    <3>. HIDE DEF decimal
    <3>4. l \in LiteralRecord
      BY <2>1, <3>1, <3>2, <3>3 DEF LiteralRecord
    <3>. QED  BY <2>3, <3>4 DEF LiteralRecord
  <2>5. UpToInteger(l) = UpToInteger(literal)
    <3>1. Behind(None, digits) = digits
      BY <2>2, Rows DEF digits
    <3>. QED  BY <2>4, <3>1 DEF UpToInteger, Behind, None, digits
  <2>6. UpToMark(l) = UpToMark(literal) /\ Written(l) = Written(literal)
    BY <2>4, <2>5 DEF Written, UpToSign, UpToMark, UpToFraction, UpToPoint, Point
  <2>7. \A m : PartsInOrder(m, literal) => PartsInOrder(m, l)
    BY <2>4 DEF PartsInOrder
  <2>. QED  BY <1>2, <2>4, <2>5, <2>6, <2>7
<1>. QED  BY <1>1, <1>2

LEMMA PointNext ==
  ASSUME LexerInv, NumberInv, ReadPoint
  PROVE  NumberInv'
<1>. DEFINE l == DecimalAfterAll
<1>1. /\ mode = "integer" /\ mode' = "fraction" /\ start' = start
      /\ peek = "." /\ ConsumePlain(1) /\ ~ literal.underscore
      /\ literal' = [l EXCEPT !.has_decimal_point = TRUE, !.at_boundary = TRUE]
  BY Zenon DEF ReadPoint, EndOfDigits
<1>2. ReadsPlain(1) /\ input' = input /\ peek = input[here.position] /\ peek \in Character
  BY <1>1, Readable DEF LexerInv
<1>3. /\ literal \in LiteralRecord /\ PartsInOrder("integer", literal)
      /\ l \in LiteralRecord /\ PartsInOrder("integer", l)
      /\ UpToInteger(l) = UpToInteger(literal)
      /\ \/ l = literal
         \/ literal.assumed_octal /\ ~ l.assumed_octal /\ l.base_prefix = <<>>
  BY <1>1, DecimalKept DEF NumberInv
<1>. HIDE DEF l
<1>4. /\ literal' \in LiteralRecord /\ PartsInOrder("fraction", literal')
      /\ literal'.has_decimal_point /\ literal'.at_boundary
      /\ literal'.base_prefix = l.base_prefix /\ literal'.integer_digits = l.integer_digits
      /\ literal'.assumed_octal = l.assumed_octal
      /\ literal'.fractional_digits = <<>>
  BY <1>1, <1>3 DEF LiteralRecord, PartsInOrder, NumberModes
<1>5. UpToInteger(literal') = UpToInteger(literal)
  BY <1>3, <1>4 DEF UpToInteger
<1>6. Written(literal') = UpToFraction(literal') /\ Written(literal) = UpToInteger(literal)
  BY <1>3, <1>4, Ends
<1>7. UpToFraction(literal') = UpToPoint(literal')
  BY <1>4, Parts DEF None
<1>8. UpToPoint(literal') = Behind(UpToInteger(literal), <<".">>)
  BY <1>4, <1>5, Parts DEF Point
<1>9. UpToInteger(literal) \in Characters
  BY <1>3, Parts
<1>10. Written(literal') = Added(Written(literal), peek)
  BY <1>1, <1>2, <1>6, <1>7, <1>8, <1>9, OneBehind
<1>11. KeepsPrefix
  BY <1>3, <1>4 DEF KeepsPrefix
<1>12. NumberSoFar'
  <2>1. mode \in NumberModes /\ mode' \in NumberModes /\ peek # Underscore
    BY <1>1, UnderscoreApart DEF NumberModes
  <2>. QED  BY <1>1, <1>2, <1>4, <1>10, <1>11, <2>1, OneMore
<1>. QED  BY <1>1, <1>4, <1>12, WithinNumber DEF NumberInv

LEMMA MarkNext ==
  ASSUME LexerInv, NumberInv, ReadExponentMark
  PROVE  NumberInv'
<1>1. /\ mode \in {"integer", "fraction"} /\ mode' = "exponent_sign" /\ start' = start
      /\ peek \in Letters /\ ConsumePlain(1) /\ ~ literal.underscore
      /\ literal' = [literal EXCEPT !.exponent_prefix = <<peek>>, !.at_boundary = TRUE]
  BY NumberCharacters, Zenon DEF ReadExponentMark, EndOfMantissa, EndOfDigits
<1>2. ReadsPlain(1) /\ input' = input /\ peek = input[here.position] /\ peek \in Character
  BY <1>1, Readable DEF LexerInv
<1>3. literal \in LiteralRecord /\ PartsInOrder(mode, literal)
  BY DEF NumberInv
<1>4. UpToFraction(literal) \in Characters /\ Written(literal) = UpToFraction(literal)
  BY <1>1, <1>3, Parts, Ends
<1>5. <<peek>> \in Characters
  BY <1>2, <1>4, OneBehind
<1>6. /\ literal' \in LiteralRecord /\ PartsInOrder("exponent_sign", literal')
      /\ literal'.at_boundary /\ literal'.exponent_prefix = <<peek>>
      /\ literal'.base_prefix = literal.base_prefix
      /\ literal'.assumed_octal = literal.assumed_octal
  BY <1>1, <1>3, <1>5 DEF LiteralRecord, PartsInOrder, NumberModes
<1>7. UpToFraction(literal') = UpToFraction(literal)
  BY <1>1, <1>3 DEF UpToFraction, UpToPoint, UpToInteger, Point, LiteralRecord
<1>8. Written(literal') = UpToMark(literal')
  BY <1>6, Ends
<1>9. UpToMark(literal') = Behind(UpToFraction(literal), <<peek>>)
  BY <1>6, <1>7, Parts
<1>10. Written(literal') = Added(Written(literal), peek)
  BY <1>2, <1>4, <1>8, <1>9, OneBehind
<1>11. NumberSoFar'
  <2>1. /\ mode \in NumberModes /\ mode' \in NumberModes /\ peek # Underscore
        /\ KeepsPrefix
    BY <1>1, <1>6, UnderscoreApart DEF NumberModes, KeepsPrefix
  <2>. QED  BY <1>1, <1>2, <1>6, <1>10, <2>1, OneMore
<1>. QED  BY <1>1, <1>6, <1>11, WithinNumber DEF NumberInv

\* The lexer looks, and reads nothing.
LEMMA NoMore ==
  ASSUME LexerInv, NumberInv, mode \in NumberModes, mode' \in NumberModes,
         KeepsPrefix, UNCHANGED <<input, here, start>>,
         Written(literal') = Written(literal),
         literal'.underscore = literal.underscore, literal'.at_boundary
  PROVE  NumberSoFar'
<1>1. start.position \in Nat /\ here.position \in Nat
  BY PlaceTypes
<1>2. WrittenSoFar'
  BY DEF NumberInv, NumberSoFar, WrittenSoFar, NumberModes, substr_after, substr
<1>3. ZeroFirst' /\ OffBoundary'
  BY DEF NumberInv, NumberSoFar, ZeroFirst, KeepsPrefix, OffBoundary
<1>4. ASSUME NEW i \in start.position .. here.position - 1, input[i] = Underscore
      PROVE  Separates(i, here.position, literal)'
  <2>1. /\ start'.position < i
        /\ input'[i - 1] \in HexDigits \/ i - start'.position = Len(literal'.base_prefix)
        /\ i + 1 < here.position => input'[i + 1] \in HexDigits
        /\ i + 1 = here.position => literal.underscore
    BY <1>1, <1>4, StillSeparates
  <2>. QED  BY <1>1, <2>1 DEF Separates
<1>5. UnderscoresSoFar'
  BY <1>4 DEF UnderscoresSoFar
<1>. QED  BY <1>2, <1>3, <1>5 DEF NumberSoFar

LEMMA SignNext ==
  ASSUME LexerInv, NumberInv, ReadExponentSign
  PROVE  NumberInv'
<1>. DEFINE l == DecimalAfterAll
<1>1. /\ mode = "exponent_sign" /\ mode' = "exponent_begin" /\ start' = start
      /\ \/ /\ peek \in {"+", "-"} /\ ConsumePlain(1)
            /\ literal' = [l EXCEPT !.exponent_sign = <<peek>>]
         \/ UNCHANGED <<input, here>> /\ literal' = l
  BY DEF ReadExponentSign, sourceVars
<1>2. /\ literal \in LiteralRecord /\ PartsInOrder(mode, literal) /\ PartsInOrder(mode, l)
      /\ l \in LiteralRecord /\ UpToMark(l) = UpToMark(literal) /\ Written(l) = Written(literal)
      /\ l.underscore = literal.underscore /\ l.at_boundary = literal.at_boundary
      /\ \/ l = literal
         \/ literal.assumed_octal /\ ~ l.assumed_octal /\ l.base_prefix = <<>>
  BY DecimalKept DEF NumberInv
<1>. HIDE DEF l
<1>3. /\ mode \in NumberModes /\ mode' \in NumberModes
      /\ literal.at_boundary /\ ~ literal.underscore
  BY <1>1, <1>2 DEF NumberModes, PartsInOrder
<1>4. CASE UNCHANGED <<input, here>> /\ literal' = l
  <2>1. PartsInOrder(mode', literal') /\ KeepsPrefix
    BY <1>1, <1>2, <1>4 DEF PartsInOrder, NumberModes, KeepsPrefix
  <2>2. NumberSoFar'
    BY <1>1, <1>2, <1>3, <1>4, <2>1, NoMore
  <2>. QED  BY <1>1, <1>2, <1>4, <2>1, <2>2, WithinNumber DEF NumberInv
<1>5. CASE /\ peek \in {"+", "-"} /\ ConsumePlain(1)
           /\ literal' = [l EXCEPT !.exponent_sign = <<peek>>]
  <2>1. ReadsPlain(1) /\ input' = input /\ peek = input[here.position] /\ peek \in Character
    BY <1>5, Readable DEF LexerInv
  <2>2. UpToMark(literal) \in Characters /\ Written(literal) = UpToMark(literal)
    BY <1>1, <1>2, Parts, Ends
  <2>3. <<peek>> \in Characters
    BY <2>1, <2>2, OneBehind
  <2>4. /\ literal' \in LiteralRecord /\ PartsInOrder("exponent_begin", literal')
        /\ literal'.exponent_sign = <<peek>> /\ literal'.at_boundary
        /\ literal'.base_prefix = l.base_prefix /\ literal'.assumed_octal = l.assumed_octal
    BY <1>1, <1>2, <1>3, <1>5, <2>3 DEF LiteralRecord, PartsInOrder, NumberModes
  <2>5. UpToMark(literal') = UpToMark(l)
    BY <1>2, <1>5
       DEF UpToMark, UpToFraction, UpToPoint, UpToInteger, Point, LiteralRecord
  <2>6. Written(literal') = UpToSign(literal')
    BY <2>4, Ends
  <2>7. UpToSign(literal') = Behind(UpToMark(literal), <<peek>>)
    BY <1>2, <2>4, <2>5, Parts
  <2>8. Written(literal') = Added(Written(literal), peek)
    BY <2>1, <2>2, <2>6, <2>7, OneBehind
  <2>9. KeepsPrefix /\ peek # Underscore
    BY <1>2, <1>5, <2>4, UnderscoreApart DEF KeepsPrefix
  <2>10. NumberSoFar'
    BY <1>1, <1>3, <2>1, <2>4, <2>8, <2>9, OneMore
  <2>. QED  BY <1>1, <2>4, <2>10, WithinNumber DEF NumberInv
<1>. QED  BY <1>1, <1>4, <1>5

LEMMA BeginExponentNext ==
  ASSUME LexerInv, NumberInv, BeginExponentDigits
  PROVE  NumberInv'
<1>1. /\ mode = "exponent_begin" /\ mode' = "exponent"
      /\ UNCHANGED <<input, here, start, literal>>
  BY DEF BeginExponentDigits, sourceVars, numberVars
<1>2. literal \in LiteralRecord /\ PartsInOrder(mode, literal)
  BY DEF NumberInv
<1>3. PartsInOrder(mode', literal') /\ KeepsPrefix /\ literal.at_boundary
  BY <1>1, <1>2 DEF PartsInOrder, NumberModes, KeepsPrefix
<1>4. NumberSoFar'
  BY <1>1, <1>3, NoMore DEF NumberModes
<1>. QED  BY <1>1, <1>2, <1>3, <1>4, WithinNumber DEF NumberInv

LEMMA NumberFails ==
  ASSUME LexerInv, NumberInv, DigitError \/ ExponentError \/ NoDigits
  PROVE  NumberInv'
<1>1. mode' = "failed" /\ literal' = literal
  BY Zenon DEF DigitError, ExponentError, NoDigits, Throw, numberVars
<1>. QED
  BY <1>1, WithinNumber
     DEF NumberInv, NumberSoFar, WrittenSoFar, ZeroFirst, UnderscoresSoFar, OffBoundary,
         PartsInOrder, NumberModes

\* The number is complete: its token is what has been read.
LEMMA CloseNext ==
  ASSUME LexerInv, NumberInv, CloseNumber
  PROVE  NumberInv'
<1>. DEFINE first == start.position  end == here.position  text == substr(first, end)
<1>1. /\ mode \in {"integer", "fraction", "exponent"} /\ mode' = "token"
      /\ ~ literal.underscore /\ literal' = literal /\ UNCHANGED <<input, here, start>>
      /\ \E type, no_w : tokens' = Append(tokens, Token(type, no_w))
  BY Zenon DEF CloseNumber, EndOfNumber, EndOfMantissa, EndOfDigits, Emit, numberVars
<1>2. LastToken'.location = start /\ LastToken'.end = end
  <2>1. PICK type, no_w : tokens' = Append(tokens, Token(type, no_w))
    BY <1>1
  <2>2. tokens \in Seq(Range(tokens))
    BY DEF LexerInv, TypeOK
  <2>3. tokens'[Len(tokens')] = Token(type, no_w)
    BY <2>1, <2>2, AppendOne
  <2>. QED  BY <2>3 DEF LastToken, Token
<1>3. LastText' = text
  BY <1>1, <1>2 DEF LastText, substr
<1>4. mode \in NumberModes
  BY <1>1 DEF NumberModes
<1>5. text = Written(literal)
  BY <1>4 DEF NumberInv, NumberSoFar, WrittenSoFar, substr_after
<1>6. NumberIsItsText'
  BY <1>1, <1>3, <1>5
     DEF NumberIsItsText, Written, UpToSign, UpToMark, UpToFraction, UpToPoint, UpToInteger,
         Point
<1>7. /\ first \in Nat \ {0} /\ end \in Nat /\ first <= end
      /\ Len(input) \in Nat /\ end <= Len(input) + 1
  <2>1. Running
    BY <1>4 DEF LexerInv, TypeOK, NumberModes, Running
  <2>. QED  BY <2>1, PlaceTypes, InputRow DEF LexerInv, TypeOK
<1>8. /\ text \in Seq(Character) /\ Len(text) = end - first
      /\ \A i \in 1 .. end - first : text[i] = input[first + i - 1]
  <2>1. \A i \in first .. end - 1 : input[i] \in Character
    BY <1>7, InputRow DEF LexerInv
  <2>. QED  BY <1>7, <2>1, SubSeqProperties DEF substr
<1>. HIDE DEF text
<1>9. ASSUME NEW i \in DOMAIN text, text[i] = Underscore
      PROVE  /\ i + 1 \in DOMAIN text /\ text[i + 1] \in HexDigits
             /\ i - 1 \in DOMAIN text
             /\ text[i - 1] \in HexDigits \/ i - 1 = Len(literal.base_prefix)
  <2>. DEFINE p == first + i - 1
  <2>1. DOMAIN text = 1 .. end - first /\ i \in 1 .. end - first
    BY <1>7, <1>8, <1>9
  <2>2. p \in first .. end - 1 /\ input[p] = Underscore
    BY <1>7, <1>8, <1>9, <2>1
  <2>3. Separates(p, end, literal)
    BY <1>4, <2>2 DEF NumberInv, NumberSoFar, UnderscoresSoFar
  <2>4. /\ first < p /\ p + 1 # end /\ input[p + 1] \in HexDigits
        /\ input[p - 1] \in HexDigits \/ p - first = Len(literal.base_prefix)
    BY <1>1, <2>3 DEF Separates
  <2>5. /\ i + 1 \in 1 .. end - first /\ i - 1 \in 1 .. end - first
        /\ first + (i + 1) - 1 = p + 1 /\ first + (i - 1) - 1 = p - 1 /\ p - first = i - 1
    <3>1. /\ first \in Int /\ end \in Int /\ i \in Int /\ p \in Int /\ p = first + i - 1
          /\ first < p /\ p <= end - 1 /\ p # end - 1 /\ 1 <= i
      BY <1>7, <2>1, <2>2, <2>4
    <3>. HIDE DEF p
    <3>. QED  BY <3>1
  <2>6. text[i + 1] = input[p + 1] /\ text[i - 1] = input[p - 1]
    BY <1>8, <2>5
  <2>. QED  BY <2>1, <2>4, <2>5, <2>6
<1>10. UnderscoresSeparateDigits'
  BY <1>1, <1>3, <1>9, Zenon DEF UnderscoresSeparateDigits, Underscore
<1>11. NumberSoFar' /\ PartsInOrder(mode', literal')
  BY <1>1 DEF NumberSoFar, WrittenSoFar, ZeroFirst, UnderscoresSoFar, OffBoundary,
              PartsInOrder, NumberModes
<1>. QED  BY <1>1, <1>6, <1>10, <1>11 DEF NumberInv

LEMMA NumberStepNext == ASSUME LexerInv, NumberInv, NumberStep PROVE NumberInv'
  BY NumberBegins, DigitNext, PointNext, MarkNext, SignNext, BeginExponentNext, NumberFails,
     CloseNext
     DEF NumberStep

-----------------------------------------------------------------------------
(* The invariant                                                           *)

LEMMA LiteralKept ==
  ASSUME TokenStep \/ OperatorStep \/ CommentStep \/ WordStep
  PROVE  literal' = literal
<1>. USE DEF numberVars
<1>1. CASE TokenStep
  BY <1>1 DEF TokenStep, EndOfFile, SkipWhitespace, BeginOperator, BeginNumber, BeginWord,
              BeginString, BeginQuotes, BeginLiteral, UnexpectedCharacter
<1>2. CASE OperatorStep \/ CommentStep
  BY <1>2 DEF OperatorStep, ReadOperator, PointBeforeDigit, CloseOperator, TwoPoints,
              PeekPastEnd, CommentStep, SkipLineComment, SkipBlockComment, CommentAtEnd
<1>3. CASE WordStep
  BY <1>3 DEF WordStep, RawString, BeginQuotes, NotRaw, ReadWord, CloseWord
<1>. QED  BY <1>1, <1>2, <1>3

LEMMA ElsewhereNext ==
  ASSUME LexerInv, NumberInv, Elsewhere, literal' = literal
  PROVE  NumberInv'
<1>1. NumberSoFar' /\ ~ Completed(NumberTypes)'
  BY NoNumberElsewhere
<1>2. NumberIsItsText' /\ UnderscoresSeparateDigits'
  BY <1>1, Zenon DEF NumberIsItsText, UnderscoresSeparateDigits, NumberTypes
<1>3. PartsInOrder(mode', literal')
  BY DEF Elsewhere, PartsInOrder, NumberModes
<1>. QED  BY <1>1, <1>2, <1>3 DEF NumberInv

LEMMA NumberInvInit == Init => NumberInv
<1>1. SUFFICES ASSUME Init PROVE NumberInv
  OBVIOUS
<1>2. mode = "token" /\ tokens = <<>> /\ literal = NewLiteral
  BY <1>1 DEF Init, StateInit, NumberInit
<1>3. literal \in LiteralRecord
  <2>1. <<>> \in Characters
    BY Rows DEF None
  <2>. QED  BY <1>2, <2>1 DEF NewLiteral, LiteralRecord
<1>4. PartsInOrder(mode, literal) /\ NumberSoFar
  BY <1>2 DEF PartsInOrder, NumberModes, NumberSoFar, WrittenSoFar, ZeroFirst,
              UnderscoresSoFar, OffBoundary
<1>5. NumberIsItsText /\ UnderscoresSeparateDigits
  BY <1>2, Zenon DEF NumberIsItsText, UnderscoresSeparateDigits, Completed
<1>. QED  BY <1>3, <1>4, <1>5 DEF NumberInv

LEMMA NumberInvNext == LexerInv /\ NumberInv /\ [Next]_vars => NumberInv'
<1>1. ASSUME LexerInv, NumberInv, Next PROVE NumberInv'
  <2>1. CASE NumberStep
    BY <1>1, <2>1, NumberStepNext
  <2>2. CASE TextStep /\ UNCHANGED numberVars
    BY <1>1, <2>2, TextElsewhere, ElsewhereNext DEF LexerInv, numberVars
  <2>3. CASE TokenStep \/ OperatorStep \/ CommentStep \/ WordStep
    BY <1>1, <2>3, OtherElsewhere, LiteralKept, ElsewhereNext
  <2>. QED  BY <1>1, <2>1, <2>2, <2>3 DEF Next
<1>2. ASSUME NumberInv, UNCHANGED vars PROVE NumberInv'
  <2>1. UNCHANGED <<input, here, start, mode, tokens, literal>>
    BY <1>2 DEF vars, sourceVars, resultVars, numberVars
  <2>2. NumberSoFar' /\ literal' \in LiteralRecord /\ PartsInOrder(mode', literal')
    <3>1. WrittenSoFar' /\ ZeroFirst' /\ OffBoundary'
      BY <1>2, <2>1 DEF NumberInv, NumberSoFar, WrittenSoFar, ZeroFirst, OffBoundary,
                        substr_after, substr
    <3>2. UnderscoresSoFar'
      BY <1>2, <2>1, Zenon DEF NumberInv, NumberSoFar, UnderscoresSoFar, Separates
    <3>. QED  BY <1>2, <2>1, <3>1, <3>2 DEF NumberInv, NumberSoFar
  <2>3. NumberIsItsText' /\ UnderscoresSeparateDigits'
    BY <1>2, <2>1, Zenon
       DEF NumberInv, NumberIsItsText, UnderscoresSeparateDigits, Completed, LastText,
           LastToken, LastEnd, substr
  <2>. QED  BY <2>2, <2>3 DEF NumberInv
<1>. QED  BY <1>1, <1>2

-----------------------------------------------------------------------------
(* The theorems                                                            *)

LEMMA NumberInvariant == Spec => []NumberInv
  BY LexerInvariant, NumberInvInit, NumberInvNext, PTL DEF Spec

\* The parts that read_number() keeps of a number are, one after the other, its
\* text, for every text: neither going back to a point nor finding that a leading
\* zero did not mean octal loses or doubles a character.
THEOREM NumbersAreTheirText == Spec => []NumberIsItsText
  BY NumberInvariant, PTL DEF NumberInv

\* The two flags about the character before keep every underscore of every number
\* that is accepted between digits, or behind the base prefix: also one behind the
\* zero that was only taken for a prefix.
THEOREM UnderscoresSeparate == Spec => []UnderscoresSeparateDigits
  BY NumberInvariant, PTL DEF NumberInv
================================================================================
