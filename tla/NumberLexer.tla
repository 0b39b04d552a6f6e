------------------------------ MODULE NumberLexer ------------------------------
(***************************************************************************)
(* read_number() of lexer/data/lexer.cpp.  A number is read in phases,     *)
(* each the mode of the lexer while it lasts: an optional base prefix,     *)
(* integer digits, fractional digits behind a point, an exponent.          *)
(***************************************************************************)
EXTENDS LexerState

VARIABLE literal     \* the NumberLiteral under construction, and the locals

numberVars == <<literal>>

NewLiteral ==
  [base |-> 10, assumed_octal |-> FALSE,
   at_boundary |-> TRUE, underscore |-> FALSE,     \* previous_char_was_...
   base_prefix |-> <<>>, integer_digits |-> <<>>, has_decimal_point |-> FALSE,
   fractional_digits |-> <<>>, exponent_prefix |-> <<>>, exponent_sign |-> <<>>,
   exponent_digits |-> <<>>]

NumberInit == literal = NewLiteral

\* The digits of a base; e and p stand for an exponent where one may begin.
DigitsOf(base) ==
  CASE base = 2  -> {"0", "1"}
    [] base = 8  -> Digits \ {"8", "9"}
    [] base = 16 -> Digits \cup SmallHex \cup BigHex
    [] OTHER     -> Digits
Decimal == literal.base = 10 \/ (mode = "integer" /\ literal.assumed_octal)
ExponentMark ==
  {"p", "P"} \cup (IF Decimal THEN {"e", "E"} ELSE {})

BasePrefix == [x |-> 16, X |-> 16, b |-> 2, B |-> 2, o |-> 8, O |-> 8]

\* The character behind the one to be read.
PeekSecond ==
  IF here.position < Len(input) THEN input[here.position + 1] ELSE EndOfInput

-----------------------------------------------------------------------------
(* The base                                                                *)

\* The zero of a decimal number is read once more, as a digit.
NoBasePrefix ==
  /\ mode = "number"
  /\ peek = "0" => PeekSecond \notin DOMAIN BasePrefix \cup Digits \cup {"_"}
  /\ literal' = NewLiteral
  /\ mode' = "integer"
  /\ UNCHANGED <<sourceVars, resultVars, start>>

ReadBasePrefix ==
  /\ mode = "number" /\ peek = "0" /\ PeekSecond \in DOMAIN BasePrefix
  /\ ConsumePlain(2)
  /\ literal' = [NewLiteral EXCEPT !.base = BasePrefix[PeekSecond],
                   !.base_prefix = <<peek, PeekSecond>>, !.at_boundary = FALSE]
  /\ mode' = "integer"
  /\ UNCHANGED <<resultVars, start>>

AssumeOctal ==
  /\ mode = "number" /\ peek = "0" /\ PeekSecond \in Digits \cup {"_"}
  /\ ConsumePlain(1)
  /\ literal' = [NewLiteral EXCEPT !.base = 8, !.assumed_octal = TRUE,
                   !.base_prefix = <<peek>>, !.at_boundary = FALSE]
  /\ mode' = "integer"
  /\ UNCHANGED <<resultVars, start>>

-----------------------------------------------------------------------------
(* Digits: the integer, the fraction and the exponent                      *)

Part ==
  CASE mode = "integer"  -> "integer_digits"
    [] mode = "fraction" -> "fractional_digits"
    [] mode = "exponent" -> "exponent_digits"
InDigits == mode \in {"integer", "fraction", "exponent"}
DigitsHere ==
  IF mode = "exponent" THEN Digits ELSE DigitsOf(literal.base) \ ExponentMark

ReadDigit ==
  /\ InDigits /\ peek \in DigitsHere
  /\ ConsumePlain(1)
  /\ literal' = [literal EXCEPT ![Part] = Append(@, peek),
                   !.underscore = FALSE, !.at_boundary = FALSE]
  /\ UNCHANGED <<resultVars, mode, start>>

\* Bug: nothing is asked of the character before.
ReadUnderscoreAnywhere ==
  /\ InDigits /\ peek = "_"
  /\ ConsumePlain(1)
  /\ literal' = [literal EXCEPT ![Part] = Append(@, peek), !.underscore = TRUE]
  /\ UNCHANGED <<resultVars, mode, start>>
ReadUnderscore ==
  /\ InDigits /\ peek = "_"
  /\ ~ literal.at_boundary /\ ~ literal.underscore
  /\ ConsumePlain(1)
  /\ literal' = [literal EXCEPT ![Part] = Append(@, peek), !.underscore = TRUE]
  /\ UNCHANGED <<resultVars, mode, start>>

\* What ends a row of digits, and what must not follow one.
EndOfDigits ==
  /\ InDigits
  /\ IF mode = "exponent" THEN peek \notin Letters \cup Digits \cup {"_", "."}
     ELSE peek \in ExponentMark \/ peek \notin Letters \cup Digits \cup {"_"}
  /\ ~ literal.underscore

DigitError ==
  /\ InDigits
  /\ ~ EndOfDigits /\ peek \notin DigitsHere
  /\ peek = "_" => literal.at_boundary \/ literal.underscore
  /\ Throw(here)
  /\ UNCHANGED numberVars

\* Bug: the zero that had been taken for a prefix is dropped.
DecimalAfterAllDropsZero ==
  IF literal.assumed_octal
  THEN [literal EXCEPT !.base = 10, !.assumed_octal = FALSE, !.base_prefix = <<>>]
  ELSE literal
\* A point or an exponent shows that a leading zero did not mean octal.
DecimalAfterAll ==
  IF literal.assumed_octal
  THEN [literal EXCEPT !.base = 10, !.assumed_octal = FALSE, !.base_prefix = <<>>,
          !.integer_digits = literal.base_prefix \o @]
  ELSE literal

ReadPoint ==
  /\ mode = "integer" /\ EndOfDigits /\ peek = "."
  /\ ConsumePlain(1)
  /\ literal' = [DecimalAfterAll EXCEPT !.has_decimal_point = TRUE, !.at_boundary = TRUE]
  /\ mode' = "fraction"
  /\ UNCHANGED <<resultVars, start>>

-----------------------------------------------------------------------------
(* The exponent                                                            *)

EndOfMantissa ==
  /\ mode \in {"integer", "fraction"} /\ EndOfDigits
  /\ mode = "integer" => peek # "."

\* Binary and octal numbers end in an error, and so do the wrong marks.
ExponentAllowed ==
  peek \in IF literal.base = 16 THEN {"p", "P"}
           ELSE IF literal.base = 10 \/ literal.assumed_octal THEN {"e", "E"} ELSE {}

ReadExponentMark ==
  /\ EndOfMantissa /\ peek \in ExponentMark /\ ExponentAllowed
  /\ ConsumePlain(1)
  /\ literal' = [literal EXCEPT !.exponent_prefix = <<peek>>, !.at_boundary = TRUE]
  /\ mode' = "exponent_sign"
  /\ UNCHANGED <<resultVars, start>>

ReadExponentSign ==
  /\ mode = "exponent_sign" /\ ~ at_end
  /\ IF peek \in {"+", "-"}
     THEN ConsumePlain(1) /\ literal' = [DecimalAfterAll EXCEPT !.exponent_sign = <<peek>>]
     ELSE UNCHANGED sourceVars /\ literal' = DecimalAfterAll
  /\ mode' = "exponent_begin"
  /\ UNCHANGED <<resultVars, start>>

\* Only the end of the input makes an exponent without digits an error.
BeginExponentDigits ==
  /\ mode = "exponent_begin" /\ ~ at_end
  /\ mode' = "exponent"
  /\ UNCHANGED <<sourceVars, resultVars, start, numberVars>>

ExponentError ==
  /\ \/ EndOfMantissa /\ peek \in ExponentMark /\ ~ ExponentAllowed
     \/ mode \in {"exponent_sign", "exponent_begin"} /\ at_end
  /\ Throw(here)
  /\ UNCHANGED numberVars

-----------------------------------------------------------------------------
EndOfNumber ==
  \/ EndOfMantissa /\ peek \notin ExponentMark
  \/ mode = "exponent" /\ EndOfDigits

HasDigits == literal.integer_digits # <<>> \/ literal.fractional_digits # <<>>

\* .0 that touches what is before it is the field of a tuple.
NumericField ==
  /\ ~ white
  /\ literal.base_prefix = <<>> /\ literal.integer_digits = <<>>
  /\ literal.fractional_digits # <<>>
  /\ literal.exponent_prefix = <<>>

CloseNumber ==
  /\ EndOfNumber /\ HasDigits
  /\ IF NumericField THEN Emit(<<"NUMBER_FIELD">>, TRUE) ELSE Emit(<<"NUMBER">>, FALSE)
  /\ UNCHANGED numberVars

NoDigits ==
  /\ EndOfNumber /\ ~ HasDigits
  /\ Throw(here)
  /\ UNCHANGED numberVars

NumberStep ==
  NoBasePrefix \/ ReadBasePrefix \/ AssumeOctal \/ ReadDigit \/ ReadUnderscore
    \/ DigitError \/ ReadPoint \/ ReadExponentMark \/ ReadExponentSign
    \/ BeginExponentDigits \/ ExponentError \/ CloseNumber \/ NoDigits
=============================================================================
