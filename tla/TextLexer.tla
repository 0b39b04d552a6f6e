------------------------------- MODULE TextLexer -------------------------------
(***************************************************************************)
(* read_string_literal(), read_char_literal() and read_quoted_ident() of   *)
(* lexer/data/lexer.cpp: literals with quotes and escape sequences.        *)
(*                                                                         *)
(* m_scratch_buffer is a sequence of items, each written as the characters *)
(* that stand for it: <<"a">>, <<"\\", "n">>, <<"\\", "x", "4", "1">>.       *)
(***************************************************************************)
EXTENDS LexerState

VARIABLES
  scratch,       \* m_scratch_buffer
  quote,         \* is_raw, quote_count, quotes_in_a_row of a string
  reader,        \* the literal an escape sequence stands in
  escape         \* the \x, \u or \U sequence that is being read

textVars == <<scratch, quote, reader, escape>>

SimpleEscapes == {"a", "b", "f", "n", "r", "t", "v", "\\", "'", "\"", Backtick}
HexEscapes == {"x", "u", "U"}
HexChars(letter) ==
  CASE letter = "x" -> 2 [] letter = "u" -> 4 [] letter = "U" -> 8
HexDigits == Digits \cup SmallHex \cup BigHex

NoQuote == [raw |-> FALSE, count |-> 0, row |-> 0]
NoEscape == [letter |-> "x", digits |-> <<>>]

TextInit ==
  /\ scratch = <<>> /\ quote = NoQuote
  /\ reader = "string" /\ escape = NoEscape

\* How a literal goes on behind an escape sequence.
Resume(letter) ==
  IF reader # "char" THEN reader
  ELSE IF letter = "x" THEN "char_bytes" ELSE "char_end"

\* What utf8::append() refuses: surrogates and numbers above 10FFFF.
Surrogate(d) ==
  d[1] \in {"d", "D"} /\ d[2] \in {"8", "9"} \cup SmallHex \cup BigHex
ValidCodePoint(d) ==
  IF Len(d) = 4 THEN ~ Surrogate(d)
  ELSE /\ d[1] = "0" /\ d[2] = "0"
       /\ \/ d[3] = "0" /\ (d[4] = "0" => ~ Surrogate(SubSeq(d, 5, 8)))
          \/ d[3] = "1" /\ d[4] = "0"

-----------------------------------------------------------------------------
(* Strings                                                                 *)

\* The opening quotes are counted first.
OpeningQuote ==
  /\ mode = "quotes" /\ peek = "\""
  /\ Consume
  /\ quote' = [quote EXCEPT !.count = @ + 1]
  /\ UNCHANGED <<resultVars, mode, start, scratch, reader, escape>>

EmptyString ==
  /\ mode = "quotes" /\ peek # "\"" /\ quote.count \in {2, 6}
  /\ Emit(<<"STRING_LITERAL">>, FALSE)
  /\ UNCHANGED textVars

OpenString ==
  /\ mode = "quotes" /\ peek # "\"" /\ quote.count \in {1, 3}
  /\ mode' = "string"
  /\ UNCHANGED <<sourceVars, resultVars, start, textVars>>

\* Bug: a quote that closes nothing is forgotten.
StringCharForgets ==
  /\ mode = "string" /\ ~ at_end
  /\ peek \notin {"\"", "\r"} /\ (peek = "\\" => quote.raw)
  /\ peek = "\n" => quote.count = 3
  /\ Consume
  /\ scratch' = Append(scratch, <<peek>>)
  /\ quote' = [quote EXCEPT !.row = 0]
  /\ UNCHANGED <<resultVars, mode, start, reader, escape>>

\* Quotes before this character that did not close the string are part of it.
StringChar ==
  /\ mode = "string" /\ ~ at_end
  /\ peek \notin {"\"", "\r"} /\ (peek = "\\" => quote.raw)
  /\ peek = "\n" => quote.count = 3
  /\ Consume
  /\ scratch' = Append(scratch \o [i \in 1 .. quote.row |-> <<"\"">>], <<peek>>)
  /\ quote' = [quote EXCEPT !.row = 0]
  /\ UNCHANGED <<resultVars, mode, start, reader, escape>>

StringReturn ==
  /\ mode = "string" /\ peek = "\r"
  /\ Consume
  /\ UNCHANGED <<resultVars, mode, start, textVars>>

StringQuote ==
  /\ mode = "string" /\ peek = "\""
  /\ Consume
  /\ quote' = [quote EXCEPT !.row = @ + 1]
  /\ mode' = IF quote.row + 1 = quote.count THEN "string_end" ELSE mode
  /\ UNCHANGED <<resultVars, start, scratch, reader, escape>>

CloseString ==
  /\ mode = "string_end"
  /\ Emit(<<"STRING_LITERAL">>, FALSE)
  /\ UNCHANGED textVars

\* A wrong number of opening quotes, the end of the input, or a line end that
\* only a string with three quotes may contain.
StringError ==
  /\ \/ mode = "quotes" /\ peek # "\"" /\ quote.count \notin {1, 2, 3, 6}
     \/ mode = "string" /\ at_end
     \/ mode = "string" /\ peek = "\n" /\ quote.count = 1
  /\ Throw(here)
  /\ UNCHANGED textVars

-----------------------------------------------------------------------------
(* Escape sequences, in all three kinds of literal                         *)

Backslash ==
  /\ mode \in {"string", "char", "quoted_ident"} /\ peek = "\\"
  /\ mode = "string" => ~ quote.raw
  /\ Consume
  /\ mode' = "escape" /\ reader' = mode
  /\ UNCHANGED <<resultVars, start, scratch, quote, escape>>

SimpleEscape ==
  /\ mode = "escape" /\ peek \in SimpleEscapes
  /\ Consume
  /\ scratch' = Append(scratch, <<"\\", peek>>)
  /\ mode' = Resume(peek)
  /\ UNCHANGED <<resultVars, start, quote, reader, escape>>

\* An escaped line end is no part of the literal.
EscapedLineEnd ==
  /\ mode = "escape" /\ reader # "char" /\ peek \in {"\r", "\n"}
  /\ Consume
  /\ mode' = IF peek = "\r" THEN "escaped_return" ELSE reader
  /\ UNCHANGED <<resultVars, start, textVars>>

AfterEscapedReturn ==
  /\ mode = "escaped_return"
  /\ IF peek = "\n" THEN Consume ELSE UNCHANGED sourceVars
  /\ mode' = reader
  /\ UNCHANGED <<resultVars, start, textVars>>

HexEscape ==
  /\ mode = "escape" /\ peek \in HexEscapes
  /\ Consume
  /\ escape' = [letter |-> peek, digits |-> <<>>]
  /\ mode' = "hex"
  /\ UNCHANGED <<resultVars, start, scratch, quote, reader>>

\* read_hex_chars(), and what is done with its result.
HexChar ==
  /\ mode = "hex" /\ peek \in HexDigits
  /\ Consume
  /\ LET digits == Append(escape.digits, peek)
         done == Len(digits) = HexChars(escape.letter)
     IN  /\ escape' = [escape EXCEPT !.digits = digits]
         /\ \/ ~ done /\ UNCHANGED <<mode, failure, scratch>>
            \/ /\ done /\ (escape.letter = "x" \/ ValidCodePoint(digits))
               /\ scratch' = Append(scratch, <<"\\", escape.letter>> \o digits)
               /\ mode' = Resume(escape.letter)
               /\ UNCHANGED failure
            \/ /\ done /\ escape.letter # "x" /\ ~ ValidCodePoint(digits)
               /\ failure' = [kind |-> "LexerError", location |-> here']
               /\ mode' = "failed"
               /\ UNCHANGED scratch
  /\ UNCHANGED <<tokens, start, quote, reader>>

\* The offending character has been consumed when the error is located.
NotHexChar ==
  /\ mode = "hex" /\ ~ at_end /\ peek \notin HexDigits
  /\ Consume
  /\ failure' = [kind |-> "LexerError", location |-> here']
  /\ mode' = "failed"
  /\ UNCHANGED <<tokens, start, textVars>>

EscapeError ==
  /\ \/ /\ mode = "escape"
        /\ peek \notin SimpleEscapes \cup HexEscapes
        /\ reader = "char" \/ peek \notin {"\r", "\n"}
     \/ mode = "hex" /\ at_end
  /\ Throw(here)
  /\ UNCHANGED textVars

-----------------------------------------------------------------------------
(* Character literals                                                      *)

CharContent ==
  /\ mode = "char" /\ ~ at_end /\ peek \notin {"'", "\\", "\r", "\n"}
  /\ Consume
  /\ scratch' = Append(scratch, <<peek>>)
  /\ mode' = "char_end"
  /\ UNCHANGED <<resultVars, start, quote, reader, escape>>

\* Behind \x41 more bytes may follow, each with its own \x.
NextByte ==
  /\ mode = "char_bytes" /\ peek = "\\"
  /\ Consume
  /\ mode' = "char_byte"
  /\ UNCHANGED <<resultVars, start, textVars>>

ByteEscape ==
  /\ mode = "char_byte" /\ peek = "x"
  /\ Consume
  /\ escape' = NoEscape
  /\ mode' = "hex"
  /\ UNCHANGED <<resultVars, start, scratch, quote, reader>>

NotByteEscape ==
  /\ mode = "char_byte" /\ ~ at_end /\ peek # "x"
  /\ Consume
  /\ failure' = [kind |-> "LexerError", location |-> here']
  /\ mode' = "failed"
  /\ UNCHANGED <<tokens, start, textVars>>

ClosingQuote ==
  /\ mode \in {"char_end", "char_bytes"} /\ peek = "'"
  /\ Consume
  /\ mode' = "char_close"
  /\ UNCHANGED <<resultVars, start, textVars>>

\* used_buffer: the literal is written in hexadecimal.
UsedBuffer == escape.digits # <<>>

\* What Text(m_scratch_buffer) can turn out to be: a number is one code point,
\* bytes are if they are one in ASCII or several others that fit together.
OneCodePoint ==
  LET ascii(item) == item[3] \in {"0", "1", "2", "3", "4", "5", "6", "7"}
      others == \A i \in DOMAIN scratch : ~ ascii(scratch[i])
  IN  IF escape.letter # "x" THEN {TRUE}
      ELSE IF Len(scratch) = 1 THEN {~ others}
      ELSE IF others /\ Len(scratch) <= 4 THEN BOOLEAN ELSE {FALSE}

CloseChar ==
  /\ mode = "char_close"
  /\ UsedBuffer => TRUE \in OneCodePoint
  /\ Emit(<<"CHAR_LITERAL">>, FALSE)
  /\ UNCHANGED textVars

NotOneCodePoint ==
  /\ mode = "char_close" /\ UsedBuffer /\ FALSE \in OneCodePoint
  /\ Throw(start)
  /\ UNCHANGED textVars

CharError ==
  /\ \/ mode = "char" /\ (at_end \/ peek \in {"'", "\r", "\n"})
     \/ mode = "char_byte" /\ at_end
     \/ mode = "char_end" /\ peek # "'"
     \/ mode = "char_bytes" /\ peek \notin {"'", "\\"}
  /\ Throw(here)
  /\ UNCHANGED textVars

-----------------------------------------------------------------------------
(* Quoted identifiers                                                      *)

QuotedChar ==
  /\ mode = "quoted_ident" /\ ~ at_end /\ peek \notin {Backtick, "\\", "\r", "\n"}
  /\ Consume
  /\ scratch' = Append(scratch, <<peek>>)
  /\ UNCHANGED <<resultVars, mode, start, quote, reader, escape>>

ClosingBacktick ==
  /\ mode = "quoted_ident" /\ peek = Backtick
  /\ Consume
  /\ mode' = "quoted_end"
  /\ UNCHANGED <<resultVars, start, textVars>>

CloseQuotedIdent ==
  /\ mode = "quoted_end" /\ scratch # <<>>
  /\ Emit(<<"QUOTED_IDENTIFIER">>, ~ white)
  /\ UNCHANGED textVars

QuotedError ==
  /\ \/ mode = "quoted_ident" /\ (at_end \/ peek \in {"\r", "\n"}) /\ Throw(here)
     \/ mode = "quoted_end" /\ scratch = <<>> /\ Throw(start)
  /\ UNCHANGED textVars

StringStep ==
  OpeningQuote \/ EmptyString \/ OpenString \/ StringChar \/ StringReturn
    \/ StringQuote \/ CloseString \/ StringError
EscapeStep ==
  Backslash \/ SimpleEscape \/ EscapedLineEnd \/ AfterEscapedReturn
    \/ HexEscape \/ HexChar \/ NotHexChar \/ EscapeError
CharStep ==
  CharContent \/ NextByte \/ ByteEscape \/ NotByteEscape \/ ClosingQuote
    \/ CloseChar \/ NotOneCodePoint \/ CharError
QuotedStep ==
  QuotedChar \/ ClosingBacktick \/ CloseQuotedIdent \/ QuotedError

TextStep == StringStep \/ EscapeStep \/ CharStep \/ QuotedStep
=============================================================================
