--------------------------------- MODULE Lexer ---------------------------------
(***************************************************************************)
(* Lexer::tokenize(): read_file(), read_token() and the read functions     *)
(* that are not literals, composed with those of TextLexer and             *)
(* NumberLexer.                                                            *)
(***************************************************************************)
EXTENDS TextLexer, NumberLexer, FiniteSets

CONSTANT ReservedWords      \* spellings of the keywords

\* No keyword is called like one of the other types of tokens.
ASSUME ReservedWordsAssumption ==
  ReservedWords \cap {<<"IDENTIFIER">>, <<"QUOTED_IDENTIFIER">>, <<"STRING_LITERAL">>,
                     <<"CHAR_LITERAL">>, <<"NUMBER">>, <<"NUMBER_FIELD">>,
                     <<"END_OF_FILE">>} = {}

vars == <<sourceVars, resultVars, mode, start, textVars, numberVars>>

\* The spellings that the functions for operators and punctuation read, and the
\* two that begin a comment.
Operators ==
  {<<c>> : c \in OperatorStart}
    \cup {<<c, "=">> : c \in {"=", "/", "+", "-", "*", "%", "^", "|", "&", "!", ">", "<"}}
    \cup {<<c, c>> : c \in {"/", "+", "-", "|", "&", ">", "<", ".", ":"}}
    \cup {<<c, c, "=">> : c \in {"|", "&", ">", "<"}}
    \cup {<<"=", ">">>, <<"-", ">">>, <<"/", "*">>, <<".", ".", ".">>}

\* What comes behind a spelling in a longer one.
Continuations(spelling) == {c \in OperatorStart : Append(spelling, c) \in Operators}

Init == StateInit /\ TextInit /\ NumberInit

-----------------------------------------------------------------------------
(* read_file() and read_token()                                            *)

EndOfFile ==
  /\ mode = "token" /\ at_end
  /\ tokens' = Append(tokens, [type |-> <<"END_OF_FILE">>, no_w |-> FALSE,
                               location |-> here, end |-> here.position])
  /\ white' = FALSE
  /\ mode' = "done"
  /\ UNCHANGED <<input, here, start, failure, textVars, numberVars>>

SkipWhitespace ==
  /\ mode = "token" /\ peek \in Whitespace
  /\ Consume
  /\ UNCHANGED <<resultVars, mode, start, textVars, numberVars>>

\* A token that begins with one of these characters is read in this mode.
Begin(characters, next) ==
  /\ mode = "token" /\ peek \in characters
  /\ start' = here
  /\ mode' = next

BeginOperator ==
  /\ Begin(OperatorStart, "operator")
  /\ ~ (peek = "?" /\ white)
  /\ Consume
  /\ UNCHANGED <<resultVars, textVars, numberVars>>

\* The number's first character is read by read_number() itself.
BeginNumber ==
  /\ Begin(Digits, "number")
  /\ UNCHANGED <<sourceVars, resultVars, textVars, numberVars>>

\* r may begin a raw string.
BeginWord ==
  /\ Begin(WordStart, IF peek = "r" THEN "raw" ELSE "word")
  /\ Consume
  /\ UNCHANGED <<resultVars, textVars, numberVars>>

BeginQuotes(raw) ==
  /\ scratch' = <<>>
  /\ quote' = [raw |-> raw, count |-> 0, row |-> 0]
  /\ UNCHANGED <<sourceVars, resultVars, reader, escape, numberVars>>

BeginString ==
  /\ Begin({"\""}, "quotes")
  /\ BeginQuotes(FALSE)

BeginLiteral ==
  /\ Begin({"'", Backtick}, IF peek = "'" THEN "char" ELSE "quoted_ident")
  /\ Consume
  /\ scratch' = <<>> /\ escape' = NoEscape
  /\ UNCHANGED <<resultVars, quote, reader, numberVars>>

\* Any other character, and ? where it touches nothing.
UnexpectedCharacter ==
  /\ mode = "token" /\ ~ at_end
  /\ \/ peek \notin KnownCharacters \ {"\\"}
     \/ peek = "?" /\ white
  /\ Throw(here)
  /\ UNCHANGED <<textVars, numberVars>>

-----------------------------------------------------------------------------
(* Operators and punctuation                                               *)

Read == substr_after(start.position)

\* :: is read as one operator only where it touches what is before it.
\* Bug: it always is.
ContinuesAlways(spelling) == peek \in Continuations(spelling)
Continues(spelling) ==
  /\ peek \in Continuations(spelling)
  /\ spelling = <<":">> => ~ white

ReadOperator ==
  /\ mode = "operator" /\ Continues(Read)
  /\ Consume
  /\ mode' = CASE Read = <<"/">> /\ peek = "/" -> "line_comment"
               [] Read = <<"/">> /\ peek = "*" -> "block_comment"
               [] OTHER -> mode
  /\ UNCHANGED <<resultVars, start, textVars, numberVars>>

\* .5 is a number: back to the point.
PointBeforeDigit ==
  /\ mode = "operator" /\ Read = <<".">> /\ peek \in Digits
  /\ SetLocation(start)
  /\ mode' = "number"
  /\ UNCHANGED <<resultVars, start, textVars, numberVars>>

OperatorEnds ==
  /\ mode = "operator" /\ ~ Continues(Read)
  /\ ~ (Read = <<".">> /\ peek \in Digits)
  /\ at_end => Continuations(Read) = {}

\* Operators that come in two variants, and those that only touch.
NoW(spelling) ==
  \/ spelling \in {<<"(">>, <<"[">>, <<"!">>, <<"+", "+">>, <<"-", "-">>} /\ ~ white
  \/ spelling \in {<<":", ":">>, <<"?">>}

CloseOperator ==
  /\ OperatorEnds /\ Read \in Operators \ {<<".", ".">>}
  /\ Emit(Read, NoW(Read))
  /\ UNCHANGED <<textVars, numberVars>>

TwoPoints ==
  /\ OperatorEnds /\ Read = <<".", ".">>
  /\ Throw(start)
  /\ UNCHANGED <<textVars, numberVars>>

\* The functions that look for a longer operator peek without asking at_end(),
\* and so does read_word() behind an r.
PeekPastEnd ==
  /\ at_end
  /\ \/ mode = "operator" /\ Continuations(Read) # {}
     \/ mode = "raw"
  /\ ThrowPastEnd
  /\ UNCHANGED <<textVars, numberVars>>

-----------------------------------------------------------------------------
(* Comments                                                                *)

SkipLineComment ==
  /\ mode = "line_comment"
  /\ Consume
  /\ mode' = IF peek = "\n" THEN "token" ELSE mode
  /\ UNCHANGED <<resultVars, start, textVars, numberVars>>

\* Bug: any slash ends the comment.
SkipBlockCommentToSlash ==
  /\ mode \in {"block_comment", "star"}
  /\ Consume
  /\ mode' = IF peek = "/" THEN "token" ELSE "block_comment"
  /\ UNCHANGED <<resultVars, start, textVars, numberVars>>

\* Behind a star, a slash ends the comment.
SkipBlockComment ==
  /\ mode \in {"block_comment", "star"}
  /\ Consume
  /\ mode' = IF peek = "*" THEN "star"
             ELSE IF mode = "star" /\ peek = "/" THEN "token" ELSE "block_comment"
  /\ UNCHANGED <<resultVars, start, textVars, numberVars>>

\* Bug: a block comment waits for its end.
LineCommentAtEnd ==
  /\ mode = "line_comment" /\ at_end
  /\ mode' = "token"
  /\ UNCHANGED <<sourceVars, resultVars, start, textVars, numberVars>>

\* The end of the input ends any comment.
CommentAtEnd ==
  /\ mode \in {"line_comment", "block_comment", "star"} /\ at_end
  /\ mode' = "token"
  /\ UNCHANGED <<sourceVars, resultVars, start, textVars, numberVars>>

-----------------------------------------------------------------------------
(* Words                                                                   *)

RawString ==
  /\ mode = "raw" /\ peek = "\""
  /\ mode' = "quotes"
  /\ BeginQuotes(TRUE)
  /\ UNCHANGED start

\* What begins with r is a word after all.
NotRaw ==
  /\ mode = "raw" /\ ~ at_end /\ peek # "\""
  /\ mode' = "word"
  /\ UNCHANGED <<sourceVars, resultVars, start, textVars, numberVars>>

ReadWord ==
  /\ mode = "word" /\ peek \in WordContinue
  /\ Consume
  /\ UNCHANGED <<resultVars, mode, start, textVars, numberVars>>

\* Keywords have no _NO_W variant.
CloseWord ==
  /\ mode = "word" /\ peek \notin WordContinue
  /\ IF Read \in ReservedWords THEN Emit(Read, FALSE) ELSE Emit(<<"IDENTIFIER">>, ~ white)
  /\ UNCHANGED <<textVars, numberVars>>

-----------------------------------------------------------------------------
TokenStep ==
  EndOfFile \/ SkipWhitespace \/ BeginOperator \/ BeginNumber \/ BeginWord
    \/ BeginString \/ BeginLiteral \/ UnexpectedCharacter
OperatorStep ==
  ReadOperator \/ PointBeforeDigit \/ CloseOperator \/ TwoPoints \/ PeekPastEnd
WordStep == RawString \/ NotRaw \/ ReadWord \/ CloseWord
CommentStep == SkipLineComment \/ SkipBlockComment \/ CommentAtEnd

Next ==
  \/ TokenStep \/ OperatorStep \/ CommentStep \/ WordStep
  \/ TextStep /\ UNCHANGED numberVars
  \/ NumberStep /\ UNCHANGED textVars

\* A run of the lexer is one call: it goes on until it returns or throws.
Spec == Init /\ [][Next]_vars /\ WF_vars(Next)

-----------------------------------------------------------------------------
(* Properties                                                              *)

Modes ==
  {"token", "operator", "raw", "word", "line_comment", "block_comment", "star",
   "quotes", "string", "string_end", "escape", "escaped_return", "hex",
   "char", "char_end", "char_bytes", "char_byte", "char_close",
   "quoted_ident", "quoted_end",
   "number", "integer", "fraction", "exponent_sign", "exponent_begin", "exponent",
   "done", "failed"}

Locations == [position : Nat \ {0}, line : Nat \ {0}, column : Nat \ {0}]

\* Type invariant; tokens is a sequence, and no place is behind the end of the
\* input.
TypeOK ==
  /\ input \in Inputs /\ white \in BOOLEAN /\ mode \in Modes
  /\ here \in Locations /\ start \in Locations
  /\ here.position <= Len(input) + 1
  /\ tokens \in Seq(Range(tokens))
  /\ \A i \in DOMAIN tokens :
        tokens[i].location \in Locations /\ tokens[i].end \in 1 .. Len(input) + 1
  /\ failure.kind \in {"none", "LexerError", "RuntimeError"}
  /\ failure.location \in Locations

\* The line and column of position p of a text: the line ends before it, and the
\* characters of its line up to it.
LocationIn(text, p) ==
  [position |-> p,
   line     |-> 1 + Cardinality({i \in 1 .. p - 1 : text[i] = "\n"}),
   column   |-> Cardinality({i \in 1 .. p : \A j \in i .. p - 1 : text[j] # "\n"})]

\* Every location that leaves the lexer, in a token or in an error, is the true
\* line and column of a position of the input, also after line ends inside
\* comments, literals and escapes, and after the lexer has gone back.
LocationsCorrect ==
  /\ here = LocationIn(input, here.position)
  /\ start = LocationIn(input, start.position)
  /\ failure.location = LocationIn(input, failure.location.position)
  /\ \A i \in DOMAIN tokens :
        tokens[i].location = LocationIn(input, tokens[i].location.position)

\* Where the last token ended.
LastEnd == IF tokens = <<>> THEN 1 ELSE tokens[Len(tokens)].end

\* Tokens are not empty, do not overlap and come in the order of the input.
TokensInOrder ==
  /\ LastEnd <= here.position
  /\ \A i \in DOMAIN tokens :
        /\ tokens[i].type # <<"END_OF_FILE">> => tokens[i].location.position < tokens[i].end
        /\ i > 1 => tokens[i - 1].end <= tokens[i].location.position

WhiteBetween(first, end) == \E i \in first .. end - 1 : input[i] \in Whitespace

\* The flag says that there was white space behind the last token, in comments
\* and literals too; at the beginning of the file it is set.
FlagIsWhiteSpace ==
  mode # "done" =>
    (white <=> tokens = <<>> \/ WhiteBetween(LastEnd, here.position))

\* A token is of a _NO_W type if and only if nothing white is between it and
\* the token before it.  (A quoted identifier with a blank in it is an exception:
\* it is never of the _NO_W type.)
OfTwoTypes ==
  {<<"(">>, <<"[">>, <<"!">>, <<"+", "+">>, <<"-", "-">>, <<"IDENTIFIER">>}
NoWMeansTouching ==
  \A i \in DOMAIN tokens :
    LET touching == /\ i > 1
                    /\ ~ WhiteBetween(tokens[i - 1].end, tokens[i].location.position)
    IN  /\ tokens[i].no_w => touching
        /\ tokens[i].type \in OfTwoTypes => (tokens[i].no_w <=> touching)

\* A comment that begins at p ends with the character at k.
CommentEnds(p, k) ==
  \/ input[p + 1] = "/" /\ k >= p + 2 /\ input[k] = "\n"
  \/ input[p + 1] = "*" /\ k > p + 2 /\ input[k - 1] = "*" /\ input[k] = "/"

\* The characters from p up to q are one comment.  Without an end it goes on to the
\* end of the input.
Comment(p, q) ==
  /\ p + 2 <= q /\ input[p] = "/" /\ input[p + 1] \in {"/", "*"}
  /\ \A k \in p + 2 .. q - 2 : ~ CommentEnds(p, k)
  /\ CommentEnds(p, q - 1) \/ q = Len(input) + 1

\* The text from first up to end can be cut into white characters and comments:
\* each of the cuts but the end is where one begins that leads to another cut.
Blank(first, end) ==
  \E cuts \in SUBSET (first .. end) :
    /\ first \in cuts
    /\ \A p \in cuts \ {end} : \E q \in cuts :
         (q = p + 1 /\ input[p] \in Whitespace) \/ Comment(p, q)

\* What is between two tokens, and before the first, is white space and comments:
\* no character of the input is dropped.  A complete row of tokens goes on to the
\* end, where its one END_OF_FILE is.
GapsAreBlank ==
  /\ mode = "done" => LastEnd = Len(input) + 1
  /\ \A i \in DOMAIN tokens :
        /\ Blank(IF i = 1 THEN 1 ELSE tokens[i - 1].end, tokens[i].location.position)
        /\ tokens[i].type = <<"END_OF_FILE">> <=> (mode = "done" /\ i = Len(tokens))

\* The token that has just been completed, and its text.
LastToken == tokens[Len(tokens)]
LastText == substr(LastToken.location.position, LastToken.end)
Completed(types) ==
  mode = "token" /\ tokens # <<>> /\ here.position = LastEnd /\ LastToken.type \in types

\* The parts of a number, one after the other, are its text: going back to a
\* leading zero, or finding that it did not mean octal, neither loses nor doubles
\* a digit.  (serialize_number_literal() prints a number by its parts.)
NumberIsItsText ==
  Completed({<<"NUMBER">>, <<"NUMBER_FIELD">>}) =>
    LastText = literal.base_prefix \o literal.integer_digits
      \o (IF literal.has_decimal_point THEN <<".">> ELSE <<>>)
      \o literal.fractional_digits \o literal.exponent_prefix
      \o literal.exponent_sign \o literal.exponent_digits

\* "Underscore must separate successive digits": in a number an underscore is
\* followed by a digit, and preceded by one or by the base prefix.
UnderscoresSeparateDigits ==
  Completed({<<"NUMBER">>, <<"NUMBER_FIELD">>}) =>
    \A i \in DOMAIN LastText : LastText[i] = "_" =>
      /\ i + 1 \in DOMAIN LastText /\ LastText[i + 1] \in HexDigits
      /\ i - 1 \in DOMAIN LastText
      /\ LastText[i - 1] \in HexDigits \/ i - 1 = Len(literal.base_prefix)

\* A string without escapes and carriage returns contains what is between its
\* quotes, single and double quotes inside of three included.
StringIsItsText ==
  Completed({<<"STRING_LITERAL">>}) /\ quote.count \in {1, 3}
    /\ (\A i \in DOMAIN LastText : LastText[i] # "\r" /\ (LastText[i] = "\\" => quote.raw))
  =>
    LET before == IF quote.raw THEN quote.count + 1 ELSE quote.count
        body == SubSeq(LastText, before + 1, Len(LastText) - quote.count)
    IN  scratch = [i \in DOMAIN body |-> <<body[i]>>]

\* Every run ends, with a token for the end of the file or with an exception.
RunEnds == <>(mode \in {"done", "failed"})

-----------------------------------------------------------------------------
(* What the source and its tests say of the lexer, which it does not keep  *)

\* lexer_error.hpp: LexerError is what the lexer throws when it encounters an
\* error.
FailuresAreLexerErrors == failure.kind # "RuntimeError"

\* read_number(), twice: a number with a leading zero is only assumed octal if
\* it has no decimal point or exponent.  So its digits up to 9 are no error.
OctalOnlyWithoutPoint ==
  LET digits == {i \in start.position .. Len(input) :
                   \A j \in start.position .. i : input[j] \in Digits}
      behind == Max(digits) + 1
  IN  mode = "failed" /\ literal.assumed_octal /\ digits # {} /\ behind <= Len(input)
        => input[behind] \notin {".", "e", "E"}

\* error_unterminated_multiline_string.am: a string that three quotes open and
\* do not close is an error.
MultilineStringsAreClosed ==
  Completed({<<"STRING_LITERAL">>}) /\ quote.count = 3 =>
    \A i \in 0 .. 2 : LastText[Len(LastText) - i] = "\""
=============================================================================
