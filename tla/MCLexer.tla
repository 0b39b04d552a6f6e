-------------------------------- MODULE MCLexer --------------------------------
(***************************************************************************)
(* Lexer on every text of a few characters over small alphabets: one for   *)
(* words, operators, comments and quotes, one for numbers, and literals    *)
(* whose beginning is given so that the rest can be longer.                *)
(***************************************************************************)
EXTENDS Lexer

MCReservedWords == {<<"a", "s">>, <<"_">>}

Plain == BoundedSeq({"a", "r", "1", " ", "\n", ":", ".", "/", "*", "+", "?", "\"", Backtick}, 4)

Numbers == BoundedSeq({"0", "8", "e", "p", "x", "_", ".", "+"}, 5)

Behind(beginning, characters, n) == {beginning \o s : s \in BoundedSeq(characters, n)}

Quotes(n) == [i \in 1 .. n |-> "\""]
Strings ==
  Behind(Quotes(1), {"\"", "\\", "\n", "\r", "n"}, 4)
    \cup Behind(Quotes(3), {"\"", "\\", "\n", "n"}, 6)
    \cup Behind(<<"r">> \o Quotes(1), {"\"", "\\", "n"}, 3)
    \cup {Quotes(n) : n \in 1 .. 7}

Bytes == {<<"\\", "x", "4", "1">>, <<"\\", "x", "e", "6">>, <<"\\", "x", "g">>, <<"\\", "u">>}
CodePoints ==
  {<<"\\", "u", "6", "5", "e", "5">>, <<"\\", "u", "d", "8", "0", "0">>,
   <<"\\", "U", "0", "0", "1", "0", "0", "0", "0", "0">>,
   <<"\\", "U", "0", "0", "1", "1", "0", "0", "0", "0">>, <<"\\", "u", "6">>}
Escapes == CodePoints \cup {a \o b : a, b \in Bytes} \cup Bytes
Literals ==
  {<<q>> \o s \o <<q>> : s \in Escapes, q \in {"\"", "'", Backtick}}
    \cup {<<"'">> \o s : s \in Escapes}
    \cup Behind(<<"'">>, {"'", "\\", "\n", "n", "q"}, 3)
    \cup Behind(<<"a", Backtick>>, {Backtick, "\\", "\n", "n", " "}, 3)

\* Texts of slashes: what MCLexerFailures.cfg looks for is reached by one of them.
MCSlashes == BoundedSeq({"/", "*", " "}, 3)

MCInputs == Plain \cup Numbers \cup Strings \cup Literals
=============================================================================
