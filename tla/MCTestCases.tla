----------------------------- MODULE MCTestCases -----------------------------
EXTENDS TestCases

Names2 == <<"addition", "error_operand">>
Errors == {"error_operand"}

Chars == {"x", "y", "/", "*", "\n", "E", "1"}

Prints(text) == [does |-> "prints", text |-> text]
Behaviours ==
  {Prints(<<>>), Prints(<<"x", "\n">>), Prints(<<"y", "\n", "y", "\n">>),
   Prints(<<"*", "/", "\n">>), Prints(<<"*", "*", "/", "\n">>),
   [does |-> "refuses", text |-> <<>>], [does |-> "crashes", text |-> <<>>]}

(* No section, one behind or before the program, one without a footer,     *)
(* other comments before and behind, a commented-out header, an empty file; *)
(* and, out of sight of the searches, a last line without a line end, a    *)
(* header in a line comment and a footer behind an asterisk.               *)
Texts ==
  {<<"x", "\n">>,
   <<"x", "\n", "/", "*", "\n", "y", "\n", "*", "/", "\n">>,
   <<"/", "*", "\n", "*", "/", "\n", "x">>,
   <<"/", "*", "\n", "x", "\n">>,
   <<"/", "*", "x", "*", "/", "x", "\n", "/", "*", "\n", "*", "/", "x", "/", "*",
     "*", "/">>,
   <<"/", "/", "*", "\n", "x", "x", "\n">>,
   <<>>,
   <<"x", "/", "/">>,
   <<"/", "/", "/", "*", "\n", "x", "\n">>,
   <<"/", "*", "\n", "*", "*", "/", "x", "\n">>}
=============================================================================
