------------------------------- MODULE MCParser -------------------------------
(***************************************************************************)
(* The parser and the formatter on files of up to some thirty tokens:      *)
(* every pair of binary operators, every pair of statements next to each   *)
(* other, `when' blocks, nested modules, a gallery of declarations and     *)
(* files that end too soon.                                                *)
(***************************************************************************)
EXTENDS GrammarCheck, OperatorCheck, TokenCheck, ElseCheck, Grammar

\* A file from its lines.
File(rows) == FlattenSeq([n \in DOMAIN rows |->
                [i \in DOMAIN rows[n] |-> [type |-> rows[n][i], line |-> n]]])
              \o <<[type |-> "end", line |-> Len(rows) + 1]>>
Rest(words, k) == SubSeq(words, k, Len(words))
\* A function with these lines as its body.
Body(rows) == File(<<<<"fun", "id", "_(", ")", "{">>>> \o rows \o <<<<"}">>>>)

\* One operator of every level, two of the level of +.
Operators == {"||", "&&", "|", "^", "&", "==", "<", "<<", "+", "-", "*", "as"}
Let == <<"let", "id", "=">>
Expressions ==
  {File(<<Let \o <<"id", p, "id", q, "id">>>>) : p, q \in Operators}
    \cup {File(<<Let \o <<"(", "id", p, "id">> \o close \o <<q, "-", "id">>>>) :
            p, q \in {"||", "+", "*"}, close \in {<<")">>, <<",", ")">>}}

Statements2 == {<<"id", "=", "id">>, <<"return">>, <<"++", "id", ".", "id">>,
  <<"if", "(", "id", ")", "id", "else", "{", "}">>, <<"id", "_++">>}
Separation == {"nothing", ";", "line"}
Pairs == {Body(CASE how = "nothing" -> <<s \o t>>
                 [] how = ";"       -> <<s \o <<";">> \o t>>
                 [] OTHER           -> <<s, t>>) :
            s, t \in Statements2, how \in Separation}

Clauses == {<<"id", "=>", "id">>, <<"is", "id", "=>", "id">>,
            <<"else", "=>", "id">>}
Whens == {Body(<<<<"when", "(", "id", ")", "{">>, c \o <<",">>,
                 d \o <<";">>, e, <<"}">>>>) : c, d, e \in Clauses}

Import == <<"import", "id", "(", "...", ",", "id", ")">>
Inner  == {<<>>, <<Import>>, <<<<"module", "id", "{", "}">>>>,
           <<<<"module", "id">>>>}
Modules == {File(<<<<"module", "id", "{">>>> \o a \o <<<<"module", "id", "{">>>>
                   \o b \o <<<<"}">>>> \o a \o <<<<"}">>>> \o b) : a, b \in Inner}

Gallery == {
  File(<<<<"class", "id", "_[", "id", ":", "id", "]", "(", "const", "id", ")",
           ":", "id", "{">>, <<"id", ":", "[", "...", "]", "const", "int">>,
         <<"~", "id", "_(", ")", "=", "default">>, <<"static", "fun", "id", "_(", ")">>,
         <<"}">>>>),
  File(<<<<"operator", "[", "]", "=", "(", ")">>, <<"enum", "id", "{", "id", "=",
           "number", "}">>, <<"concept", "id", "when", "(", "id", ":", "id", ")">>>>),
  File(<<<<"let", "{", "id", "=", "id", ",", "[", "_", "]", "=", "id", "}",
           "=", "id">>>>),
  File(<<Let \o <<"fun", "(", ")", "[", "copy", "id", ",", "id", "=", "id", "]",
                  "->", "id">>>>),
  File(<<Let \o <<"(", "id", ":", "id", ",", "id", ")", "->", "id", "_::", "_id",
                  "_[", "id", "=", "string", "]">>>>),
  Body(<<<<"try", "{", "}", "catch", "(", "id", ":", "id", ")", "id">>,
         <<"while", "(", "let", "id", "=", "id", ";", "id", ")", "{", "}">>,
         <<"return", "{", "}">>, <<"label", "id">>, <<"id", ".0", ".", "id">>>>),
  File(<<Let \o <<"{", ".", "id", "=", "char literal", "}">>>>),
  File(<<<<"@", "_id", "inline", "class", "id">>>>),
  File(<<<<"local", "(", "id", "_::", "_id", ")", "@", "_id", "_(", "id", ")",
           "union", "id">>>>)}

\* Files that end too soon, or have something else where a token was due.
Broken ==
  LET words == <<"module", "id", "{", "fun", "id", "_(", "id", ":", "id", ")",
                 "=", "(", "id", ",", "id", ")">>
  IN {File(<<SubSeq(words, 1, k)>>) : k \in 1..Len(words)}
       \cup {File(<<SubSeq(words, 1, k - 1) \o <<"as">> \o Rest(words, k + 1)>>) :
               k \in 1..Len(words)}
       \cup {File(<<<<"operator">>>>), File(<<<<"operator", "as">>>>), File(<<>>),
             File(<<<<"fun", "id", "_(", ")", "{", "try", "{", "}", "catch", "(">>>>)}

MCTexts == Expressions \cup Pairs \cup Whens \cup Modules \cup Gallery \cup Broken
==============================================================================
