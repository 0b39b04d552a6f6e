----------------------------- MODULE ParserCode -----------------------------
(***************************************************************************)
(* The pieces the methods of ParserState (src/parser/data/parser.cpp) are  *)
(* put together from.  A method is a sequence of steps: it looks at tokens *)
(* (peek), consumes them (next, ++m_token_index, read_token_type), calls   *)
(* other methods, and ends by adding a node or by handing on one it got.   *)
(* Each operator below is a sequence of steps, so that a method is written *)
(* with \o; Parser.tla says what every step does.                          *)
(*                                                                         *)
(* A token type is written as it is spelled; "_" marks the variants that   *)
(* touch the token before them (the ..._NO_W types), "id" stands for an    *)
(* identifier, plain or quoted, "This" for KEYWORD_THIS_TYPE and "end" for *)
(* END_OF_FILE.                                                            *)
(***************************************************************************)
EXTENDS Sequences, TLC

UserIdentifiers == {"id", "_id"}
Identifiers     == UserIdentifiers \cup {"This"}
OpenParen       == {"(", "_("}
OpenBracket     == {"[", "_["}

\* What a step may ask of the tokens ahead and of the children parsed so far.
Always            == [test |-> "always"]
Ahead(on)         == [test |-> "ahead", on |-> on]
On(types)         == Ahead(<<types>>)
Off(types)        == [test |-> "off", types |-> types]
OnThisLine(types) == [test |-> "line", types |-> types]
Lambda            == [test |-> "lambda"]
Starts(table)     == [test |-> "starts", table |-> table]
Separated(fields) == [test |-> "separated", fields |-> fields]
Without(field)    == [test |-> "without", field |-> field]
OneChild          == [test |-> "one"]
UniversalAlone    == [test |-> "universal"]
AnotherToken      == [test |-> "another"]

\* Reading tokens: consume any one, consume one of these types, insist.
Advance       == <<[op |-> "advance"]>>
Take(types)   == <<[op |-> "take", types |-> types]>>
Require(test) == <<[op |-> "require", test |-> test]>>
Fail          == Take({})

\* Branches and loops.
Case(test, code)  == [test |-> test, code |-> code]
Choose(cases)     == <<[op |-> "choose", cases |-> cases]>>
If(test, yes, no) == Choose(<<Case(test, yes), Case(Always, no)>>)
Opt(types, code)  == Choose(<<Case(On(types), code)>>)
While(test, code) == <<[op |-> "while", test |-> test, code |-> code]>>
Switch(table)     == <<[op |-> "switch", table |-> table]>>
Row(types, rule)  == [on |-> <<types>>, rule |-> rule]
Row2(types, ahead, rule) == [on |-> <<types, ahead>>, rule |-> rule]

\* Calls: the result becomes the child `field'; ParseWithin hands on the start
\* token of the caller; Goto is `return parse_rule();'.
Parse(rule, field) ==
    <<[op |-> "parse", rule |-> rule, field |-> field, own |-> TRUE]>>
ParseWithin(rule, field) ==
    <<[op |-> "parse", rule |-> rule, field |-> field, own |-> FALSE]>>
Goto(rule)         == <<[op |-> "goto", rule |-> rule]>>

\* Nodes: Make adds one and returns it, Wrap adds one around the children so far
\* and goes on with it as the only child, Return hands the only child on.
Make(type)        == <<[op |-> "make", type |-> type, keep |-> "nothing"]>>
MakeImport(type)  == <<[op |-> "make", type |-> type, keep |-> "import"]>>
MakeModule(type)  == <<[op |-> "make", type |-> type, keep |-> "module"]>>
MakeRoot(type)    == <<[op |-> "make_root", type |-> type]>>
Wrap(type, first) == <<[op |-> "wrap", type |-> type, first |-> first]>>
Return            == <<[op |-> "return"]>>

\* The rest: the start token of the node, the end token of a node whose operands
\* are parsed in the argument list of add_node, literals read again by the lexer.
StartHere      == <<[op |-> "start", back |-> 0]>>
StartAtLast    == <<[op |-> "start", back |-> 1]>>
EndFromHereOn  == <<[op |-> "early"]>>
Relabel(field) == <<[op |-> "relabel", field |-> field]>>
Overwrite(field) == <<[op |-> "overwrite", field |-> field]>>
OpenModule     == <<[op |-> "open_module"]>>
Reread         == <<[op |-> "reread"]>>

\* COMMA_SEPARATED_UNTIL and COMMA_OR_SEMICOLON_SEPARATED_UNTIL.
SeparatedUntil(separators, close, item) ==
    While(Off({close}),
          item \o If(On(separators), Advance, Require(On({close}))))
      \o Take({close})
CommaList(close, item) == SeparatedUntil({","}, close, item)

\* The loop of parse_top_level_decls, parse_statements and the class body.
Statements(close, rule, field) ==
    While(Off({close}), Parse(rule, field) \o Require(Separated({field})))

\* expect_identifier: parse_identifier, which also knows operator names, is
\* reached by an identifier only.
Name(field)   == Require(On(Identifiers)) \o Parse("identifier", field)

\* is_identifier(peek()) && peek(1) is `mark': an optional name in front.
OptName(types, mark, field) ==
    Choose(<<Case(Ahead(<<types, {mark}>>),
                  Parse("identifier", field) \o Advance)>>)

\* parse_introductory_decls: declarations as long as there are any.
IntroductoryDecls ==
    While(Starts("decl"), Parse("decl", "introductory_decls")
                            \o Require(Separated({"introductory_decls"})))

\* A keyword in front of something: the keyword, the rest, the node.
Prefixed(rule, type, field) == Advance \o Parse(rule, field) \o Make(type)
=============================================================================
