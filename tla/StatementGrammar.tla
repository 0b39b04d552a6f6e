--------------------------- MODULE StatementGrammar ---------------------------
(***************************************************************************)
(* The methods of src/parser/data/parser.cpp that parse statements,        *)
(* patterns and the declarations made of patterns.                         *)
(***************************************************************************)
EXTENDS ParserCode

\* parse_statement: what is neither a statement of its own nor a declaration is
\* an expression statement.
StatementRows ==
  {Row({"++", "_++"}, "pre_increment"), Row({"--", "_--"}, "pre_decrement"),
   Row({"{"}, "block_statement"), Row({"if"}, "if_statement"),
   Row({"when"}, "when_statement"), Row({"try"}, "try_statement"),
   Row({"throw"}, "throw_statement"), Row({"for"}, "for_in_statement"),
   Row({"while"}, "while_statement"), Row({"label"}, "label_statement"),
   Row({"goto"}, "goto_statement"), Row({"continue"}, "continue_statement"),
   Row({"return"}, "return_statement"), Row({"break"}, "break_statement"),
   Row({"@"}, "annotated_statement"), Row({"with"}, "with_stmt")}
StatementRules == [
  statement |-> Switch("statement") \o Switch("decl") \o Goto("expr_statement"),
  with_stmt |-> Advance \o Take(OpenParen)
    \o CommaList(")", Parse("call_argument", "args"))
    \o Parse("statement", "body") \o Make("WithStmtNode"),
  annotated_statement |-> Advance
    \o Require(On({"_id"})) \o Parse("identifier", "name")
    \o Opt({"_("}, Advance \o CommaList(")", Parse("call_argument", "args")))
    \o Parse("statement", "stmt") \o Make("AnnotationNode"),
  break_statement |-> Advance \o Make("BreakStmtNode")]

\* try with its catch clauses and else branch; the type of the exception is
\* parsed as an expression.  Whether a name is in front of it is asked with peek(1)
\* before it is known that there is a token to peek at.
TryRules == [
  try_statement |-> Advance \o Parse("statement", "try_block")
    \o While(On({"catch"}), Parse("catch_statement", "catch_clauses"))
    \o Opt({"else"}, Advance \o Parse("statement", "else_branch"))
    \o Make("TryStmtNode"),
  catch_statement |-> Advance \o Take(OpenParen) \o Require(AnotherToken)
    \o OptName(Identifiers, ":", "var") \o Parse("expr", "exc_type")
    \o Take({")"}) \o Parse("statement", "body") \o Make("CatchClauseNode")]

\* continue and return; what follows return is its expression only if it is on
\* the line of the keyword.
ExprOnThisLine ==
  Choose(<<Case(OnThisLine({";", "end", "}"}), Parse("expr", "expr"))>>)
ReturnRules == [
  continue_statement |-> Advance \o Make("ContinueStmtNode"),
  return_statement   |-> Advance \o ExprOnThisLine \o Make("ReturnStmtNode")]

\* Labels, the empty statement, loops, throw, if, blocks, increments.
SubjectAfterDecls(rule, field) == Parse(rule, field)
  \o Require(Separated({"introductory_decls", field}))
ControlRules == [
  label_statement |-> Advance \o Name("label") \o Make("LabelStmtNode"),
  goto_statement  |-> Advance \o Name("label") \o Make("GotoStmtNode"),
  empty_statement |-> Advance \o Make("EmptyStmtNode"),
  while_statement |-> Advance \o Take(OpenParen) \o IntroductoryDecls
    \o SubjectAfterDecls("expr", "condition") \o Take({")"})
    \o Parse("statement", "body") \o Make("WhileStmtNode"),
  for_in_statement |-> Advance \o Take(OpenParen) \o IntroductoryDecls
    \o SubjectAfterDecls("initializer_pattern", "pattern") \o Take({"in"})
    \o Parse("expr", "iterable") \o Take({")"})
    \o Parse("statement", "body") \o Make("ForInStmtNode"),
  throw_statement |-> Advance \o ExprOnThisLine \o Make("ThrowStmtNode"),
  if_statement |-> Advance \o Take(OpenParen) \o IntroductoryDecls
    \o SubjectAfterDecls("expr", "condition") \o Take({")"})
    \o Parse("statement", "then_branch")
    \o Opt({"else"}, Advance \o Parse("statement", "else_branch"))
    \o Make("IfStmtNode"),
  block_statement |-> Take({"{"}) \o Statements("}", "statement", "stmts")
    \o Take({"}"}) \o Make("BlockStmtNode"),
  pre_increment |-> Prefixed("expr", "PreIncrementStmtNode", "target"),
  pre_decrement |-> Prefixed("expr", "PreDecrementStmtNode", "target")]

\* Patterns.  The node of a field of a struct pattern starts at the brace of the
\* struct pattern.
Pattern == "initializer_pattern"
PatternRules == [
  underscore_pattern |-> Advance \o Make("UnderscorePatternNode"),
  identifier_pattern |-> Parse("identifier", "identifier")
    \o Opt({":"}, Advance \o Parse("type_expr", "type_annotation"))
    \o Make("IdentifierPatternNode"),
  tuple_pattern |-> Advance \o CommaList(")", Parse(Pattern, "elements"))
    \o Make("TuplePatternNode"),
  array_pattern |-> Advance \o CommaList("]", Parse(Pattern, "elements"))
    \o Make("ArrayPatternNode"),
  struct_field_name |-> Require(On(UserIdentifiers))
    \o Parse("identifier", "identifier") \o Require(Off({":"}))
    \o Make("IdentifierPatternNode"),
  struct_field_pattern |->
    If(On(UserIdentifiers),
       Parse("identifier_pattern", "field")
         \o Opt({"="}, Advance \o Relabel("pattern")
                         \o Parse("struct_field_name", "field")),
       Parse(Pattern, "pattern") \o Take({"="})
         \o Parse("struct_field_name", "field"))
    \o Make("StructFieldPatternNode"),
  struct_pattern |-> Advance
    \o CommaList("}", ParseWithin("struct_field_pattern", "elements"))
    \o Make("StructPatternNode")]

\* parse_initializer_pattern, initializers, const and let.
PatternRows ==
  {Row({"_"}, "underscore_pattern"), Row(UserIdentifiers, "identifier_pattern"),
   Row(OpenParen, "tuple_pattern"), Row(OpenBracket, "array_pattern"),
   Row({"{"}, "struct_pattern")}
InitializerRules == [
  initializer_pattern |-> Switch("pattern") \o Fail,
  initializer |-> If(On(UserIdentifiers),
      Parse(Pattern, "pattern") \o Require(Off({":"}))
        \o Opt({"="}, Advance \o Parse("expr", "expr")),
      Parse(Pattern, "pattern") \o Take({"="}) \o Parse("expr", "expr"))
    \o Make("InitializerNode"),
  const_decl |-> Advance \o Parse("initializer", "inits")
    \o While(On({","}), Advance \o Parse("initializer", "inits"))
    \o Make("ConstDeclNode"),
  let_decl |-> Advance \o Parse("initializer", "inits")
    \o While(On({","}), Advance \o Parse("initializer", "inits"))
    \o Make("LetDeclNode")]

\* Expression statements.  The right side of an assignment is parsed among the
\* arguments of add_node, and so is m_token_index read: in which order, the
\* language does not say.
AssignmentNode ==
  ("=" :> "AssignmentStmtNode") @@ ("+=" :> "AddAssignStmtNode") @@
  ("-=" :> "SubAssignStmtNode") @@ ("*=" :> "MulAssignStmtNode") @@
  ("/=" :> "DivAssignStmtNode") @@ ("%=" :> "ModAssignStmtNode") @@
  ("<<=" :> "LeftShiftAssignStmtNode") @@ (">>=" :> "RightShiftAssignStmtNode") @@
  ("&=" :> "BitwiseAndAssignStmtNode") @@ ("|=" :> "BitwiseOrAssignStmtNode") @@
  ("^=" :> "BitwiseXorAssignStmtNode")
Assignment(operator) == Case(On({operator}),
  Advance \o Relabel("target") \o EndFromHereOn \o Parse("expr", "expr")
    \o Make(AssignmentNode[operator]))
ExprStatementRule == [expr_statement |-> Parse("expr", "expr") \o Choose(<<
  Case(On({"_++"}), Advance \o Relabel("target") \o Make("PostIncrementStmtNode")),
  Case(On({"_--"}), Advance \o Relabel("target") \o Make("PostDecrementStmtNode")),
  Assignment("="), Assignment("+="), Assignment("-="), Assignment("*="),
  Assignment("/="), Assignment("%="), Assignment("<<="), Assignment(">>="),
  Assignment("&="), Assignment("|="), Assignment("^="),
  Case(Always, Make("ExprStmtNode"))>>)]
=============================================================================
