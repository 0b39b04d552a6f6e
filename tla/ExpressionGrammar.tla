-------------------------- MODULE ExpressionGrammar --------------------------
(***************************************************************************)
(* The methods of src/parser/data/parser.cpp that parse expressions and    *)
(* types, from parse_expr to the end of the file.                          *)
(***************************************************************************)
EXTENDS ParserCode

\* One level of binary operators: the operands are of the next level, the node
\* made so far is the left operand of the next operator.
Operator(token, type, operand) ==
  Case(On({token}), Advance \o Parse(operand, "right") \o Wrap(type, "left"))
Level(operand, types, operators) ==
  Parse(operand, "left") \o While(On(types), Choose(operators)) \o Return

LogicRules == [
  expr |-> Level("expr_and", {"||"}, <<Operator("||", "OrExprNode", "expr_and")>>),
  expr_and |-> Level("expr_bitwise_or", {"&&"},
    <<Operator("&&", "AndExprNode", "expr_bitwise_or")>>),
  expr_bitwise_or |-> Level("expr_bitwise_xor", {"|"},
    <<Operator("|", "BitwiseOrExprNode", "expr_bitwise_xor")>>),
  expr_bitwise_xor |-> Level("expr_bitwise_and", {"^"},
    <<Operator("^", "BitwiseXorExprNode", "expr_bitwise_and")>>),
  expr_bitwise_and |-> Level("expr_eq_ne", {"&"},
    <<Operator("&", "BitwiseAndExprNode", "expr_eq_ne")>>),
  expr_eq_ne |-> Level("expr_gt_lt", {"==", "!="},
    <<Operator("==", "EqualsExprNode", "expr_gt_lt"),
      Operator("!=", "NotEqualsExprNode", "expr_gt_lt")>>)]

ArithmeticRules == [
  expr_gt_lt |-> Level("expr_lshift_rshift", {">", "<", ">=", "<="},
    <<Operator(">", "GreaterExprNode", "expr_lshift_rshift"),
      Operator("<", "LessExprNode", "expr_lshift_rshift"),
      Operator(">=", "GreaterEqualsExprNode", "expr_lshift_rshift"),
      Operator("<=", "LessEqualsExprNode", "expr_lshift_rshift")>>),
  expr_lshift_rshift |-> Level("expr_add_sub", {"<<", ">>"},
    <<Operator("<<", "LeftShiftExprNode", "expr_add_sub"),
      Operator(">>", "RightShiftExprNode", "expr_add_sub")>>),
  expr_add_sub |-> Level("expr_mul_div_mod", {"+", "-"},
    <<Operator("+", "AddExprNode", "expr_mul_div_mod"),
      Operator("-", "SubtractExprNode", "expr_mul_div_mod")>>),
  expr_mul_div_mod |-> Level("expr_is_as", {"*", "/", "%"},
    <<Operator("*", "MultiplyExprNode", "expr_is_as"),
      Operator("/", "DivideExprNode", "expr_is_as"),
      Operator("%", "ModuloExprNode", "expr_is_as")>>),
  expr_is_as |-> Parse("expr_prefix", "left")
    \o While(On({"as", "is"}), Choose(<<
         Case(On({"as"}), Advance \o Parse("type_expr", "type")
                            \o Wrap("AsExprNode", "expr")),
         Case(On({"is"}), Advance \o Parse("type_expr", "type")
                            \o Wrap("IsExprNode", "expr"))>>))
    \o Return]

\* Prefix operators.
Unary(type, field) == Prefixed("expr_prefix", type, field)
PrefixRows ==
  {Row({"await"}, "await"), Row({"move"}, "move"), Row({"copy"}, "copy"),
   Row({"&"}, "ref"), Row({"+"}, "positive"), Row({"-"}, "negate"),
   Row({"~"}, "bitwise_not"), Row({"*"}, "deref"), Row({"!", "_!"}, "not"),
   Row({"..."}, "ellipsis"), Row({"$"}, "dollar"), Row({"impl"}, "impl"),
   Row({"any"}, "any"), Row({"async"}, "async"), Row({"const"}, "const")}
PrefixRules == [
  expr_prefix |-> Switch("prefix") \o Goto("expr_postfix"),
  await    |-> Unary("AwaitExprNode", "expr"),
  move     |-> Unary("MoveExprNode", "expr"),
  copy     |-> Unary("CopyExprNode", "expr"),
  ref      |-> Advance \o Opt({"const", "move"}, Advance)
                 \o Parse("expr_prefix", "expr") \o Make("RefExprNode"),
  positive |-> Unary("PositiveExprNode", "expr"),
  negate   |-> Unary("NegateExprNode", "expr"),
  bitwise_not |-> Unary("BitwiseNotExprNode", "expr"),
  deref    |-> Advance \o Opt({"const"}, Advance)
                 \o Parse("expr_prefix", "expr") \o Make("DerefExprNode"),
  not      |-> Unary("NotExprNode", "expr"),
  ellipsis |-> Unary("EllipsisExprNode", "expr"),
  dollar   |-> Unary("DollarSignExprNode", "expr"),
  impl     |-> Unary("ImplTypeExprNode", "type"),
  any      |-> Unary("AnyTypeExprNode", "type"),
  async    |-> Unary("AsyncExprNode", "expr"),
  const    |-> Unary("ConstTypeExprNode", "expr")]

\* Postfix operators.
ScopeResolution(first) ==
  Advance \o Require(On({"_id", "operator"})) \o EndFromHereOn
    \o Parse("identifier", "name") \o Wrap("ScopeResolutionExprNode", "scope")
Indexing(rule) == Advance \o CommaList("]", Parse(rule, "indices"))
                     \o Wrap("IndexingExprNode", "object")
PostfixRules == [
  expr_postfix |-> Parse("atom", "left")
    \o While(On({".", ".0", "_[", "_(", "_::", "_?", "_!"}), Choose(<<
         Case(On({"."}), Advance \o Parse("field", "field")
                           \o Wrap("FieldAccessExprNode", "object")),
         Case(On({".0"}), Advance \o Reread
                            \o Wrap("NumericFieldAccessExprNode", "object")),
         Case(On({"_["}), Indexing("index")),
         Case(On({"_("}), Advance \o CommaList(")", Parse("call_argument", "args"))
                            \o Wrap("FunctionCallExprNode", "callee")),
         Case(On({"_::"}), ScopeResolution("left")),
         Case(On({"_?"}), Advance \o Wrap("QuestionMarkExprNode", "expr")),
         Case(On({"_!"}), Advance \o Wrap("ExclamationMarkExprNode", "expr"))>>))
    \o Return,
  field |-> Choose(<<
    Case(On({"type"}), Advance \o Make("TypeFieldNode")),
    Case(On({"super"}), Goto("super_literal"))>>)
    \o Require(On(UserIdentifiers \cup {"operator"})) \o Goto("identifier"),
  index |-> OptName(UserIdentifiers, "=", "name") \o Parse("expr", "value")
    \o Make("IndexNode")]

\* parse_atom.
BuiltinTypes == {"bool", "byte", "short", "int", "long", "ubyte", "ushort",
  "uint", "ulong", "usize", "float", "double", "char", "text", "null", "never"}
AtomRows ==
  {Row(OpenBracket, "array_type"), Row(UserIdentifiers, "identifier_or_lambda"),
   Row({"This", "operator"}, "identifier"),
   Row({"string"}, "string_literal"), Row({"char literal"}, "char_literal"),
   Row({"number", ".0"}, "number_literal"), Row(OpenParen, "paren_or_lambda"),
   Row({"{"}, "brace_expr"), Row({"if"}, "if_expr"), Row({"try"}, "try_expr"),
   Row({"when"}, "when_expr"), Row({"fun"}, "function_expr"),
   Row({"true", "false"}, "boolean_literal"), Row({"this"}, "this_literal"),
   Row({"super"}, "super_literal"), Row({"default"}, "default_literal"),
   Row(BuiltinTypes, "builtin_type"), Row({"bitint", "ubitint"}, "bitint_type"),
   Row({"with"}, "with_expr"), Row({"typeof"}, "typeof_expr"),
   Row({"implicit"}, "implicit_expr")}
AtomRules == [
  atom |-> Switch("atom") \o Fail,
  identifier_or_lambda |->
    Choose(<<Case(Lambda, Goto("lambda_expr"))>>) \o Goto("identifier"),
  paren_or_lambda |-> Choose(<<Case(Lambda, Goto("lambda_expr"))>>)
    \o Goto("parenthesized_expr")]

\* when, as a statement and as an expression, makes the same node.  A second
\* else clause takes the place of the first.
WhenClause(body) == CommaList("=>", Parse("when_clause_item", "items"))
  \o Parse(body, "body") \o Make("WhenClauseNode")
When(clause, body) == Advance \o Take(OpenParen) \o IntroductoryDecls
  \o Parse("expr", "expr") \o Take({")"}) \o Take({"{"})
  \o SeparatedUntil({",", ";"}, "}",
       If(On({"else"}),
          Advance \o Take({"=>"}) \o Parse(body, "else_expr")
            \o Overwrite("else_expr"),
          Require(Without("else_expr")) \o Parse(clause, "clauses")
            \o Require(Separated({"clauses"}))))
  \o Make("WhenExprNode")
WhenRules == [
  when_clause_item |-> Opt({"is"}, Advance) \o Parse("expr", "expr")
    \o Make("WhenClauseItemNode"),
  when_clause_statement |-> WhenClause("statement"),
  when_clause_expr      |-> WhenClause("expr"),
  when_statement        |-> When("when_clause_statement", "statement"),
  when_expr             |-> When("when_clause_expr", "expr"),
  implicit_expr |-> Advance \o Take(OpenParen) \o Name("name") \o Take({")"})
    \o Make("ImplicitExprNode")]

\* Types: the prefixes, the postfixes and the atoms of parse_type_expr.
TypeUnary(type, field) == Prefixed("type_expr", type, field)
TypePrefixRows ==
  {Row({"&"}, "type_ref"), Row({"*"}, "type_deref"), Row({"!", "_!"}, "type_not"),
   Row({"..."}, "type_ellipsis"), Row({"impl"}, "type_impl"),
   Row({"any"}, "type_any"), Row({"async"}, "type_async"),
   Row({"const"}, "type_const")}
TypePrefixRules == [
  type_expr |-> Switch("type_prefix") \o Goto("type_postfix"),
  type_ref      |-> Advance \o Opt({"const", "move"}, Advance)
                      \o Parse("type_expr", "expr") \o Make("RefExprNode"),
  type_deref    |-> Advance \o Opt({"const"}, Advance)
                      \o Parse("type_expr", "expr") \o Make("DerefExprNode"),
  type_not      |-> TypeUnary("NotExprNode", "expr"),
  type_ellipsis |-> TypeUnary("EllipsisExprNode", "expr"),
  type_impl     |-> TypeUnary("ImplTypeExprNode", "type"),
  type_any      |-> TypeUnary("AnyTypeExprNode", "type"),
  type_async    |-> TypeUnary("AsyncExprNode", "expr"),
  type_const    |-> Prefixed("atom", "ConstTypeExprNode", "expr")]

TypeAtomRows ==
  {Row(OpenBracket, "array_type"), Row(Identifiers, "identifier"),
   Row(OpenParen, "parenthesized_expr"), Row({"{"}, "brace_expr"),
   Row({"fun"}, "function_type"), Row(BuiltinTypes, "builtin_type"),
   Row({"bitint", "ubitint"}, "bitint_type"), Row({"typeof"}, "typeof_expr")}
TypePostfixRules == [
  type_postfix |-> Parse("type_atom", "left")
    \o While(On({"_[", "_::"}), Choose(<<
         Case(On({"_["}), Indexing("type_index")),
         Case(On({"_::"}), ScopeResolution("left"))>>))
    \o Return,
  type_index |-> OptName(Identifiers, "=", "name") \o Parse("expr", "value")
    \o Make("IndexNode"),
  type_atom |-> Switch("type_atom") \o Fail]

\* Names with scopes, arrays, types of the language, with.
ArrayRules == [
  scoped_name |-> Name("left") \o While(On({"_::"}), ScopeResolution("left"))
    \o Return,
  array_type |-> Advance
    \o Choose(<<Case(On({"..."}), Advance), Case(Off({"]"}), Parse("expr", "size"))>>)
    \o Take({"]"}) \o Opt({"const"}, Advance) \o Parse("type_expr", "type_expr")
    \o Opt({"{"}, Advance \o CommaList("}", Parse("expr", "elements")))
    \o Make("ArrayExprNode"),
  bitint_type |-> Advance \o Make("BitIntTypeNode"),
  typeof_expr |-> Advance \o Take(OpenParen) \o Parse("expr", "expr")
    \o Take({")"}) \o Make("TypeOfExprNode"),
  with_expr |-> Advance \o Take(OpenParen)
    \o CommaList(")", Parse("call_argument", "args")) \o Parse("expr", "body")
    \o Make("WithExprNode")]

\* Builtin types, literals that are a keyword, function expressions.
LiteralRules == [
  builtin_type    |-> Advance \o Make("BuiltinTypeNode"),
  default_literal |-> Advance \o Make("DefaultLiteralNode"),
  this_literal    |-> Advance \o Make("ThisLiteralNode"),
  super_literal   |-> Advance \o Make("SuperLiteralNode"),
  this_type       |-> Advance \o Make("ThisTypeNode"),
  boolean_literal |-> Advance \o Make("BooleanLiteralNode"),
  function_expr   |-> Advance \o Parse("function_signature", "signature")
    \o Opt({"{"}, Parse("function_body", "body")) \o Make("FunctionExprNode"),
  function_type   |-> Advance \o Parse("function_signature", "signature")
    \o Make("FunctionExprNode")]

\* parse_operator_ident: the keyword and the token behind it are consumed before
\* the token is looked at.
OperatorNodes ==
  ("+" :> "OperatorIdentAddNode") @@ ("-" :> "OperatorIdentSubNode") @@
  ("*" :> "OperatorIdentStarNode") @@ ("/" :> "OperatorIdentDivNode") @@
  ("%" :> "OperatorIdentModNode") @@
  ("++" :> "OperatorIdentIncNode") @@ ("_++" :> "OperatorIdentIncNode") @@
  ("--" :> "OperatorIdentDecNode") @@ ("_--" :> "OperatorIdentDecNode") @@
  ("==" :> "OperatorIdentEqNode") @@ ("!=" :> "OperatorIdentNeqNode") @@
  (">" :> "OperatorIdentGtNode") @@ ("<" :> "OperatorIdentLtNode") @@
  (">=" :> "OperatorIdentGteNode") @@ ("<=" :> "OperatorIdentLteNode") @@
  ("!" :> "OperatorIdentNotNode") @@ ("_!" :> "OperatorIdentNotNode") @@
  ("&&" :> "OperatorIdentAndNode") @@ ("||" :> "OperatorIdentOrNode") @@
  ("~" :> "OperatorIdentBitwiseNotNode") @@
  ("&" :> "OperatorIdentAmpersandNode") @@
  ("|" :> "OperatorIdentBitwiseOrNode") @@
  ("^" :> "OperatorIdentBitwiseXorNode") @@
  ("<<" :> "OperatorIdentLeftShiftNode") @@
  (">>" :> "OperatorIdentRightShiftNode") @@
  ("=" :> "OperatorIdentAssignNode") @@ ("+=" :> "OperatorIdentAddAssignNode") @@
  ("-=" :> "OperatorIdentSubAssignNode") @@
  ("*=" :> "OperatorIdentMulAssignNode") @@
  ("/=" :> "OperatorIdentDivAssignNode") @@
  ("%=" :> "OperatorIdentModAssignNode") @@
  ("&=" :> "OperatorIdentBitwiseAndAssignNode") @@
  ("|=" :> "OperatorIdentBitwiseOrAssignNode") @@
  ("^=" :> "OperatorIdentBitwiseXorAssignNode") @@
  ("<<=" :> "OperatorIdentLeftShiftAssignNode") @@
  (">>=" :> "OperatorIdentRightShiftAssignNode")
OperatorIdentRules == [
  operator_ident |-> Parse("operator_node", "op")
    \o Make("OperatorIdentifierNode"),
  operator_node |-> Advance \o Switch("operator") \o Choose(<<
    Case(On(OpenBracket), Advance \o Take({"]"})
      \o If(On({"="}), Advance \o Make("OperatorIdentIxAssignNode"),
                       Make("OperatorIdentIxNode"))),
    Case(On(OpenParen), Advance \o Take({")"}) \o Make("OperatorIdentFuncallNode")),
    Case(On({"as"}), Advance \o Parse("type_expr", "type")
                       \o Make("OperatorIdentAsNode"))>>)
    \o Advance \o Fail]
\* The operators that are one token: a method per node, all alike.
OperatorRows == {Row({t}, OperatorNodes[t]) : t \in DOMAIN OperatorNodes}
OneTokenOperators == [type \in {OperatorNodes[t] : t \in DOMAIN OperatorNodes} |->
                        Advance \o Make(type)]

\* try, if, parentheses and braces as expressions.
TryIfRules == [
  try_expr |-> Advance \o Parse("expr", "try_block")
    \o While(On({"catch"}), Parse("catch_expr", "catch_clauses"))
    \o Opt({"else"}, Advance \o Parse("expr", "else_branch"))
    \o Make("TryExprNode"),
  catch_expr |-> Advance \o Take(OpenParen) \o OptName(Identifiers, ":", "var")
    \o Parse("type_expr", "exc_type") \o Take({")"}) \o Parse("expr", "body")
    \o Make("CatchClauseNode"),
  if_expr |-> Advance \o Take(OpenParen) \o IntroductoryDecls
    \o Parse("expr", "condition")
    \o Require(Separated({"introductory_decls", "condition"})) \o Take({")"})
    \o Parse("expr", "then_branch") \o Take({"else"})
    \o Parse("expr", "else_branch") \o Make("IfExprNode"),
  parenthesized_expr |-> Advance \o CommaList(")", Parse("expr", "exprs"))
    \o If(OneChild, Return, Make("ParenthesizedExprNode")),
  brace_expr |-> Choose(<<
      Case(Ahead(<<{"{"}, {"end"}>>), Fail),
      Case(Ahead(<<{"{"}, {"}", "."}>>), Goto("object_literal")),
      Case(Ahead(<<{"{"}, Identifiers, {":"}>>), Goto("object_type"))>>)
    \o Goto("block_expr"),
  block_expr |-> Take({"{"}) \o Statements("}", "statement", "stmts")
    \o Take({"}"}) \o Make("BlockExprNode"),
  object_literal |-> Advance \o CommaList("}", Take({"."}) \o
      Parse("literal_entry", "entries")) \o Make("AnonymousStructLiteralNode"),
  literal_entry |-> Name("key") \o Take({"="}) \o Parse("expr", "value")
    \o Make("KeyValueEntryNode"),
  object_type |-> Advance \o CommaList("}", Parse("type_entry", "entries"))
    \o Make("AnonymousStructTypeNode"),
  type_entry |-> Name("key") \o Take({":"}) \o Parse("expr", "value")
    \o Make("KeyValueEntryNode")]

\* Literals, identifiers, lambda expressions, arguments.
IdentifierRules == [
  string_literal |-> Advance \o Reread \o Make("StringLiteralNode"),
  char_literal   |-> Advance \o Reread \o Make("CharLiteralNode"),
  number_literal |-> Advance \o Reread \o Make("NumberLiteralNode"),
  identifier |-> Choose(<<Case(On({"operator"}), Goto("operator_ident")),
                          Case(On({"This"}), Goto("this_type"))>>)
    \o Advance \o Make("IdentifierNode"),
  lambda_expr |->
    If(On(OpenParen),
       Advance \o CommaList(")", Parse("function_parameter", "parameters")),
       Name("parameters"))
    \o Take({"->"}) \o Parse("expr", "body") \o Make("LambdaExprNode"),
  call_argument |-> OptName(Identifiers, "=", "name") \o Parse("expr", "expr")
    \o Make("FunctionArgumentNode")]
=============================================================================
