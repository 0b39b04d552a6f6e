---------------------------- MODULE PrintedFields ----------------------------
(***************************************************************************)
(* The switch of NodeFormatter::format_node, src/parser/data/              *)
(* node_formatter.cpp: which fields a node of each type prints, in which   *)
(* order.  Whether a field is printed as one node or as a list is decided  *)
(* by the type it has in its struct (NodeStructs.tla), as the overloads of *)
(* print_node_field are chosen by it.                                      *)
(***************************************************************************)
EXTENDS Sequences, TLC

\* Cases that print the same.
Each(types, names) == [t \in types |-> names]
IfNames == <<"introductory_decls", "condition", "then_branch", "else_branch">>
TryNames == <<"try_block", "catch_clauses", "else_branch">>

\* From IdentifierNode to WhenStmtNode.
PrintedFirst == [
  IdentifierNode         |-> <<"name">>,
  IdentifierPatternNode  |-> <<"identifier", "type_annotation">>,
  StructFieldPatternNode |-> <<"pattern", "field">>,
  InitializerNode        |-> <<"pattern", "expr">>,
  StringLiteralNode      |-> <<"contents">>,
  CharLiteralNode        |-> <<"code_point">>,
  NumberLiteralNode      |-> <<"value">>,
  ParenthesizedExprNode  |-> <<"exprs">>,
  ArrayExprNode    |-> <<"size", "infer_size", "is_const", "type_expr", "elements">>,
  ModuleNode       |-> <<"decls", "imports", "submodules">>,
  BlockExprNode    |-> <<"stmts">>,
  KeyValueEntryNode |-> <<"key", "value">>]
    @@ Each({"ArrayPatternNode", "TuplePatternNode", "StructPatternNode"},
            <<"elements">>)
    @@ Each({"LetDeclNode", "ConstDeclNode"}, <<"inits">>)
    @@ Each({"WithExprNode", "WithStmtNode"}, <<"args", "body">>)
    @@ Each({"AnonymousStructLiteralNode", "AnonymousStructTypeNode"}, <<"entries">>)
PrintedBranches == [
  ExprStmtNode       |-> <<"expr">>,
  IfStmtNode         |-> IfNames,
  IfExprNode         |-> IfNames,
  CatchClauseNode    |-> <<"exc_type", "var", "body">>,
  TryExprNode        |-> TryNames,
  TryStmtNode        |-> TryNames,
  WhenClauseItemNode |-> <<"is", "expr">>,
  WhenClauseNode     |-> <<"items", "body">>,
  WhenExprNode |-> <<"introductory_decls", "expr", "clauses", "else_expr">>,
  WhenStmtNode |-> <<"introductory_decls", "expr", "clauses", "else_stmt">>]

\* Binary, prefix and postfix expressions.
PrintedBinary == Each({"OrExprNode", "AndExprNode", "BitwiseOrExprNode",
  "BitwiseXorExprNode", "BitwiseAndExprNode", "EqualsExprNode",
  "NotEqualsExprNode", "GreaterEqualsExprNode", "LessEqualsExprNode",
  "GreaterExprNode", "LessExprNode", "LeftShiftExprNode", "RightShiftExprNode",
  "AddExprNode", "SubtractExprNode", "MultiplyExprNode", "DivideExprNode",
  "ModuloExprNode"}, <<"left", "right">>)
PrintedUnary == [
  RefExprNode   |-> <<"is_const", "is_move", "expr">>,
  DerefExprNode |-> <<"is_const", "expr">>,
  FieldAccessExprNode        |-> <<"object", "field">>,
  NumericFieldAccessExprNode |-> <<"object", "field">>,
  IndexingExprNode     |-> <<"object", "indices">>,
  IndexNode            |-> <<"name", "value">>,
  FunctionArgumentNode |-> <<"name", "expr">>,
  FunctionCallExprNode |-> <<"callee", "args">>,
  ScopeResolutionExprNode |-> <<"scope", "name">>,
  BlockStmtNode        |-> <<"stmts">>,
  ThrowStmtNode        |-> <<"expr">>]
    @@ Each({"AwaitExprNode", "NotExprNode", "BitwiseNotExprNode",
             "PositiveExprNode", "NegateExprNode", "EllipsisExprNode",
             "DollarSignExprNode"}, <<"expr">>)
    @@ Each({"AsExprNode", "IsExprNode"}, <<"expr", "type">>)
    @@ Each({"PreIncrementStmtNode", "PostIncrementStmtNode",
             "PreDecrementStmtNode", "PostDecrementStmtNode"}, <<"target">>)

\* The nodes that print nothing between their parentheses.
PrintedNothing == Each({"EmptyStmtNode", "UnderscorePatternNode",
  "OperatorIdentAddNode", "OperatorIdentSubNode", "OperatorIdentStarNode",
  "OperatorIdentDivNode", "OperatorIdentModNode", "OperatorIdentIncNode",
  "OperatorIdentDecNode", "OperatorIdentEqNode", "OperatorIdentNeqNode",
  "OperatorIdentGtNode", "OperatorIdentLtNode", "OperatorIdentGteNode",
  "OperatorIdentLteNode", "OperatorIdentNotNode", "OperatorIdentAndNode",
  "OperatorIdentOrNode", "OperatorIdentBitwiseNotNode",
  "OperatorIdentAmpersandNode", "OperatorIdentBitwiseOrNode",
  "OperatorIdentBitwiseXorNode", "OperatorIdentLeftShiftNode",
  "OperatorIdentRightShiftNode", "OperatorIdentAssignNode",
  "OperatorIdentAddAssignNode", "OperatorIdentSubAssignNode",
  "OperatorIdentMulAssignNode", "OperatorIdentDivAssignNode",
  "OperatorIdentModAssignNode", "OperatorIdentBitwiseAndAssignNode",
  "OperatorIdentBitwiseOrAssignNode", "OperatorIdentBitwiseXorAssignNode",
  "OperatorIdentLeftShiftAssignNode", "OperatorIdentRightShiftAssignNode",
  "OperatorIdentIxNode", "OperatorIdentFuncallNode", "OperatorIdentIxAssignNode",
  "ThisLiteralNode", "SuperLiteralNode", "ThisTypeNode", "CopyCtorNameNode",
  "MoveCtorNameNode"}, <<>>)

\* Operator names, assignments, statements and the parts of a function.
PrintedStatements == [
  OperatorIdentAsNode    |-> <<"type">>,
  OperatorIdentifierNode |-> <<"op">>,
  OperatorFunctionDeclNode |-> <<"operator_ident", "signature", "body">>,
  ForInStmtNode    |-> <<"introductory_decls", "pattern", "iterable", "body">>,
  WhileStmtNode    |-> <<"introductory_decls", "condition", "body">>,
  LabelStmtNode    |-> <<"label">>,
  GotoStmtNode     |-> <<"label">>,
  ContinueStmtNode |-> <<>>,
  ReturnStmtNode   |-> <<"expr">>,
  FunctionParameterNode |-> <<"variadic", "name", "type", "default_value">>,
  FunctionSignatureNode |-> <<"generic_parameter_list", "parameters",
    "implicit_parameter_list", "capture_list", "return_type">>,
  FunctionBodyNode |-> <<"expr", "stmts", "is_default", "is_deleted">>]
    @@ Each({"AssignmentStmtNode", "AddAssignStmtNode", "SubAssignStmtNode",
             "MulAssignStmtNode", "DivAssignStmtNode", "ModAssignStmtNode",
             "LeftShiftAssignStmtNode", "RightShiftAssignStmtNode",
             "BitwiseAndAssignStmtNode", "BitwiseOrAssignStmtNode",
             "BitwiseXorAssignStmtNode"}, <<"target", "expr">>)

\* Captures, functions, types and classes.
PrintedDecls == [
  ImplicitParameterListNode |-> <<"parameters">>,
  FunctionSignatureCaptureDesignatorListNode |-> <<"captures">>,
  FunctionSignatureCaptureDesignatorNode     |-> <<"kind", "var", "expr">>,
  FunctionDeclNode |-> <<"name", "signature", "body">>,
  FunctionExprNode |-> <<"signature", "body">>,
  LambdaExprNode   |-> <<"parameters", "body">>,
  TypeDeclNode     |-> <<"name", "generic_parameter_list", "type_expr">>,
  ClassFieldNode   |-> <<"name", "type", "initializer">>,
  BaseTypeListNode |-> <<"base_classes">>,
  ClassDeclNode    |-> <<"name", "generic_parameter_list", "base_class_list",
                         "header_decls", "implicit_parameter_list", "body">>,
  ConceptDeclNode  |-> <<"name", "generic_parameter_list", "base_concept_list",
                         "implicit_parameter_list", "body">>,
  ClassHeaderFieldDeclNode |-> <<"name", "type", "default_value">>,
  GenericParameterNode     |-> <<"is_const", "name", "constraint", "default_value">>]
    @@ Each({"ClassStaticDeclNode", "ClassConstDeclNode", "ClassCopyDeclNode",
             "ClassMoveDeclNode", "ClassHeaderConstDeclNode"}, <<"decl">>)
    @@ Each({"ClassHeaderDeclsNode", "ClassBodyNode"}, <<"decls">>)

\* From TypeConstraintNode to ImportItemWildcardNode.
PrintedMembers == [
  TypeConstraintNode  |-> <<"type", "constraint">>,
  GenericParameterListNode |-> <<"parameters", "additional_constraints">>,
  BooleanLiteralNode  |-> <<"value">>,
  VisibilityNode      |-> <<"visibility", "scope", "decl">>,
  ImplicitExprNode    |-> <<"name">>,
  DefaultLiteralNode  |-> <<>>,
  BuiltinTypeNode     |-> <<"kind">>,
  BitIntTypeNode      |-> <<"is_signed">>,
  ImportDeclNode      |-> <<"path", "items", "alias">>,
  ImportItemNode      |-> <<"name", "sub_items", "alias">>,
  ImportItemWildcardNode |-> <<>>]
    @@ Each({"ImplTypeExprNode", "AnyTypeExprNode"}, <<"type">>)
    @@ Each({"ConstTypeExprNode", "AsyncExprNode", "CopyExprNode",
             "MoveExprNode"}, <<"expr">>)
    @@ Each({"ClassConstructorNode", "ClassDestructorNode"},
            <<"name", "signature", "body">>)
    @@ Each({"ImplicitDeclNode", "OpenDeclNode", "OverrideDeclNode",
             "DefaultDeclNode"}, <<"decl">>)

\* From ModuleDeclNode to TypeFieldNode.
PrintedLast == [
  ModuleDeclNode  |-> <<"name", "decls", "submodules">>,
  UnionDeclNode   |-> <<"name", "generic_parameter_list", "body">>,
  EnumDeclNode    |-> <<"name", "repr_type", "base_type_list", "variants">>,
  EnumVariantNode |-> <<"name", "value">>,
  AnnotationNode  |-> <<"name", "args", "stmt">>,
  BreakStmtNode   |-> <<>>,
  TypeFieldNode   |-> <<>>]
    @@ Each({"AsyncDeclNode", "ExternDeclNode", "RecordDeclNode",
             "SealedDeclNode", "MutDeclNode", "InlineDeclNode",
             "AbstractDeclNode"}, <<"decl">>)
    @@ Each({"TypeOfExprNode", "QuestionMarkExprNode",
             "ExclamationMarkExprNode"}, <<"expr">>)

Printed == PrintedFirst @@ PrintedBranches @@ PrintedBinary @@ PrintedUnary
  @@ PrintedNothing @@ PrintedStatements @@ PrintedDecls @@ PrintedMembers
  @@ PrintedLast
==============================================================================
