----------------------------- MODULE NodeStructs -----------------------------
(***************************************************************************)
(* The node types of src/parser/data/node_type_list.hpp: for each the      *)
(* fields of its struct in the order they are declared.  A NodeId is one   *)
(* child, an Option<NodeId> at most one, a List<NodeId> or an Option of    *)
(* one any number; anything else is a value, which may be missing when it  *)
(* is an Option.                                                           *)
(***************************************************************************)
EXTENDS Sequences, TLC

One(name)   == [name |-> name, holds |-> "one"]
Maybe(name) == [name |-> name, holds |-> "maybe"]
Many(name)  == [name |-> name, holds |-> "many"]
Value(name) == [name |-> name, holds |-> "value"]

\* All `types' have these fields.
Struct(types, fields) == [t \in types |-> fields]
SignatureThenBody == <<One("signature"), Maybe("body")>>
Generics == Maybe("generic_parameter_list")
IfFields(else) ==
  <<Many("introductory_decls"), One("condition"), One("then_branch"), else>>

LiteralStructs == [
  ModuleNode     |-> <<Many("decls"), Many("imports"), Many("submodules")>>,
  EmptyStmtNode  |-> <<>>,
  IdentifierNode |-> <<Value("name")>>,
  StringLiteralNode |-> <<Value("contents")>>,
  CharLiteralNode   |-> <<Value("code_point")>>,
  NumberLiteralNode |-> <<Value("value")>>]
    @@ Struct({"OperatorIdentAddNode", "OperatorIdentSubNode",
  "OperatorIdentStarNode", "OperatorIdentDivNode", "OperatorIdentModNode",
  "OperatorIdentIncNode", "OperatorIdentDecNode", "OperatorIdentEqNode",
  "OperatorIdentNeqNode", "OperatorIdentGtNode", "OperatorIdentLtNode",
  "OperatorIdentGteNode", "OperatorIdentLteNode", "OperatorIdentNotNode",
  "OperatorIdentAndNode", "OperatorIdentOrNode", "OperatorIdentBitwiseNotNode",
  "OperatorIdentAmpersandNode", "OperatorIdentBitwiseOrNode",
  "OperatorIdentBitwiseXorNode", "OperatorIdentLeftShiftNode",
  "OperatorIdentRightShiftNode", "OperatorIdentAssignNode",
  "OperatorIdentAddAssignNode", "OperatorIdentSubAssignNode",
  "OperatorIdentMulAssignNode", "OperatorIdentDivAssignNode",
  "OperatorIdentModAssignNode", "OperatorIdentBitwiseAndAssignNode",
  "OperatorIdentBitwiseOrAssignNode", "OperatorIdentBitwiseXorAssignNode",
  "OperatorIdentLeftShiftAssignNode", "OperatorIdentRightShiftAssignNode",
  "OperatorIdentIxNode", "OperatorIdentFuncallNode",
  "OperatorIdentIxAssignNode"}, <<>>)

PatternStructs == [
  OperatorIdentAsNode      |-> <<One("type")>>,
  OperatorIdentifierNode   |-> <<One("op")>>,
  OperatorFunctionDeclNode |-> <<One("operator_ident")>> \o SignatureThenBody,
  UnderscorePatternNode    |-> <<>>,
  IdentifierPatternNode    |-> <<One("identifier"), Maybe("type_annotation")>>,
  StructFieldPatternNode   |-> <<Maybe("pattern"), One("field")>>,
  InitializerNode          |-> <<One("pattern"), Maybe("expr")>>,
  ParenthesizedExprNode    |-> <<Many("exprs")>>,
  ArrayExprNode |-> <<Maybe("size"), Value("infer_size"), Value("is_const"),
                      One("type_expr"), Many("elements")>>,
  BlockExprNode    |-> <<Many("stmts")>>,
  KeyValueEntryNode |-> <<One("key"), One("value")>>,
  ExprStmtNode     |-> <<One("expr")>>]
    @@ Struct({"ArrayPatternNode", "TuplePatternNode", "StructPatternNode"},
              <<Many("elements")>>)
    @@ Struct({"LetDeclNode", "ConstDeclNode"}, <<Many("inits")>>)
    @@ Struct({"PreIncrementStmtNode", "PostIncrementStmtNode",
               "PreDecrementStmtNode", "PostDecrementStmtNode"}, <<One("target")>>)
    @@ Struct({"WithExprNode", "WithStmtNode"}, <<Many("args"), One("body")>>)

BranchStructs == [
  IfStmtNode      |-> IfFields(Maybe("else_branch")),
  IfExprNode      |-> IfFields(One("else_branch")),
  CatchClauseNode |-> <<One("exc_type"), Maybe("var"), One("body")>>,
  WhenClauseItemNode |-> <<Value("is"), One("expr")>>,
  WhenClauseNode  |-> <<Many("items"), One("body")>>,
  WhenExprNode    |-> <<Many("introductory_decls"), One("expr"), Many("clauses"),
                        Maybe("else_expr")>>,
  WhenStmtNode    |-> <<Many("introductory_decls"), One("expr"), Many("clauses"),
                        Maybe("else_stmt")>>]
    @@ Struct({"AssignmentStmtNode", "AddAssignStmtNode", "SubAssignStmtNode",
               "MulAssignStmtNode", "DivAssignStmtNode", "ModAssignStmtNode",
               "LeftShiftAssignStmtNode", "RightShiftAssignStmtNode",
               "BitwiseAndAssignStmtNode", "BitwiseOrAssignStmtNode",
               "BitwiseXorAssignStmtNode"}, <<One("target"), One("expr")>>)
    @@ Struct({"AnonymousStructLiteralNode", "AnonymousStructTypeNode"},
              <<Many("entries")>>)
    @@ Struct({"TryExprNode", "TryStmtNode"},
              <<One("try_block"), Many("catch_clauses"), Maybe("else_branch")>>)

BinaryStructs == Struct({"OrExprNode", "AndExprNode", "BitwiseOrExprNode",
  "BitwiseAndExprNode", "BitwiseXorExprNode", "EqualsExprNode",
  "NotEqualsExprNode", "GreaterEqualsExprNode", "LessEqualsExprNode",
  "GreaterExprNode", "LessExprNode", "LeftShiftExprNode", "RightShiftExprNode",
  "AddExprNode", "SubtractExprNode", "MultiplyExprNode", "DivideExprNode",
  "ModuloExprNode"}, <<One("left"), One("right")>>)

UnaryStructs == [
  RefExprNode |-> <<Value("is_const"), Value("is_move"), One("expr")>>,
  DerefExprNode |-> <<Value("is_const"), One("expr")>>,
  FieldAccessExprNode |-> <<One("object"), One("field")>>,
  NumericFieldAccessExprNode |-> <<One("object"), Value("field")>>,
  IndexingExprNode     |-> <<One("object"), Many("indices")>>,
  IndexNode            |-> <<Maybe("name"), One("value")>>,
  FunctionArgumentNode |-> <<Maybe("name"), One("expr")>>,
  FunctionCallExprNode |-> <<One("callee"), Many("args")>>,
  ScopeResolutionExprNode |-> <<One("scope"), One("name")>>,
  BlockStmtNode        |-> <<Many("stmts")>>,
  ThrowStmtNode        |-> <<Maybe("expr")>>]
    @@ Struct({"AwaitExprNode", "NotExprNode", "BitwiseNotExprNode",
               "PositiveExprNode", "NegateExprNode", "EllipsisExprNode",
               "DollarSignExprNode"}, <<One("expr")>>)
    @@ Struct({"AsExprNode", "IsExprNode"}, <<One("expr"), One("type")>>)

StatementStructs == [
  ForInStmtNode |-> <<Many("introductory_decls"), One("pattern"),
                      One("iterable"), One("body")>>,
  WhileStmtNode |-> <<Many("introductory_decls"), One("condition"), One("body")>>,
  ContinueStmtNode |-> <<>>,
  LabelStmtNode    |-> <<One("label")>>,
  GotoStmtNode     |-> <<One("label")>>,
  ReturnStmtNode   |-> <<Maybe("expr")>>,
  FunctionParameterNode |-> <<Value("variadic"), One("name"), Maybe("type"),
                              Maybe("default_value")>>,
  ImplicitParameterListNode |-> <<Many("parameters")>>,
  FunctionSignatureCaptureDesignatorNode |->
    <<Value("kind"), Maybe("var"), Maybe("expr")>>,
  FunctionSignatureCaptureDesignatorListNode |-> <<Many("captures")>>,
  FunctionSignatureNode |-> <<Generics, Many("parameters"),
    Maybe("implicit_parameter_list"), Maybe("capture_list"),
    Maybe("return_type")>>,
  FunctionBodyNode |-> <<Maybe("expr"), Many("stmts"), Value("is_default"),
                         Value("is_deleted")>>,
  FunctionDeclNode |-> <<One("name")>> \o SignatureThenBody,
  FunctionExprNode |-> SignatureThenBody,
  LambdaExprNode   |-> <<Many("parameters"), One("body")>>,
  TypeDeclNode     |-> <<One("name"), Generics, Maybe("type_expr")>>]

ClassStructs == [
  ClassFieldNode   |-> <<One("name"), Maybe("type"), Maybe("initializer")>>,
  BaseTypeListNode |-> <<Many("base_classes")>>,
  ClassDeclNode    |-> <<One("name"), Generics, Maybe("base_class_list"),
    Maybe("header_decls"), Maybe("implicit_parameter_list"), Maybe("body")>>,
  ClassHeaderDeclsNode |-> <<Many("decls")>>,
  ClassBodyNode        |-> <<Many("decls")>>,
  ClassHeaderFieldDeclNode |-> <<Maybe("name"), One("type"), Maybe("default_value")>>,
  ConceptDeclNode  |-> <<One("name"), Generics, Maybe("base_concept_list"),
    Maybe("implicit_parameter_list"), Maybe("body")>>,
  GenericParameterNode |-> <<Value("is_const"), One("name"), Maybe("constraint"),
                             Maybe("default_value")>>,
  TypeConstraintNode   |-> <<One("type"), Maybe("constraint")>>,
  GenericParameterListNode |->
    <<Many("parameters"), Many("additional_constraints")>>,
  BooleanLiteralNode   |-> <<Value("value")>>,
  VisibilityNode |-> <<Value("visibility"), Maybe("scope"), One("decl")>>]
    @@ Struct({"ClassStaticDeclNode", "ClassConstDeclNode", "ClassCopyDeclNode",
               "ClassMoveDeclNode", "ClassHeaderConstDeclNode"}, <<One("decl")>>)
    @@ Struct({"ClassConstructorNode", "ClassDestructorNode"},
              <<One("name")>> \o SignatureThenBody)
    @@ Struct({"ThisLiteralNode", "SuperLiteralNode", "ThisTypeNode",
               "CopyCtorNameNode", "MoveCtorNameNode"}, <<>>)

DeclStructs == [
  ImplicitExprNode |-> <<One("name")>>,
  BuiltinTypeNode  |-> <<Value("kind")>>,
  BitIntTypeNode   |-> <<Value("is_signed")>>,
  ImportDeclNode   |-> <<One("path"), Many("items"), Maybe("alias")>>,
  ImportItemNode   |-> <<One("name"), Many("sub_items"), Maybe("alias")>>,
  ModuleDeclNode   |-> <<One("name"), Many("decls"), Many("submodules")>>,
  UnionDeclNode    |-> <<One("name"), Generics, Maybe("body")>>,
  EnumDeclNode     |-> <<One("name"), Maybe("repr_type"), Maybe("base_type_list"),
                         Many("variants")>>,
  EnumVariantNode  |-> <<One("name"), Maybe("value")>>,
  AnnotationNode   |-> <<One("name"), Many("args"), One("stmt")>>]
    @@ Struct({"ImplicitDeclNode", "OpenDeclNode", "OverrideDeclNode",
               "DefaultDeclNode", "AsyncDeclNode", "ExternDeclNode",
               "RecordDeclNode", "SealedDeclNode", "MutDeclNode",
               "InlineDeclNode", "AbstractDeclNode"}, <<One("decl")>>)
    @@ Struct({"CopyExprNode", "MoveExprNode", "ConstTypeExprNode",
               "AsyncExprNode", "TypeOfExprNode", "QuestionMarkExprNode",
               "ExclamationMarkExprNode"}, <<One("expr")>>)
    @@ Struct({"ImplTypeExprNode", "AnyTypeExprNode"}, <<One("type")>>)
    @@ Struct({"DefaultLiteralNode", "ImportItemWildcardNode", "BreakStmtNode",
               "TypeFieldNode"}, <<>>)

\* All node types.
NodeStructs == LiteralStructs @@ PatternStructs @@ BranchStructs @@ BinaryStructs
  @@ UnaryStructs @@ StatementStructs @@ ClassStructs @@ DeclStructs
===============================================================================
