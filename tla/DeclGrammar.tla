----------------------------- MODULE DeclGrammar -----------------------------
(***************************************************************************)
(* The methods of src/parser/data/parser.cpp that parse modules,           *)
(* declarations, classes and functions, in the order of the file: a record *)
(* of steps per method, a set of rows per switch that falls through to     *)
(* something else when no case matches.                                    *)
(***************************************************************************)
EXTENDS ParserCode

\* parse_module, and try_parse_top_level_decl with the throw of its callers.
ModuleRules == [
  module |-> Statements("end", "top_level_decl", "decls")
               \o MakeRoot("ModuleNode"),
  top_level_decl |-> Switch("top_level") \o Switch("decl") \o Fail]

TopLevelRows ==
  {Row({"local"}, "visibility_decl"),
   Row2({"public"}, {"import"}, "visibility_decl"),
   Row({"import"}, "import_decl"), Row({"extern"}, "extern_decl")}

\* Extern and import declarations.
ImportItems(field) ==
  Opt(OpenParen, Advance \o CommaList(")", Parse("import_item", field)))
ImportAlias ==
  Opt({"as"}, Advance \o Require(On(Identifiers)) \o Parse("identifier", "alias"))
ImportRules == [
  extern_decl |-> Prefixed("top_level_decl", "ExternDeclNode", "decl"),
  import_decl |-> Advance \o Require(On(Identifiers))
    \o Parse("scoped_name", "path") \o ImportItems("items") \o ImportAlias
    \o MakeImport("ImportDeclNode"),
  import_item |-> Opt({"..."}, Advance \o Make("ImportItemWildcardNode"))
    \o Name("name") \o ImportItems("sub_items") \o ImportAlias
    \o Make("ImportItemNode")]

\* try_parse_decl; expect_decl adds the throw.
DeclRows ==
  {Row({"module"}, "module_decl"), Row({"let"}, "let_decl"),
   Row({"const"}, "const_decl"), Row2({"fun"}, Identifiers, "function_decl"),
   Row({"class"}, "class_decl"), Row({"type"}, "type_decl"),
   Row({"operator"}, "operator_function_decl"),
   Row({";"}, "empty_statement"), Row({"concept"}, "concept_decl"),
   Row({"open"}, "open_decl"), Row({"async"}, "async_decl"),
   Row({"record"}, "record_decl"), Row({"abstract"}, "abstract_decl"),
   Row({"sealed"}, "sealed_decl"), Row({"union"}, "union_decl"),
   Row({"enum"}, "enum_decl"), Row({"inline"}, "inline_decl"),
   Row({"@"}, "annotated_decl")}
ExpectDecl == [decl |-> Switch("decl") \o Fail]

\* Modifiers, annotations and enumerations.
AnnotationName == Require(On({"_id"})) \o Parse("identifier", "name")
AnnotationArguments ==
  Opt({"_("}, Advance \o CommaList(")", Parse("call_argument", "args")))
Annotated(rule) == Advance \o AnnotationName \o AnnotationArguments
                     \o Parse(rule, "stmt") \o Make("AnnotationNode")
GenericParameters == Opt(OpenBracket \cup {"when"},
  Parse("generic_parameter_list", "generic_parameter_list"))
ImplicitParameters ==
  Opt({"with"}, Parse("implicit_parameter_list", "implicit_parameter_list"))
BaseTypes(field) == Opt({":"}, Parse("base_type_list", field))
ClassBody    == Opt({"{"}, Parse("class_body", "body"))
FunctionBody == Opt({"{", "="}, Parse("function_body", "body"))
TypeAfterColon(field) == Opt({":"}, Advance \o Parse("type_expr", field))
ExprAfterAssign(field) == Opt({"="}, Advance \o Parse("expr", field))
EnumRules == [
  abstract_decl  |-> Prefixed("decl", "AbstractDeclNode", "decl"),
  inline_decl    |-> Prefixed("decl", "InlineDeclNode", "decl"),
  sealed_decl    |-> Prefixed("decl", "SealedDeclNode", "decl"),
  annotated_decl |-> Annotated("decl"),
  enum_decl |-> Advance \o Name("name")
    \o Opt(OpenParen, Advance \o Parse("type_expr", "repr_type") \o Take({")"}))
    \o BaseTypes("base_type_list") \o Take({"{"})
    \o CommaList("}", Parse("enum_variant", "variants")) \o Make("EnumDeclNode"),
  enum_variant |-> Name("name") \o ExprAfterAssign("value")
    \o Make("EnumVariantNode")]

\* Records, unions and modules.  A module with a body collects the submodules
\* met inside it and is itself a submodule of the module around it.
ModuleDeclRules == [
  record_decl |-> Prefixed("decl", "RecordDeclNode", "decl"),
  union_decl  |-> Advance \o Parse("scoped_name", "name") \o GenericParameters
    \o ClassBody \o Make("UnionDeclNode"),
  async_decl  |-> Prefixed("decl", "AsyncDeclNode", "decl"),
  open_decl   |-> Prefixed("decl", "OpenDeclNode", "decl"),
  module_decl |-> Advance \o Name("name")
    \o If(On({"{"}), Advance \o OpenModule
                       \o Statements("}", "top_level_decl", "decls")
                       \o Take({"}"}) \o MakeModule("ModuleDeclNode"),
                     Make("ModuleDeclNode"))]

\* Operator functions, visibility, concepts and classes.
ClassRules == [
  operator_function_decl |-> Parse("operator_ident", "operator_ident")
    \o Parse("function_signature", "signature") \o FunctionBody
    \o Make("OperatorFunctionDeclNode"),
  visibility_decl |-> Advance
    \o Opt(OpenParen, Advance \o Require(On(Identifiers))
                        \o Parse("scoped_name", "scope") \o Take({")"}))
    \o Parse("top_level_decl", "decl") \o Make("VisibilityNode"),
  concept_decl |-> Advance \o Name("name") \o GenericParameters
    \o BaseTypes("base_concept_list") \o ImplicitParameters \o ClassBody
    \o Make("ConceptDeclNode"),
  class_decl |-> Advance \o Require(On(Identifiers))
    \o Parse("scoped_name", "name") \o GenericParameters
    \o Opt(OpenParen, Parse("class_header_decls", "header_decls"))
    \o BaseTypes("base_class_list") \o ImplicitParameters \o ClassBody
    \o Make("ClassDeclNode"),
  class_header_decls |-> Advance
    \o CommaList(")", Parse("class_header_decl", "decls"))
    \o Make("ClassHeaderDeclsNode")]

\* The class header, the class body and the list of base types; the last two
\* start their node at the last token consumed (peek(-1)).
ClassBodyRules == [
  class_header_decl |-> If(On({"const"}),
    Prefixed("class_header_decl", "ClassHeaderConstDeclNode", "decl"),
    OptName(Identifiers, ":", "name") \o Parse("type_expr", "type")
      \o ExprAfterAssign("default_value") \o Make("ClassHeaderFieldDeclNode")),
  class_body |-> Advance \o Statements("}", "class_body_decl", "decls")
    \o Take({"}"}) \o StartAtLast \o Make("ClassBodyNode"),
  base_type_list |-> Advance \o Name("base_classes")
    \o While(On({","}), Advance \o Parse("type_expr", "base_classes"))
    \o StartAtLast \o Make("BaseTypeListNode")]

\* parse_class_body_decl.
ClassBodyRows ==
  {Row({"static"}, "class_static_decl"), Row({"const"}, "class_const_decl"),
   Row({"copy"}, "class_copy_decl"), Row({"move"}, "class_move_decl"),
   Row2(Identifiers, OpenParen \cup OpenBracket, "constructor_decl"),
   Row({"public", "private", "protected", "local"}, "class_visibility_decl"),
   Row({"implicit"}, "class_implicit_decl"),
   Row({"default"}, "class_default_decl"), Row({"open"}, "class_open_decl"),
   Row({"override"}, "class_override_decl"), Row({"~"}, "destructor_decl"),
   Row({"@"}, "class_annotated_decl"), Row({"mut"}, "class_mut_decl")}
ClassBodyDecl == [class_body_decl |-> Switch("class_body")
  \o Opt(Identifiers, Goto("class_field")) \o Switch("decl") \o Fail]

\* Members: a modifier is followed by another member; the node of a destructor
\* starts at its name, behind the ~.
Member(type) == Prefixed("class_body_decl", type, "decl")
SignatureAndBody(type) == Name("name")
  \o Parse("function_signature", "signature") \o FunctionBody \o Make(type)
MemberRules == [
  class_mut_decl       |-> Member("MutDeclNode"),
  class_annotated_decl |-> Annotated("class_body_decl"),
  destructor_decl      |-> Advance \o StartHere
                             \o SignatureAndBody("ClassDestructorNode"),
  class_open_decl      |-> Member("OpenDeclNode"),
  class_override_decl  |-> Member("OverrideDeclNode"),
  class_default_decl   |-> Member("DefaultDeclNode"),
  class_implicit_decl  |-> Member("ImplicitDeclNode"),
  class_visibility_decl |-> Member("VisibilityNode"),
  constructor_decl     |-> SignatureAndBody("ClassConstructorNode"),
  class_static_decl    |-> Member("ClassStaticDeclNode"),
  class_const_decl     |-> Member("ClassConstDeclNode"),
  class_copy_decl      |-> Member("ClassCopyDeclNode"),
  class_move_decl      |-> Member("ClassMoveDeclNode"),
  class_field |-> Name("name") \o TypeAfterColon("type")
    \o ExprAfterAssign("initializer") \o Make("ClassFieldNode")]

\* Generic parameters and type constraints.
GenericRules == [
  generic_parameter_list |->
    Opt(OpenBracket,
        Advance \o CommaList("]", Parse("generic_parameter", "parameters")))
    \o Opt({"when"}, Advance \o Take(OpenParen)
        \o CommaList(")", Parse("type_constraint", "additional_constraints")))
    \o Make("GenericParameterListNode"),
  generic_parameter |-> Opt({"const"}, Advance) \o Name("name")
    \o TypeAfterColon("constraint") \o ExprAfterAssign("default_value")
    \o Make("GenericParameterNode"),
  type_constraint |-> Parse("type_expr", "type") \o TypeAfterColon("constraint")
    \o Make("TypeConstraintNode")]

\* Type declarations.
TypeDeclRules == [type_decl |-> Advance \o Require(On(Identifiers))
  \o Parse("scoped_name", "name") \o GenericParameters
  \o Opt({"="}, Advance \o Parse("type_expr", "type_expr"))
  \o Make("TypeDeclNode")]

\* Functions: name, signature, body.
FunctionRules == [
  function_decl |-> Advance \o Require(On(Identifiers))
    \o Parse("scoped_name", "name") \o Parse("function_signature", "signature")
    \o FunctionBody \o Make("FunctionDeclNode"),
  function_body |->
    If(On({"="}), Advance \o If(On({"default", "delete"}), Advance,
                                Parse("expr", "expr")),
       Advance \o Statements("}", "statement", "stmts") \o Advance)
    \o Make("FunctionBodyNode"),
  function_signature |-> GenericParameters
    \o Take(OpenParen) \o CommaList(")", Parse("function_parameter", "parameters"))
    \o ImplicitParameters
    \o Opt(OpenBracket, Parse("capture_list", "capture_list"))
    \o Opt({"->"}, Advance \o Parse("type_expr", "return_type"))
    \o Make("FunctionSignatureNode"),
  function_parameter |-> Opt({"..."}, Advance) \o Parse("expr", "name")
    \o TypeAfterColon("type") \o ExprAfterAssign("default_value")
    \o Make("FunctionParameterNode"),
  implicit_parameter_list |-> Advance \o Take(OpenParen)
    \o CommaList(")", Parse("function_parameter", "parameters"))
    \o Make("ImplicitParameterListNode")]

\* Captures: a kind without a variable captures everything and must be alone.
CaptureRules == [
  capture_list |-> Advance \o CommaList("]", Parse("capture", "captures"))
    \o Require(UniversalAlone)
    \o Make("FunctionSignatureCaptureDesignatorListNode"),
  capture |->
    If(On({"copy", "move", "&"}),
       If(On({"&"}), Advance \o Opt({"move", "const"}, Advance), Advance)
         \o Opt(Identifiers,
                Parse("identifier", "var") \o Require(Off({"="}))),
       Require(On(Identifiers)) \o Parse("identifier", "var") \o Take({"="})
         \o Parse("expr", "expr"))
    \o Make("FunctionSignatureCaptureDesignatorNode")]
=============================================================================
