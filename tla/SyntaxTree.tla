------------------------------ MODULE SyntaxTree ------------------------------
(***************************************************************************)
(* What the syntax tree that Parser.tla builds and the text that           *)
(* NodeFormatter.tla prints of it have to be.                              *)
(***************************************************************************)
EXTENDS NodeFormatter, FiniteSetsExt

NodeIds == DOMAIN nodes
Parsed == outcome = "done"
HasParent(id) == \E i \in NodeIds : id \in KidIds(nodes[i].kids)
\* The tokens of one node are among those of the other.
Inside(id, other) == /\ nodes[other].start <= nodes[id].start
                     /\ nodes[id].end <= nodes[other].end
-----------------------------------------------------------------------------
\* The node that a field is named for.
KindOf ==
  [signature |-> {"FunctionSignatureNode"},
   operator_ident |-> {"OperatorIdentifierNode"},
   generic_parameter_list  |-> {"GenericParameterListNode"},
   implicit_parameter_list |-> {"ImplicitParameterListNode"},
   base_class_list   |-> {"BaseTypeListNode"},
   base_concept_list |-> {"BaseTypeListNode"},
   base_type_list    |-> {"BaseTypeListNode"},
   header_decls  |-> {"ClassHeaderDeclsNode"},
   capture_list  |-> {"FunctionSignatureCaptureDesignatorListNode"},
   captures      |-> {"FunctionSignatureCaptureDesignatorNode"},
   additional_constraints |-> {"TypeConstraintNode"},
   inits         |-> {"InitializerNode"},
   variants      |-> {"EnumVariantNode"},
   entries       |-> {"KeyValueEntryNode"},
   catch_clauses |-> {"CatchClauseNode"},
   clauses       |-> {"WhenClauseNode"},
   items |-> {"WhenClauseItemNode", "ImportItemNode", "ImportItemWildcardNode"},
   sub_items     |-> {"ImportItemNode", "ImportItemWildcardNode"},
   indices       |-> {"IndexNode"},
   args          |-> {"FunctionArgumentNode"}]

\* Every node is a value of its struct: a NodeId field is set once, an Option at
\* most once, nothing is put into a field the struct does not have, and a field
\* named for a kind of node holds that kind.  (All children are plain NodeIds: the
\* compiler cannot tell one field from another, or a node from a node.)
Held(node, name) == {i \in DOMAIN node.kids : node.kids[i].field = name}
WellFormed(node) ==
  LET struct == Range(NodeStructs[node.type]) IN
  /\ \A kid \in Range(node.kids) :
       /\ \E field \in struct : field.name = kid.field /\ field.holds # "value"
       /\ kid.field \in DOMAIN KindOf =>
            nodes[kid.id].type \in KindOf[kid.field]
  /\ \A field \in struct :
       /\ field.holds = "one"   => Cardinality(Held(node, field.name)) = 1
       /\ field.holds = "maybe" => Cardinality(Held(node, field.name)) <= 1
WellFormedNodes == \A id \in NodeIds : WellFormed(nodes[id])

\* How strongly the binary operators bind.
Strength == [type \in {"OrExprNode"} |-> 1] @@ [type \in {"AndExprNode"} |-> 2]
  @@ [type \in {"BitwiseOrExprNode"} |-> 3] @@ [type \in {"BitwiseXorExprNode"} |-> 4]
  @@ [type \in {"BitwiseAndExprNode"} |-> 5]
  @@ [type \in {"EqualsExprNode", "NotEqualsExprNode"} |-> 6]
  @@ [type \in {"GreaterExprNode", "LessExprNode", "GreaterEqualsExprNode",
                "LessEqualsExprNode"} |-> 7]
  @@ [type \in {"LeftShiftExprNode", "RightShiftExprNode"} |-> 8]
  @@ [type \in {"AddExprNode", "SubtractExprNode"} |-> 9]
  @@ [type \in {"MultiplyExprNode", "DivideExprNode", "ModuloExprNode"} |-> 10]
  @@ [type \in {"AsExprNode", "IsExprNode"} |-> 11]
\* Parentheses may end with a comma.
OpenParentheses  == {"(", "_("}
CloseParentheses == {")", ","}
InParentheses(id) == /\ TokenType(nodes[id].start - 1) \in OpenParentheses
                     /\ TokenType(nodes[id].end) \in CloseParentheses

\* Operators bind as strongly as they should and to the left: an operand that is not
\* in parentheses has no weaker operator than the node it belongs to, and a right
\* operand a stronger one.
OperatorsBind == \A id \in NodeIds : nodes[id].type \in DOMAIN Strength =>
  \A kid \in Range(nodes[id].kids) :
    nodes[kid.id].type \in DOMAIN Strength /\ ~InParentheses(kid.id) =>
      IF kid.field = "right"
      THEN Strength[nodes[kid.id].type] > Strength[nodes[id].type]
      ELSE Strength[nodes[kid.id].type] >= Strength[nodes[id].type]

\* The modules that took lists, and for a node the module it is in: the first one
\* finished around it.
Listed == {lists[i].module : i \in DOMAIN lists}
Home(id) == Min({m \in Listed : m > id /\ Inside(id, m)})

\* A module with a body lists the modules with a body that are in it and in no
\* module in between, in their order, and the file lists all imports.
ModulesListed == Parsed =>
  /\ \A i \in DOMAIN lists :
       lists[i].submodules = SetToSortSeq({id \in Listed : id # Len(nodes)
                                 /\ Home(id) = lists[i].module}, LAMBDA a, b : a < b)
  /\ Last(lists).module = Len(nodes)
  /\ Last(lists).imports =
       SetToSortSeq({id \in NodeIds : nodes[id].type = "ImportDeclNode"},
                    LAMBDA a, b : a < b)

StatementLists == {"decls", "stmts", "introductory_decls", "clauses"}
MayTouch == {"ClassHeaderDeclsNode"}
\* The children i and j are neighbours in a list of statements.
Neighbours(kids, i, j) ==
  /\ i < j /\ kids[i].field = kids[j].field /\ kids[i].field \in StatementLists
  /\ \A k \in (i + 1)..(j - 1) : kids[k].field # kids[i].field
StartApart(id, other) ==
  \/ "EmptyStmtNode" \in {nodes[id].type, nodes[other].type}
  \/ Line(nodes[id].start) # Line(nodes[other].start)

\* Of two statements, declarations or clauses in a row one is empty, or they start on
\* different lines, wherever the tree has a list of them.
StatementsApart == \A id \in NodeIds : nodes[id].type \notin MayTouch =>
  \A i, j \in DOMAIN nodes[id].kids : Neighbours(nodes[id].kids, i, j) =>
    StartApart(nodes[id].kids[i].id, nodes[id].kids[j].id)

\* Every node made for a file that is accepted is in its tree, but for one: the else
\* branch of a `when' behind which there is another one.
BehindElse(token) == \E arrow \in 1..(token - 1) :
  /\ TokenType(arrow - 1) = "else" /\ TokenType(arrow) = "=>"
  /\ \A between \in (arrow + 1)..(token - 1) : TokenType(between) \in OpenParentheses
IsElseBranch(id) == BehindElse(nodes[id].start)
OnlyElseIsLost == Parsed => \A id \in 1..(Len(nodes) - 1) :
  \/ HasParent(id)
  \/ /\ IsElseBranch(id)
     /\ \E when \in NodeIds : \E i \in Held(nodes[when], "else_expr") :
          Inside(id, when) /\ nodes[id].end < nodes[nodes[when].kids[i].id].start

\* What was written is in the tree, once: every name and literal of the file has one
\* node of its kind that starts at it, and there are no others of that kind.
LeafOf(type) ==
  CASE type \in {"id", "_id"}    -> {"IdentifierNode"}
    [] type = "string"           -> {"StringLiteralNode"}
    [] type = "char literal"     -> {"CharLiteralNode"}
    [] type \in {"number", ".0"} -> {"NumberLiteralNode"}
    [] OTHER -> {}
LeafType(token) == LeafOf(TokenType(token))
Leaves == {"IdentifierNode", "StringLiteralNode", "CharLiteralNode",
           "NumberLiteralNode"}
NothingSkipped == Parsed =>
  /\ \A token \in 0..(Len(tokens) - 1) :
       LeafType(token) # {} /\ TokenType(token) # ".0" =>
         Cardinality({id \in NodeIds : nodes[id].start = token
                                       /\ nodes[id].type \in LeafType(token)}) = 1
  /\ \A id \in NodeIds : nodes[id].type \in Leaves =>
       nodes[id].type \in LeafType(nodes[id].start)
-----------------------------------------------------------------------------
(* The printed text, defined by the tree *)

\* Lines moved to the right, with something in front of the first or behind the last.
Shift(text) == [i \in DOMAIN text |-> [text[i] EXCEPT !.indent = @ + 2]]
Prefix(word, text) == [text EXCEPT ![1].words = <<word>> \o @]
Line0(word) == <<[indent |-> 0, words |-> <<word>>]>>
\* Blocks one below the other, a comma behind all but the last.
Rows(blocks) == FlattenSeq([i \in DOMAIN blocks |->
  IF i = Len(blocks) THEN blocks[i] ELSE Write(blocks[i], ",")])
\* Blocks between brackets.
Bracket(open, blocks, close) ==
  IF blocks = <<>> THEN <<[indent |-> 0, words |-> <<open, close>>]>>
  ELSE Line0(open) \o Shift(Rows(blocks)) \o Line0(close)

\* The text of every node: its fields in the order of its struct, a value or one
\* node on the line of the field, a list in brackets, what is missing left out.
PrettyText ==
  LET text[id \in NodeIds] ==
        LET struct == NodeStructs[nodes[id].type]
            Block(name) ==
              LET held == FieldNodes(id, name) IN
              IF IsValue(id, name)
              THEN IF ValueShown(id, name) THEN <<Line0(Label(name))>> ELSE <<>>
              ELSE IF held = <<>> THEN <<>>
              ELSE IF IsList(id, name)
              THEN <<Bracket(Label(name) \o "[",
                             [i \in DOMAIN held |-> text[held[i]]], "]")>>
              ELSE <<Prefix(Label(name), text[held[1]])>>
        IN IF nodes[id].type = "NumberLiteralNode"
           THEN <<[indent |-> 0,
                   words |-> <<nodes[id].type \o "(", Label("value"), ")">>]>>
           ELSE Bracket(nodes[id].type \o "(",
                        FlattenSeq([i \in DOMAIN struct |-> Block(struct[i].name)]),
                        ")")
  IN text[Len(nodes)]

\* When the formatter is through, the text is the tree laid out: every field of every
\* struct in its order, two more blanks per bracket, commas between and not behind.
PrintedInFull == out # <<>> /\ printing = <<>> => out = PrettyText

\* Every run comes to an end: the file is refused, or parsed and printed.
RunEnds == <>( \/ outcome \notin {"running", "done"}
               \/ Parsed /\ out # <<>> /\ printing = <<>> )
==============================================================================
