---------------------------- MODULE NodeFormatter ----------------------------
(***************************************************************************)
(* NodeFormatter of src/parser/data/node_formatter.cpp, run on the result  *)
(* of the parser as run_parser_test_case() of                              *)
(* src/testing/logic/compiler_test_cases.cpp runs it.  `out' is the text   *)
(* written so far: its lines, each with the blanks in front of it and the  *)
(* pieces of text appended to it.  `printing' holds the calls of           *)
(* format_node and of print_node_field (of a list) in progress.            *)
(***************************************************************************)
EXTENDS Parser, NodeStructs, PrintedFields

VARIABLES
    out,            \* the text
    fields_printed, \* m_fields_printed
    indent,         \* m_current_indent
    printing        \* the calls in progress, the innermost last

formatter_vars == <<out, fields_printed, indent, printing>>
all_vars == <<vars, formatter_vars>>
-----------------------------------------------------------------------------
(* What a node holds *)

\* A field of the struct.
FieldOf(type, name) == CHOOSE field \in Range(NodeStructs[type]) : field.name = name
IsValue(id, name) == FieldOf(nodes[id].type, name).holds = "value"
IsList(id, name)  == FieldOf(nodes[id].type, name).holds = "many"

\* The nodes in a field; the imports and submodules of a module are kept apart.
TakenLists(id) == {i \in DOMAIN lists : lists[i].module = id}
FieldNodes(id, name) ==
    IF name \in {"imports", "submodules"}
    THEN FlattenSeq([i \in 1..Len(lists) |->
                       IF i \in TakenLists(id) THEN lists[i][name] ELSE <<>>])
    ELSE FlattenSeq([i \in 1..Len(nodes[id].kids) |->
                       IF nodes[id].kids[i].field = name THEN <<nodes[id].kids[i].id>>
                                                         ELSE <<>>])

\* The values that are not always printed: two flags of an array when they are
\* set, the kind of a capture when it has one.  They are what the tokens say.
TokenType(token) == tokens[token + 1].type
ValueShown(id, name) ==
    LET node == nodes[id] IN
    CASE name = "infer_size" -> TokenType(node.start + 1) = "..."
      [] name = "is_const" /\ node.type = "ArrayExprNode" ->
           TokenType(nodes[FieldNodes(id, "type_expr")[1]].start - 1) = "const"
      [] name = "kind" /\ node.type = "FunctionSignatureCaptureDesignatorNode" ->
           TokenType(node.start) \in {"copy", "move", "&"}
      [] OTHER -> TRUE
\* A literal prints its contents as `lit'; a number does so behind the parenthesis.
Label(name) == IF name \in {"contents", "code_point"} THEN "lit=" ELSE name \o "="
OnLineOfNode(id, name) == nodes[id].type = "NumberLiteralNode" /\ name = "value"
-----------------------------------------------------------------------------
(* Writing *)

Write(lines, text) == [lines EXCEPT ![Len(lines)].words = Append(@, text)]
\* open_line: a comma unless this is the first line behind the bracket.
OpenLine(lines, comma, blanks) ==
    Append(IF comma THEN Write(lines, ",") ELSE lines,
           [indent |-> blanks, words |-> <<>>])
Opened == OpenLine(out, fields_printed > 0, indent)

Printer == printing[Len(printing)]
NoNames == <<>>
NoIds   == <<>>
\* The beginning of format_node, called by a call that goes on as `rest' and has
\* opened `lines' lines since its bracket.
FormatNode(id, text, rest, opened) ==
    /\ out' = Write(text, nodes[id].type \o "(")
    /\ printing' = rest \o
         <<[list |-> FALSE, node |-> id, names |-> Printed[nodes[id].type],
            ids |-> NoIds, saved |-> opened]>>
    /\ fields_printed' = 0
    /\ indent' = indent + 2

\* The innermost call is that of a node (or of a list) and has work left.
InNode == printing # <<>> /\ ~Printer.list /\ Printer.names # <<>>
InList == printing # <<>> /\ Printer.list /\ Printer.ids # <<>>
FieldName == Head(Printer.names)
NextField == [printing EXCEPT ![Len(printing)].names = Tail(@)]
NextItem  == [printing EXCEPT ![Len(printing)].ids = Tail(@)]
-----------------------------------------------------------------------------
FormatterInit == /\ out = <<>> /\ fields_printed = 0 /\ indent = 0
                 /\ printing = <<>>

\* format_node(out, root node id), the id parse() returned.
StartPrinting ==
    /\ outcome = "done" /\ out = <<>>
    /\ FormatNode(Len(nodes), <<[indent |-> 0, words |-> <<>>]>>, <<>>, 0)

\* print_text_field, print_boolean_field and their like.
PrintValue ==
    /\ InNode /\ IsValue(Printer.node, FieldName)
    /\ \/ /\ ValueShown(Printer.node, FieldName)
          /\ ~OnLineOfNode(Printer.node, FieldName)
          /\ out' = Write(Opened, Label(FieldName))
          /\ fields_printed' = fields_printed + 1
       \/ /\ OnLineOfNode(Printer.node, FieldName)
          /\ out' = Write(out, Label(FieldName))
          /\ UNCHANGED fields_printed
       \/ /\ ~ValueShown(Printer.node, FieldName)
          /\ UNCHANGED <<out, fields_printed>>
    /\ printing' = NextField
    /\ UNCHANGED indent

\* print_node_field of a NodeId or Option<NodeId>.
PrintChild ==
    /\ InNode /\ ~IsValue(Printer.node, FieldName)
    /\ ~IsList(Printer.node, FieldName)
    /\ LET held == FieldNodes(Printer.node, FieldName)
       IN \/ /\ held = <<>>
             /\ printing' = NextField
             /\ UNCHANGED <<out, fields_printed, indent>>
          \/ /\ held # <<>>
             /\ FormatNode(held[1], Write(Opened, Label(FieldName)), NextField,
                           fields_printed + 1)

\* print_node_field of a list, up to its loop.
OpenList ==
    /\ InNode /\ ~IsValue(Printer.node, FieldName)
    /\ IsList(Printer.node, FieldName)
    /\ LET held == FieldNodes(Printer.node, FieldName)
       IN \/ /\ held = <<>>
             /\ printing' = NextField
             /\ UNCHANGED <<out, fields_printed, indent>>
          \/ /\ held # <<>>
             /\ out' = Write(Opened, Label(FieldName) \o "[")
             /\ printing' = Append(NextField,
                  [list |-> TRUE, node |-> Printer.node, names |-> NoNames,
                   ids |-> held, saved |-> fields_printed + 1])
             /\ fields_printed' = 0
             /\ indent' = indent + 2

\* The body of the loop.
PrintItem ==
    /\ InList
    /\ FormatNode(Head(Printer.ids), Opened, NextItem, fields_printed + 1)

\* Bug: the count of the call around is not restored.
CloseForgets ==
    /\ printing # <<>> /\ ~InNode /\ ~InList
    /\ LET bracket == IF Printer.list THEN "]" ELSE ")"
       IN out' = Write(IF fields_printed > 0
                       THEN OpenLine(out, FALSE, indent - 2) ELSE out, bracket)
    /\ indent' = indent - 2
    /\ printing' = Front(printing)
    /\ UNCHANGED fields_printed
\* The end of format_node and of print_node_field of a list.
Close ==
    /\ printing # <<>> /\ ~InNode /\ ~InList
    /\ LET bracket == IF Printer.list THEN "]" ELSE ")"
       IN out' = Write(IF fields_printed > 0
                       THEN OpenLine(out, FALSE, indent - 2) ELSE out, bracket)
    /\ indent' = indent - 2
    /\ fields_printed' = Printer.saved
    /\ printing' = Front(printing)

Format == StartPrinting \/ PrintValue \/ PrintChild \/ OpenList \/ PrintItem \/ Close

\* run_parser_test_case: the parser, then the formatter on what it returned.
TestCaseInit == Init /\ FormatterInit
TestCaseNext == \/ Next /\ UNCHANGED formatter_vars
                \/ Format /\ UNCHANGED vars
TestCaseSpec == TestCaseInit /\ [][TestCaseNext]_all_vars
                  /\ WF_all_vars(TestCaseNext)
==============================================================================
