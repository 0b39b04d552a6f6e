-------------------------------- MODULE Parser --------------------------------
(***************************************************************************)
(* ParserState of src/parser/data/parser.cpp: the recursive descent over   *)
(* the tokens of a file, as a machine.  `stack' holds the calls of parse_  *)
(* methods in progress, `index' is m_token_index, `nodes' are the nodes of *)
(* the ParserResult; the id of a node is its position in `nodes' (one more *)
(* than in the code), tokens are counted from zero as in the code.         *)
(*                                                                         *)
(* The methods are the constants Opening (what a call enters) and Switches *)
(* (the switch statements): Grammar.tla gives them the methods of the      *)
(* parser, everything here holds for any methods made of these steps.      *)
(***************************************************************************)
EXTENDS Integers, Sequences, SequencesExt, FiniteSets

CONSTANTS Texts,      \* the token sequences the lexer may hand over
          Opening,    \* method -> the methods entered by calling it
          Switches,   \* name of a switch -> its rows
          Code,       \* the steps of all methods
          Fields,     \* the names of children
          NodeTypes   \* the types of nodes

Rules == DOMAIN Opening
NoToken == -1
Kid == [field : Fields, id : Nat]

\* The tokens of a file are never none: the last is END_OF_FILE.  The methods
\* refer to methods, switches, children and nodes there are, and to steps; no
\* step takes what is not there.
ASSUME TextsAssumption == \A text \in Texts :
    /\ text \in Seq([type : STRING, line : Nat])
    /\ Len(text) > 0
ASSUME GrammarAssumption ==
    /\ "" \in Fields /\ "module" \in Rules
    /\ \A rule \in Rules :
         /\ Opening[rule] \in Seq([todo : Seq(Code), field : Fields])
         /\ Len(Opening[rule]) > 0
    /\ \A name \in DOMAIN Switches : \A row \in Switches[name] : row.rule \in Rules
ASSUME CodeAssumption == \A step \in Code :
    /\ step.op \in {"parse", "goto"} => step.rule \in Rules
    /\ step.op \in {"parse", "relabel"} => step.field \in Fields
    /\ step.op = "wrap" => step.first \in Fields
    /\ step.op \in {"wrap", "make", "make_root"} => step.type \in NodeTypes
    /\ step.op = "parse" => step.own \in BOOLEAN
    /\ step.op = "start" => step.back \in Nat
    /\ step.op = "take" => "past the end" \notin step.types
    /\ step.op = "switch" => step.table \in DOMAIN Switches
    /\ step.op = "while" => step.code \in Seq(Code)
    /\ step.op = "choose" =>
         \A i \in DOMAIN step.cases : step.cases[i].code \in Seq(Code)

VARIABLES
    tokens,     \* m_input
    index,      \* m_token_index
    nodes,      \* m_output
    stack,      \* the calls in progress, the innermost last
    imports,    \* m_imports
    submodules, \* m_submodules
    lists,      \* module node -> the lists it took: [imports, submodules]
    outcome     \* "running", "done" or the exception thrown

vars == <<tokens, index, nodes, stack, imports, submodules, lists, outcome>>
-----------------------------------------------------------------------------
(* Looking at tokens *)

\* peek(k): past the tokens there is nothing, and asking for it throws.
Peek(k) == IF index + k < Len(tokens) THEN tokens[index + k + 1].type
                                      ELSE "past the end"
Line(token) == tokens[token + 1].line

\* is_start_of_lambda_expr: a name and `->', or a parenthesis over names and
\* commas that `->' follows; a name with a colon is enough.
LambdaStop == CHOOSE k \in 1..Len(tokens) :
    /\ \/ Peek(k) \notin {"id", "_id", "This", ","}
       \/ Peek(k) # "," /\ Peek(k + 1) = ":"
    /\ \A j \in 1..(k - 1) : /\ Peek(j) \in {"id", "_id", "This", ","}
                             /\ Peek(j) # "," => Peek(j + 1) # ":"
StartsLambda ==
    \/ Peek(0) \in {"id", "_id", "This"} /\ Peek(1) = "->"
    \/ /\ Peek(0) \in {"(", "_("}
       /\ \/ Peek(LambdaStop) \in {"id", "_id", "This"}
          \/ Peek(LambdaStop) = ")" /\ Peek(LambdaStop + 1) = "->"

\* A case of a switch applies to the tokens ahead.
Applies(row) == \A k \in DOMAIN row.on : Peek(k - 1) \in row.on[k]
\* Bug: looks at the line on which the second one ends.
ApartByEnd(left, right) ==
    \/ "EmptyStmtNode" \in {nodes[left].type, nodes[right].type}
    \/ Line(nodes[left].start) # Line(nodes[right].end)
\* enforce_statement_separator: the lines the two nodes start on differ.
Apart(left, right) ==
    \/ "EmptyStmtNode" \in {nodes[left].type, nodes[right].type}
    \/ Line(nodes[left].start) # Line(nodes[right].start)

\* The answer to a test of the call `frame'.
Holds(test, frame) ==
    LET kids == frame.kids
        n    == Len(kids)
    IN CASE test.test = "always"  -> TRUE
         [] test.test = "ahead"   -> \A k \in DOMAIN test.on :
                                        Peek(k - 1) \in test.on[k]
         [] test.test = "off"     -> Peek(0) \notin test.types
         [] test.test = "line"    -> /\ Peek(0) \notin test.types
                                     /\ Line(index) = Line(frame.start)
         [] test.test = "lambda"  -> StartsLambda
         [] test.test = "starts"  -> \E row \in Switches[test.table] : Applies(row)
         [] test.test = "another" -> index + 1 < Len(tokens)
         [] test.test = "without" -> \A i \in 1..n : kids[i].field # test.field
         [] test.test = "one"     -> n = 1
         [] test.test = "separated" ->
              (n > 1 /\ {kids[n - 1].field, kids[n].field} \subseteq test.fields)
                => Apart(kids[n - 1].id, kids[n].id)
         [] test.test = "universal" ->
              n > 1 => \A i \in 1..n : nodes[kids[i].id].kids # <<>>
-----------------------------------------------------------------------------
(* Calls *)

Top   == Len(stack)
Frame == stack[Top]
Step  == Head(Frame.todo)
After == Tail(Frame.todo)
Does(op) == outcome = "running" /\ Frame.todo # <<>> /\ Step.op = op

\* Calling `rule' enters these calls, for a child `field' of the caller.
Calls(rule, field, start, exact) ==
    [i \in 1..Len(Opening[rule]) |->
       [todo |-> Opening[rule][i].todo, start |-> start, exact |-> exact,
        field |-> IF i = 1 THEN field ELSE Opening[rule][i].field,
        kids |-> <<>>, end |-> NoToken, saved |-> <<>>]]

\* What a step leaves alone: everything but the token index and the call that
\* takes it; everything but the calls.
Output == <<tokens, nodes, imports, submodules, lists, outcome>>
Continue(todo) == stack' = [stack EXCEPT ![Top].todo = todo]
\* throw_parser_error: the location of the error is that of a token, and asking
\* for a token that is not there, or for the one behind the last, throws something
\* else.
PeeksTooFar == Step.op = "require" /\ Step.test.test = "another"
Refuse ==
    /\ outcome' = IF index < Len(tokens) /\ ~PeeksTooFar THEN "ParserError"
                                                       ELSE "RuntimeError"
    /\ UNCHANGED <<tokens, index, nodes, stack, imports, submodules, lists>>

\* A call that waits for the last operand of its level, and for which no operator
\* of the level comes next, returns what it is given.
PassesOn(frame) ==
    /\ Len(frame.todo) = 2 /\ frame.kids = <<>>
    /\ frame.todo[1].op = "while" /\ frame.todo[2].op = "return"
    /\ ~Holds(frame.todo[1].test, frame)
\* The innermost call below the top that makes something of a result.
Receives(k) ==
    /\ k = 1 \/ ~PassesOn(stack[k])
    /\ \A j \in (k + 1)..(Top - 1) : PassesOn(stack[j])
\* The top call returns `id'.
Deliver(id) == \E k \in 1..(Top - 1) :
    /\ Receives(k)
    /\ stack' = [SubSeq(stack, 1, k) EXCEPT ![k].kids =
                   Append(@, [field |-> stack[k + 1].field, id |-> id])]

\* Bug: the node starts at the token just consumed.
NodeOfLastToken(type, kids) ==
    [type |-> type, start |-> index - 1, kids |-> kids,
     end |-> IF Frame.end = NoToken THEN index ELSE Frame.end,
     exact |-> Frame.exact /\ Frame.end = NoToken]
\* add_node with the top call's start token and children.
NodeOf(type, kids) ==
    [type |-> type, start |-> Frame.start, kids |-> kids,
     end |-> IF Frame.end = NoToken THEN index ELSE Frame.end,
     exact |-> Frame.exact /\ Frame.end = NoToken]
NewId == Len(nodes) + 1
-----------------------------------------------------------------------------
Init ==
    /\ tokens \in Texts
    /\ index = 0
    /\ nodes = <<>> /\ imports = <<>> /\ submodules = <<>> /\ lists = <<>>
    /\ stack = Calls("module", "", 0, TRUE)
    /\ outcome = "running"

\* Bug: counts the token twice.
ReadAnyTwice ==
    /\ Does("advance")
    /\ index < Len(tokens)
    /\ index' = index + 2
    /\ Continue(After)
    /\ UNCHANGED Output
\* next(), ++m_token_index.
ReadAny ==
    /\ Does("advance")
    /\ index < Len(tokens)
    /\ index' = index + 1
    /\ Continue(After)
    /\ UNCHANGED Output

\* read_token_type and its like.
ReadType ==
    /\ Does("take")
    /\ \/ /\ Peek(0) \in Step.types
          /\ index' = index + 1
          /\ Continue(After)
          /\ UNCHANGED Output
       \/ Peek(0) \notin Step.types /\ Refuse

\* `if (...) throw_parser_error(...)'.
Check ==
    /\ Does("require")
    /\ \/ /\ Holds(Step.test, Frame)
          /\ Continue(After)
          /\ UNCHANGED <<Output, index>>
       \/ ~Holds(Step.test, Frame) /\ Refuse

\* if, else if, else; a switch on the next token inside a method.
Branch ==
    /\ Does("choose")
    /\ LET true == {i \in DOMAIN Step.cases : Holds(Step.cases[i].test, Frame)}
       IN \/ \E i \in true : /\ \A j \in true : i <= j
                             /\ Continue(Step.cases[i].code \o After)
          \/ true = {} /\ Continue(After)
    /\ UNCHANGED <<Output, index>>

\* Bug: a loop is not left.
LoopStays ==
    /\ Does("while")
    /\ Continue(IF Holds(Step.test, Frame) THEN Step.code \o Frame.todo
                                         ELSE Frame.todo)
    /\ UNCHANGED <<Output, index>>
Loop ==
    /\ Does("while")
    /\ Continue(IF Holds(Step.test, Frame) THEN Step.code \o Frame.todo ELSE After)
    /\ UNCHANGED <<Output, index>>

\* Bug: every method starts where its caller does.
CallFromCaller ==
    /\ Does("parse")
    /\ stack' = [stack EXCEPT ![Top].todo = After]
                  \o Calls(Step.rule, Step.field, Frame.start, Step.own)
    /\ UNCHANGED <<Output, index>>
\* A call of a method; a pattern field starts where the pattern starts.
Call ==
    /\ Does("parse")
    /\ LET start == IF Step.own THEN index ELSE Frame.start
       IN stack' = [stack EXCEPT ![Top].todo = After]
                     \o Calls(Step.rule, Step.field, start, Step.own)
    /\ UNCHANGED <<Output, index>>

\* `return parse_...();': the call becomes another one.
Become(rule) ==
    stack' = SubSeq(stack, 1, Top - 1)
               \o Calls(rule, Frame.field, Frame.start, Frame.exact)
TailCall ==
    /\ Does("goto") /\ Frame.kids = <<>>
    /\ Become(Step.rule)
    /\ UNCHANGED <<Output, index>>

\* switch (peek().type): `return' in the case that applies, or on.
Dispatch ==
    /\ Does("switch") /\ Frame.kids = <<>>
    /\ \/ \E row \in Switches[Step.table] : Applies(row) /\ Become(row.rule)
       \/ /\ \A row \in Switches[Step.table] : ~Applies(row)
          /\ Continue(After)
    /\ UNCHANGED <<Output, index>>

\* Bug: the left operand goes on as the left operand of what follows.
MakeOperandKeepsLeft ==
    /\ Does("wrap") /\ Frame.kids # <<>>
    /\ nodes' = Append(nodes, NodeOf(Step.type,
                  [Frame.kids EXCEPT ![1].field = Step.first]))
    /\ stack' = [stack EXCEPT ![Top] =
                  [@ EXCEPT !.todo = After, !.end = NoToken,
                            !.kids = <<Head(@)>>]]
    /\ UNCHANGED <<tokens, index, imports, submodules, lists, outcome>>
\* A node that becomes the first operand of what follows.
MakeOperand ==
    /\ Does("wrap") /\ Frame.kids # <<>>
    /\ nodes' = Append(nodes, NodeOf(Step.type,
                  [Frame.kids EXCEPT ![1].field = Step.first]))
    /\ stack' = [stack EXCEPT ![Top] =
                  [@ EXCEPT !.todo = After, !.end = NoToken,
                            !.kids = <<[field |-> Frame.kids[1].field, id |-> NewId]>>]]
    /\ UNCHANGED <<tokens, index, imports, submodules, lists, outcome>>

\* A node that is returned.  An import is also added to the imports of the file,
\* a module with a body takes the submodules collected since it was opened and is
\* added to those collected before.
MakeNode ==
    /\ Does("make") /\ Top > 1
    /\ nodes' = Append(nodes, NodeOf(Step.type, Frame.kids))
    /\ Deliver(NewId)
    /\ imports' = IF Step.keep = "import" THEN Append(imports, NewId) ELSE imports
    /\ submodules' = IF Step.keep = "module" THEN Append(Frame.saved, NewId)
                                             ELSE submodules
    /\ lists' = IF Step.keep = "module"
                THEN Append(lists, [module |-> NewId, imports |-> <<>>,
                                    submodules |-> submodules])
                ELSE lists
    /\ UNCHANGED <<tokens, index, outcome>>

\* The end of parse_module.
MakeModuleNode ==
    /\ Does("make_root") /\ Top = 1
    /\ nodes' = Append(nodes, NodeOf(Step.type, Frame.kids))
    /\ lists' = Append(lists, [module |-> NewId, imports |-> imports,
                               submodules |-> submodules])
    /\ imports' = <<>> /\ submodules' = <<>> /\ stack' = <<>>
    /\ outcome' = "done"
    /\ UNCHANGED <<tokens, index>>

\* `return left;', `return exprs[0];'.
HandOn ==
    /\ Does("return") /\ Top > 1 /\ Len(Frame.kids) = 1
    /\ Deliver(Frame.kids[1].id)
    /\ UNCHANGED <<Output, index>>

\* The end token of the node is read before or after its last operand is parsed:
\* the order in which the arguments of add_node are evaluated is unspecified.
FixEnd ==
    /\ Does("early")
    /\ \E end \in {NoToken, index} :
         stack' = [stack EXCEPT ![Top] = [@ EXCEPT !.todo = After, !.end = end]]
    /\ UNCHANGED <<Output, index>>

\* The start token of the node is the next token, or the last one (peek(-1)).
FixStart ==
    /\ Does("start")
    /\ stack' = [stack EXCEPT ![Top] =
                   [@ EXCEPT !.todo = After, !.start = index - Step.back,
                             !.exact = (Step.back = 0 /\ Frame.kids = <<>>)]]
    /\ UNCHANGED <<Output, index>>

\* `pattern = field;': the child parsed last is another one than it seemed.
Rename ==
    /\ Does("relabel") /\ Frame.kids # <<>>
    /\ LET kids == Frame.kids
       IN stack' = [stack EXCEPT ![Top] =
                     [@ EXCEPT !.todo = After,
                               !.kids = [kids EXCEPT ![Len(kids)].field = Step.field]]]
    /\ UNCHANGED <<Output, index>>

\* Bug: the first value stays.
ReassignKeeps ==
    /\ Does("overwrite") /\ Frame.kids # <<>>
    /\ Continue(After)
    /\ UNCHANGED <<Output, index>>
\* Bug: the clauses go with it.
ReassignForgets ==
    /\ Does("overwrite") /\ Frame.kids # <<>>
    /\ stack' = [stack EXCEPT ![Top] =
                   [@ EXCEPT !.todo = After, !.kids = <<Last(@)>>]]
    /\ UNCHANGED <<Output, index>>
\* An optional child assigned twice: the first value is gone.
Reassign ==
    /\ Does("overwrite") /\ Frame.kids # <<>>
    /\ LET kids    == Frame.kids
           earlier == {i \in 1..(Len(kids) - 1) : kids[i].field = Step.field}
       IN \/ earlier = {} /\ Continue(After)
          \/ \E i \in earlier :
               stack' = [stack EXCEPT ![Top] =
                          [@ EXCEPT !.todo = After, !.kids = RemoveAt(kids, i)]]
    /\ UNCHANGED <<Output, index>>

\* Bug: the list is not emptied.
StartSubmodulesShared ==
    /\ Does("open_module")
    /\ stack' = [stack EXCEPT ![Top] =
                   [@ EXCEPT !.todo = After, !.saved = submodules]]
    /\ UNCHANGED <<Output, index>>
\* The submodules of a module with a body are collected in a list of their own.
StartSubmodules ==
    /\ Does("open_module")
    /\ stack' = [stack EXCEPT ![Top] =
                   [@ EXCEPT !.todo = After, !.saved = submodules]]
    /\ submodules' = <<>>
    /\ UNCHANGED <<tokens, index, nodes, imports, lists, outcome>>

\* Lexer::read_..._literal reads the text of a literal token again, and may find
\* fault with what the lexer accepted.
ReadLiteral ==
    /\ Does("reread")
    /\ \/ Continue(After) /\ UNCHANGED <<Output, index>>
       \/ /\ outcome' = "LexerError"
          /\ UNCHANGED <<tokens, index, nodes, stack, imports, submodules, lists>>

Next == \/ ReadAny \/ ReadType \/ Check \/ Branch \/ Loop \/ Call \/ TailCall
        \/ Dispatch \/ MakeOperand \/ MakeNode \/ MakeModuleNode \/ HandOn
        \/ FixEnd \/ FixStart \/ Rename \/ Reassign \/ StartSubmodules
        \/ ReadLiteral

Spec     == Init /\ [][Next]_vars
FairSpec == Spec /\ WF_vars(Next)
-----------------------------------------------------------------------------
(* Properties *)

NodeRecord == [type : NodeTypes, start : Int, end : Int, kids : Seq(Kid),
               exact : BOOLEAN]
FrameRecord == [todo : Seq(Code), field : Fields, start : Int, kids : Seq(Kid),
                end : Int, exact : BOOLEAN, saved : Seq(Nat)]

\* The types of the variables; the token index never gets past the tokens.
TypeOK ==
    /\ tokens \in Texts
    /\ index \in 0..Len(tokens)
    /\ nodes \in Seq(NodeRecord)
    /\ stack \in Seq(FrameRecord)
    /\ imports \in Seq(Nat) /\ submodules \in Seq(Nat)
    /\ lists \in Seq([module : Nat, imports : Seq(Nat), submodules : Seq(Nat)])
    /\ outcome \in {"running", "done", "ParserError", "RuntimeError", "LexerError"}

KidIds(kids) == {kids[i].id : i \in DOMAIN kids}
Increasing(kids) == \A i, j \in DOMAIN kids : i < j => kids[i].id < kids[j].id

\* What the parser builds is a forest: a node id handed out by add_node is put into
\* one place only, a child of one node or of one call in progress, always of a node
\* made later.  (NodeIds are plain integers that the methods pass around; the wrap
\* of a left operand, the overwritten optional and the renamed pattern move them.)
OneParent ==
    /\ \A i \in DOMAIN nodes : /\ Increasing(nodes[i].kids)
                               /\ KidIds(nodes[i].kids) \subseteq 1..(i - 1)
    /\ \A k \in DOMAIN stack : /\ Increasing(stack[k].kids)
                               /\ KidIds(stack[k].kids) \subseteq DOMAIN nodes
    /\ \A i, j \in DOMAIN nodes : i < j =>
         KidIds(nodes[i].kids) \cap KidIds(nodes[j].kids) = {}
    /\ \A k, l \in DOMAIN stack : k < l =>
         KidIds(stack[k].kids) \cap KidIds(stack[l].kids) = {}
    /\ \A i \in DOMAIN nodes, k \in DOMAIN stack :
         KidIds(nodes[i].kids) \cap KidIds(stack[k].kids) = {}

\* The tokens from start to end of a node hold those of its children, one after the
\* other.  Left out (exact is FALSE) are nodes whose start token is moved back or
\* taken from the caller, or whose end token depends on the order in which the
\* compiler evaluates the arguments of add_node.
InSpans(kids, from, to) == \A i \in DOMAIN kids : nodes[kids[i].id].exact =>
    /\ from <= nodes[kids[i].id].start /\ nodes[kids[i].id].end <= to
    /\ \A j \in DOMAIN kids : i < j /\ nodes[kids[j].id].exact =>
         nodes[kids[i].id].end <= nodes[kids[j].id].start
SpansNested == \A i \in DOMAIN nodes : nodes[i].exact =>
    /\ nodes[i].start <= nodes[i].end
    /\ InSpans(nodes[i].kids, nodes[i].start, nodes[i].end)
=============================================================================
