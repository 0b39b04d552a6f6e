------------------------------- MODULE Grammar -------------------------------
(***************************************************************************)
(* All the methods of ParserState together, and what Parser.tla takes of   *)
(* them: which methods a call enters before the first token is looked at,  *)
(* the switches, and the steps there are.                                  *)
(***************************************************************************)
EXTENDS DeclGrammar, StatementGrammar, ExpressionGrammar, FiniteSets, Integers

Methods ==
  ModuleRules @@ ImportRules @@ ExpectDecl @@ EnumRules @@ ModuleDeclRules @@
  ClassRules @@ ClassBodyRules @@ ClassBodyDecl @@ MemberRules @@ GenericRules @@
  TypeDeclRules @@ FunctionRules @@ CaptureRules @@ StatementRules @@ TryRules @@
  ReturnRules @@ ControlRules @@ PatternRules @@ InitializerRules @@
  ExprStatementRule @@ LogicRules @@ ArithmeticRules @@ PrefixRules @@
  PostfixRules @@ AtomRules @@ WhenRules @@ TypePrefixRules @@ TypePostfixRules @@
  ArrayRules @@ LiteralRules @@ OperatorIdentRules @@ OneTokenOperators @@
  TryIfRules @@ IdentifierRules

GrammarSwitches == [
  top_level |-> TopLevelRows, decl |-> DeclRows, class_body |-> ClassBodyRows,
  statement |-> StatementRows, pattern |-> PatternRows, prefix |-> PrefixRows,
  atom |-> AtomRows, type_prefix |-> TypePrefixRows, type_atom |-> TypeAtomRows,
  operator |-> OperatorRows]

\* A method whose first step is a call enters the method it calls at once, and
\* so on: the methods entered, outermost first, with what is left to do in each
\* and the child each one becomes of the one before.
EntersFirst(code) == Head(code).op = "parse" /\ Head(code).own
Entering[rule \in DOMAIN Methods] ==
  LET code == Methods[rule] IN
  IF EntersFirst(code)
  THEN LET inner == Entering[Head(code).rule] IN
       <<[todo |-> Tail(code), field |-> ""]>>
         \o [inner EXCEPT ![1].field = Head(code).field]
  ELSE <<[todo |-> code, field |-> ""]>>
GrammarOpening == [rule \in DOMAIN Methods |-> Entering[rule]]

\* Every step of every method, those inside branches and loops included.
Steps(code) == {code[i] : i \in DOMAIN code}
StepsInside(step) ==
  CASE step.op = "while"  -> Steps(step.code)
    [] step.op = "choose" -> UNION {Steps(step.cases[i].code) :
                                      i \in DOMAIN step.cases}
    [] OTHER -> {}
Deeper(steps) == steps \cup UNION {StepsInside(s) : s \in steps}
MethodSteps  == UNION {Steps(Methods[rule]) : rule \in DOMAIN Methods}
GrammarSteps ==
  Deeper(Deeper(Deeper(Deeper(Deeper(Deeper(MethodSteps))))))

\* The names of the children and the types of the nodes.
GrammarFields == {""} \cup
  UNION {{s[f] : f \in DOMAIN s \cap {"field", "first"}} : s \in GrammarSteps}
GrammarNodeTypes == {s.type : s \in {c \in GrammarSteps : "type" \in DOMAIN c}}
=============================================================================
