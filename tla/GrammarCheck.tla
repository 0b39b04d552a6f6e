----------------------------- MODULE GrammarCheck -----------------------------
(***************************************************************************)
(* A check of the parser's methods that needs no file.  A point of a       *)
(* method says what a call still has to do and which children it has got;  *)
(* Successors says to which points the next step can lead.  If what is     *)
(* done at every point that can be reached is right (PointsAssumption),    *)
(* the tree of every file is: that is what SyntaxProofs shows.             *)
(***************************************************************************)
EXTENDS SyntaxTree

\* What is known of the children of a call, from what it has done: the fields of
\* the first and of the last; for each field there is, how often, where 3 is any
\* number; whether the members of its lists of statements are apart, all but the
\* last one are, or it is not known.
NoKids == [first |-> "", last |-> "", count |-> [name \in {} |-> 0], rows |-> "apart"]
OnlyKid(field) ==
  [first |-> field, last |-> field, count |-> [name \in {field} |-> 1], rows |-> "apart"]

OneMore(count, field) ==
  [name \in DOMAIN count \cup {field} |->
     CASE name # field -> count[name]
       [] name = field /\ name \notin DOMAIN count -> 1
       [] OTHER -> IF count[name] = 3 THEN 3 ELSE count[name] + 1]
RowsWith(kids, field) ==
  CASE kids.rows # "apart" -> "mixed"
    [] kids.rows = "apart" /\ field \notin StatementLists \cap DOMAIN kids.count -> "apart"
    [] OTHER -> IF kids.last = field THEN "late" ELSE "mixed"
WithKid(kids, field) ==
  [first |-> IF DOMAIN kids.count = {} THEN field ELSE kids.first,
   last |-> field, count |-> OneMore(kids.count, field), rows |-> RowsWith(kids, field)]

\* A point: what is to be done, the field the result is for if it is named for a kind
\* of node, the children.
NamedFor(field) == IF field \in DOMAIN KindOf THEN field ELSE ""
Point(todo, field, kids) == [todo |-> todo, field |-> field, kids |-> kids]

\* Calling `rule' for a child `field' begins here: in the last call it enters, while
\* each of the others waits for the next one.
Entered(rule, field) ==
  LET calls == Opening[rule] IN
  {Point(calls[i].todo, NamedFor(IF i = 1 THEN field ELSE calls[i].field),
         IF i = Len(calls) THEN NoKids ELSE OnlyKid(calls[i + 1].field)) :
     i \in 1..Len(calls)}

\* A test that is passed says something about the children.
Known(test, kids) ==
  [first |-> kids.first, last |-> kids.last, count |-> kids.count,
   rows |-> IF /\ test.test = "separated" /\ kids.rows = "late"
               /\ kids.last \in test.fields
            THEN "apart" ELSE kids.rows]
MayPass(test, kids) == test.test = "without" => test.field \notin DOMAIN kids.count
\* An optional child assigned twice is there once.
Overwritten(kids, field) ==
  [first |-> kids.first, last |-> kids.last, rows |-> kids.rows,
   count |-> [kids.count EXCEPT ![field] = IF @ = 3 THEN 3 ELSE 1]]

\* The points behind the next step.  A node that is made or handed on ends the call.
Successors(point) ==
  IF point.todo = <<>> THEN {} ELSE
  LET step == Head(point.todo)
      rest == Tail(point.todo)
      kids == point.kids
      Then(todo, children) == {Point(todo, point.field, children)}
  IN CASE step.op \in {"advance", "take", "early", "start", "open_module", "reread"} ->
            Then(rest, kids)
       [] step.op = "require" ->
            IF MayPass(step.test, kids) THEN Then(rest, Known(step.test, kids)) ELSE {}
       [] step.op = "choose" ->
            (UNION {Then(step.cases[i].code \o rest, kids) : i \in DOMAIN step.cases})
              \cup (IF \E i \in DOMAIN step.cases : step.cases[i].test.test = "always"
                    THEN {} ELSE Then(rest, kids))
       [] step.op = "while" ->
            Then(step.code \o point.todo, kids) \cup Then(rest, kids)
       [] step.op = "parse" ->
            Then(rest, WithKid(kids, step.field)) \cup Entered(step.rule, step.field)
       [] step.op = "goto" -> Entered(step.rule, point.field)
       [] step.op = "switch" ->
            Then(rest, kids)
              \cup (UNION {Entered(row.rule, point.field) : row \in Switches[step.table]})
       [] step.op = "wrap" -> Then(rest, OnlyKid(kids.first))
       [] step.op = "relabel" -> Then(rest, OnlyKid(step.field))
       [] step.op = "overwrite" -> Then(rest, Overwritten(kids, step.field))
       [] OTHER -> {}

\* A node of this type may be made of these children, but for the kinds of them.
MayMake(type, kids) ==
  LET struct == Range(NodeStructs[type]) IN
  /\ \A name \in DOMAIN kids.count : \E field \in struct :
       field.name = name /\ field.holds # "value"
  /\ \A field \in struct :
       /\ field.holds = "one" => field.name \in DOMAIN kids.count
       /\ field.holds \in {"one", "maybe"} /\ field.name \in DOMAIN kids.count =>
            kids.count[field.name] = 1
  /\ type \in MayTouch \/ kids.rows = "apart"
\* With another name for the first child.
FirstCalled(kids, field) ==
  [rows |-> kids.rows, count |->
     [name \in (DOMAIN kids.count \ {kids.first}) \cup {field} |->
        IF name = field THEN 1 ELSE kids.count[name]]]

\* What the next step does is right: a node is complete and of the kind that is
\* asked for, a child that gets another field is the only one of its old field, and
\* is not asked to be of a kind; nor is a child that is handed on.
Plain(field) == field \notin DOMAIN KindOf \cup StatementLists
Right(point) == point.todo # <<>> =>
  LET step == Head(point.todo)
      kids == point.kids
  IN /\ step.op = "make" =>
          /\ MayMake(step.type, kids)
          /\ point.field \in DOMAIN KindOf => step.type \in KindOf[point.field]
     /\ step.op = "make_root" => MayMake(step.type, kids)
     /\ step.op = "return" => point.field \notin DOMAIN KindOf
     /\ step.op = "wrap" =>
          /\ kids.first \in DOMAIN kids.count /\ kids.count[kids.first] = 1
          /\ step.first \notin DOMAIN kids.count \ {kids.first}
          /\ Plain(kids.first) /\ Plain(step.first)
          /\ MayMake(step.type, FirstCalled(kids, step.first))
     /\ step.op = "relabel" =>
          /\ DOMAIN kids.count = {kids.first} /\ kids.count[kids.first] = 1
          /\ Plain(step.field)
     /\ step.op = "overwrite" =>
          /\ kids.last = step.field /\ kids.first # step.field
          /\ step.field \notin StatementLists

\* The points that can be reached within so many steps.
Depth == 100
PointsWithin(depth) ==
  LET Found[n \in Nat] ==
        IF n = 0
        THEN [all |-> Entered("module", ""), new |-> Entered("module", "")]
        ELSE LET before == Found[n - 1]
                 new == (UNION {Successors(p) : p \in before.new}) \ before.all
             IN  [all |-> before.all \cup new, new |-> new]
  IN  Found[depth].all

\* There are no others, and all are right.
ASSUME PointsAssumption ==
  LET points == PointsWithin(Depth)
  IN  /\ Entered("module", "") \subseteq points
      /\ \A point \in points : Right(point) /\ Successors(point) \subseteq points

\* The tables of the formatter: what it prints of a node are the fields of its struct,
\* all of them and in their order; a number has nothing but its value.
ASSUME PrintedAssumption == \A type \in NodeTypes :
  /\ type \in DOMAIN NodeStructs \cap DOMAIN Printed
  /\ NodeStructs[type] \in Seq([name : STRING, holds : {"one", "maybe", "many", "value"}])
  /\ Printed[type] = [i \in DOMAIN NodeStructs[type] |-> NodeStructs[type][i].name]
  /\ type = "NumberLiteralNode" => NodeStructs[type] = <<Value("value")>>
===============================================================================
