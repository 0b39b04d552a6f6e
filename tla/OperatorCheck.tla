---------------------------- MODULE OperatorCheck ----------------------------
(***************************************************************************)
(* A check, like GrammarCheck, of how strongly operators bind.  A place    *)
(* says what a call still has to do, and how strong the operators are that *)
(* its children, and the node it returns, may have in front.               *)
(***************************************************************************)
EXTENDS SyntaxTree

\* 12 is a node that no operator can tear apart: none of a binary operator, or one
\* in parentheses.
Closed == 12
IsOperator(type) == type \in DOMAIN Strength

\* What is known of the first child: how strong it is at least; whether it starts
\* where the call does ("start") or behind a parenthesis ("paren"); whether it ends
\* where the cursor is.
NoChild == [strength |-> Closed, begins |-> "none", ends |-> FALSE]
Child(strength, begins) == [strength |-> strength, begins |-> begins, ends |-> TRUE]

\* A place: what is to be done, how strong the result is to be, whether the start or
\* end of the node has been set, whether the next token ("next") or the last one
\* ("last") is known to be a parenthesis, the first child, the strength of the others.
Place(todo, promise, moved, paren, first, rest) ==
  [todo |-> todo, promise |-> promise, moved |-> moved, paren |-> paren,
   first |-> first, rest |-> rest]

\* How strong the next child has to be for a call with this still to do: stronger than
\* the operator it is the right operand of; as strong as the operators of the level.
WrapsIn(code) == {code[i] : i \in {j \in DOMAIN code :
                    code[j].op = "wrap" /\ IsOperator(code[j].type)}}
LoopWraps(loop) == UNION {UNION {WrapsIn(loop.code[i].cases[j].code) :
                                   j \in DOMAIN loop.code[i].cases} :
                            i \in {k \in DOMAIN loop.code : loop.code[k].op = "choose"}}
IsLevel(todo) == /\ Len(todo) = 2 /\ todo[1].op = "while" /\ todo[2].op = "return"
Demand(todo) ==
  IF todo = <<>> THEN 0
  ELSE IF Head(todo).op = "wrap" /\ IsOperator(Head(todo).type)
       THEN Strength[Head(todo).type] + 1
  ELSE IF IsLevel(todo) THEN Min({Closed} \cup {Strength[s.type] : s \in LoopWraps(todo[1])})
  ELSE 0

\* The places of the calls that a call of `rule' enters.
PlacesIn(rule, promise, moved, paren) ==
  LET calls == Opening[rule]
      n     == Len(calls)
  IN {Place(calls[i].todo, IF i = 1 THEN promise ELSE Demand(calls[i - 1].todo),
            i = 1 /\ moved, IF i = n THEN paren ELSE "no",
            IF i = n THEN NoChild ELSE Child(Demand(calls[i].todo), "start"), Closed) :
        i \in 1..n}

\* A parenthesis or comma behind a child that starts behind a parenthesis.
Closes(test, first) ==
  /\ test.test = "ahead" /\ 1 \in DOMAIN test.on /\ test.on[1] \subseteq CloseParentheses
  /\ first.begins = "paren" /\ first.ends
Tested(test, first) ==
  IF Closes(test, first) THEN [first EXCEPT !.strength = Closed] ELSE first
OneOn(paren) == IF paren = "next" THEN "last" ELSE "no"
Opens(row) == 1 \in DOMAIN row.on /\ row.on[1] \subseteq OpenParentheses

NextPlaces(place) ==
  IF place.todo = <<>> THEN {} ELSE
  LET step  == Head(place.todo)
      rest  == Tail(place.todo)
      first == place.first
      With(todo, child) ==
        {Place(todo, place.promise, place.moved, place.paren, child, place.rest)}
  IN CASE step.op \in {"advance", "take"} ->
            {Place(rest, place.promise, place.moved, OneOn(place.paren),
                   [first EXCEPT !.ends = FALSE], place.rest)}
       [] step.op \in {"open_module", "reread", "relabel"} -> With(rest, first)
       [] step.op = "early" ->
            {Place(rest, place.promise, TRUE, place.paren, first, place.rest)}
       [] step.op = "start" ->
            {Place(rest, place.promise, TRUE, place.paren,
               [first EXCEPT !.begins = IF @ = "start" THEN "any" ELSE @], place.rest)}
       [] step.op = "require" -> With(rest, Tested(step.test, first))
       [] step.op = "choose" ->
            (UNION {With(step.cases[i].code \o rest, Tested(step.cases[i].test, first)) :
                      i \in DOMAIN step.cases})
              \cup (IF \E i \in DOMAIN step.cases : step.cases[i].test.test = "always"
                    THEN {} ELSE With(rest, first))
       [] step.op = "while" -> With(step.code \o place.todo, first) \cup With(rest, first)
       [] step.op = "parse" ->
            PlacesIn(step.rule, Demand(rest), FALSE, "no")
              \cup (IF first.begins = "none"
                    THEN {Place(rest, place.promise, place.moved, "no",
                            Child(Demand(rest), IF step.own /\ place.paren = "last"
                                                THEN "paren" ELSE "any"), place.rest)}
                    ELSE {Place(rest, place.promise, place.moved, "no",
                            [first EXCEPT !.ends = FALSE],
                            IF Demand(rest) < place.rest THEN Demand(rest)
                            ELSE place.rest)})
       [] step.op = "goto" -> PlacesIn(step.rule, place.promise, place.moved, place.paren)
       [] step.op = "switch" ->
            With(rest, first)
              \cup (UNION {PlacesIn(row.rule, place.promise, place.moved,
                             IF Opens(row) THEN "next" ELSE place.paren) :
                             row \in Switches[step.table]})
       [] step.op = "wrap" ->
            {Place(rest, place.promise, place.moved, place.paren,
               IF IsOperator(step.type) THEN Child(Strength[step.type], "start")
               ELSE [strength |-> Closed, begins |-> "any", ends |-> FALSE], Closed)}
       [] step.op = "overwrite" ->
            {Place(rest, place.promise, place.moved, place.paren,
               [strength |-> 0, begins |-> "any", ends |-> FALSE], 0)}
       [] OTHER -> {}

\* Operators are made of children that are strong enough, and what is returned is as
\* strong as it has to be.
Binds(place) == place.todo # <<>> =>
  LET step  == Head(place.todo)
      first == place.first
  IN /\ step.op \in {"make", "make_root"} => ~IsOperator(step.type)
     /\ step.op = "wrap" /\ IsOperator(step.type) =>
          /\ step.first # "right" /\ ~place.moved
          /\ first.strength >= Strength[step.type]
          /\ place.rest > Strength[step.type]
     /\ step.op = "return" =>
          \/ first.begins = "none" \/ first.strength = Closed
          \/ /\ first.strength >= place.promise /\ first.begins = "start" /\ first.ends
             /\ ~place.moved

IsPlace(place) ==
  /\ place.promise \in 0..Closed /\ place.rest \in 0..Closed
  /\ place.moved \in BOOLEAN /\ place.paren \in {"no", "next", "last"}
  /\ place.first \in [strength : 0..Closed, ends : BOOLEAN,
                      begins : {"none", "start", "paren", "any"}]

PlacesWithin(depth) ==
  LET start == PlacesIn("module", 0, FALSE, "no")
      Found[n \in Nat] ==
        IF n = 0 THEN [all |-> start, new |-> start]
        ELSE LET before == Found[n - 1]
                 new == (UNION {NextPlaces(p) : p \in before.new}) \ before.all
             IN  [all |-> before.all \cup new, new |-> new]
  IN  Found[depth].all
PlaceDepth == 120

\* No operator is as strong as what is closed; the places that can be reached are no
\* others, and what is done at each is right.
ASSUME PlacesAssumption ==
  LET places == PlacesWithin(PlaceDepth)
  IN  /\ \A type \in DOMAIN Strength : Strength[type] \in 1..(Closed - 1)
      /\ PlacesIn("module", 0, FALSE, "no") \subseteq places
      /\ \A place \in places : /\ IsPlace(place) /\ Binds(place)
                               /\ NextPlaces(place) \subseteq places
==============================================================================
