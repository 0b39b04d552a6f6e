------------------------------- MODULE ElseCheck -------------------------------
(***************************************************************************)
(* A check, like GrammarCheck, of where the else branches of a `when' are. *)
(* A station says what a call still has to do and whether it is, or has, a *)
(* branch behind `else =>'.  If no child but such a branch is assigned     *)
(* twice (StationsAssumption), nothing else is lost.                       *)
(***************************************************************************)
EXTENDS SyntaxTree

Else == "else_expr"

\* A station: what is to be done; the types the next token may have, none if nothing is
\* known of it; how much of `else =>' has just been read; whether the result has to start
\* behind `else =>' (it may be anywhere: "free"), and then whether nothing but parentheses
\* is in front of the first child ("open", "past") and the child starts there as well
\* ("good", "bad"); whether the call has set the start or end of its node ("moved"), or
\* has an else branch, as its last child ("new") or not ("yes").
Station(todo, next, read, place, held) ==
  [todo |-> todo, next |-> next, read |-> read, place |-> place, held |-> held]
Holding(station) == station.held \in {"new", "yes"}
Strict(station)  == station.place # "free"

\* A test that is passed, a case that applies, may say what the next token is.
NextOf(on, next)  == IF 1 \in DOMAIN on THEN on[1] ELSE next
Passing(test, next) == IF test.test = "ahead" THEN NextOf(test.on, next) ELSE next

\* Another token has been read: it may have been one of a certain type.
Sure(types, such) == types # {} /\ types \subseteq such
PlaceBehind(place, types) ==
  IF place = "open" /\ ~Sure(types, OpenParentheses) THEN "past" ELSE place
ReadBehind(read, types) ==
  CASE Sure(types, {"else"})            -> 1
    [] Sure(types, {"=>"}) /\ read = 1 -> 2
    [] OTHER -> 0

\* A call and what waits for it: the result is the first child of a call that is open, or
\* an else branch.
ChildPlace(place, own, field) ==
  IF field = Else \/ (place = "open" /\ own) THEN "open" ELSE "free"
PlaceWaiting(place, own) ==
  CASE place = "open" /\ own -> "good"
    [] place \in {"free", "good"} -> place
    [] OTHER -> "bad"
HeldWaiting(held, field) ==
  CASE field = Else -> "new"
    [] field # Else /\ held = "new" -> "yes"
    [] OTHER -> held
Begun(place) == IF place \in {"free", "open"} THEN place ELSE "past"

\* Calling `rule' begins here.
StationsIn(rule, next, place) ==
  LET calls == Opening[rule]
      n     == Len(calls)
  IN {IF i = n THEN Station(calls[i].todo, next, 0, place, "no")
               ELSE Station(calls[i].todo, {}, 0,
                            IF place = "free" THEN "free" ELSE "good", "no") : i \in 1..n}

NextStations(station) ==
  IF station.todo = <<>> THEN {} ELSE
  LET step  == Head(station.todo)
      rest  == Tail(station.todo)
      next  == station.next
      On(todo, known) == {Station(todo, known, station.read, station.place, station.held)}
      Behind(types) ==
        {Station(rest, {}, ReadBehind(station.read, types),
                 PlaceBehind(station.place, types), station.held)}
  IN CASE step.op = "advance" -> Behind(next)
       [] step.op = "take"    -> Behind(step.types)
       [] step.op \in {"open_module", "reread", "relabel"} -> On(rest, next)
       [] step.op \in {"early", "start"} ->
            {Station(rest, next, 0, station.place, "moved")}
       [] step.op = "require" -> On(rest, Passing(step.test, next))
       [] step.op = "choose" ->
            On(rest, next)
              \cup (UNION {On(step.cases[i].code \o rest, Passing(step.cases[i].test, next)) :
                             i \in DOMAIN step.cases})
       [] step.op = "while" ->
            On(rest, next) \cup On(step.code \o station.todo, Passing(step.test, next))
       [] step.op = "parse" ->
            {Station(rest, {}, 0, PlaceWaiting(station.place, step.own),
                     HeldWaiting(station.held, step.field))}
              \cup StationsIn(step.rule, next, ChildPlace(station.place, step.own, step.field))
       [] step.op = "goto" -> StationsIn(step.rule, next, Begun(station.place))
       [] step.op = "switch" ->
            On(rest, next)
              \cup (UNION {StationsIn(row.rule, NextOf(row.on, next), Begun(station.place)) :
                             row \in Switches[step.table]})
       [] step.op = "wrap" ->
            {Station(rest, next, 0, IF Strict(station) THEN "good" ELSE "free", station.held)}
       [] step.op = "overwrite" ->
            {Station(rest, next, 0, IF Strict(station) THEN "bad" ELSE "free", "yes")}
       [] OTHER -> {}

\* What the next step does is right: an else branch comes behind `else =>' and stays a
\* child of its call, and what has to start there does.
Safe(station) == station.todo # <<>> =>
  LET step == Head(station.todo) IN
  /\ step.op = "parse" /\ step.field = Else =>
       station.read = 2 /\ station.held # "moved" /\ step.own
  /\ step.op = "overwrite" => station.held = "new" /\ step.field = Else
  /\ step.op = "relabel" => ~Holding(station) /\ step.field # Else
  /\ step.op = "wrap"    => ~Holding(station) /\ step.first # Else
  /\ step.op = "early"   => ~Holding(station)
  /\ step.op = "start"   => ~Holding(station) /\ ~Strict(station)
  /\ step.op = "return"  => ~Holding(station) /\ station.place \in {"free", "open", "past", "good"}

StationsWithin(depth) ==
  LET start == StationsIn("module", {}, "free")
      Found[n \in Nat] ==
        IF n = 0 THEN [all |-> start, new |-> start]
        ELSE LET before == Found[n - 1]
                 new == (UNION {NextStations(s) : s \in before.new}) \ before.all
             IN  [all |-> before.all \cup new, new |-> new]
  IN  Found[depth].all
StationDepth == 120

\* The stations that can be reached are no others, and what is done at each is right; what
\* a method waits for when it begins is no else branch.
ASSUME StationsAssumption ==
  LET stations == StationsWithin(StationDepth)
  IN  /\ StationsIn("module", {}, "free") \subseteq stations
      /\ \A station \in stations : Safe(station) /\ NextStations(station) \subseteq stations
      /\ \A rule \in Rules : \A i \in 2..Len(Opening[rule]) : Opening[rule][i].field # Else
===============================================================================
