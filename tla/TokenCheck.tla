------------------------------ MODULE TokenCheck ------------------------------
(***************************************************************************)
(* A check, like GrammarCheck, of which tokens a call consumes.  A stage   *)
(* says what the call still has to do and which tokens may be ahead of it. *)
(* If no call consumes a name or a literal without making the node of it   *)
(* (StagesAssumption), nothing that was written is missing in the tree.    *)
(***************************************************************************)
EXTENDS SyntaxTree

\* The lexer puts END_OF_FILE behind everything else.
ASSUME EndAssumption == \A text \in Texts :
  \A i \in 1..(Len(text) - 1) : text[i].type # "end"

\* A stage: what is to be done; the types that the tokens ahead may have, as far as
\* they are known; whether the node starts at the cursor; whether the last token is a
\* name or literal that has no node yet, and its types, none if it never gets one; the
\* types of the token that has to be ahead when the call returns, none if it is all the
\* same.
Stage(todo, ahead, fresh, behind, read, promise) ==
  [todo |-> todo, ahead |-> ahead, fresh |-> fresh, behind |-> behind, read |-> read,
   promise |-> promise]
\* Waiting for a call with this promise.
Told(promise) == IF promise = {} THEN <<>> ELSE <<promise>>
Waiting(todo, promise) == Stage(todo, Told(promise), FALSE, FALSE, {}, {})

\* What is known of the tokens ahead, with this known as well; without these types of
\* the next one; behind the next one.
Meet(ahead, on) ==
  [k \in DOMAIN ahead \cup DOMAIN on |->
     IF k \notin DOMAIN ahead THEN on[k]
     ELSE IF k \notin DOMAIN on THEN ahead[k] ELSE ahead[k] \cap on[k]]
Less(ahead, types) ==
  [k \in DOMAIN ahead |-> IF k = 1 THEN ahead[k] \ types ELSE ahead[k]]
Behind(ahead) == IF 2 \in DOMAIN ahead THEN <<ahead[2]>> ELSE <<>>
MayBe(ahead) == \A k \in DOMAIN ahead : ahead[k] # {}

\* What a test that is passed, or is not, says of the tokens ahead.
Single(test) == test.test = "ahead" /\ DOMAIN test.on = {1}
IfPassed(test, ahead) ==
  CASE test.test = "ahead" -> Meet(ahead, test.on)
    [] test.test = "off"   -> Less(ahead, test.types)
    [] OTHER -> ahead
IfFailed(test, ahead) ==
  CASE Single(test)      -> Less(ahead, test.on[1])
    [] test.test = "off" -> Meet(ahead, <<test.types>>)
    [] OTHER -> ahead
\* No token that one of these cases is for.
Except(ahead, cases, failed) ==
  Less(ahead, UNION {cases[k].test.on[1] : k \in {j \in failed : Single(cases[j].test)}})

\* The names and literals there have to be nodes for; the next token may be one.
MustBeLeaf(type) == LeafOf(type) # {} /\ type # ".0"
MayBeLeaf(ahead) == 1 \in DOMAIN ahead => \E type \in ahead[1] : MustBeLeaf(type)

\* Calling `rule' begins here.
StagesIn(rule, ahead, fresh, promise) ==
  LET calls == Opening[rule]
      n     == Len(calls)
  IN {IF i = n THEN Stage(calls[i].todo, ahead, fresh, FALSE, {}, promise)
               ELSE Waiting(calls[i].todo, {}) : i \in 1..n}
\* parse_identifier consumes one token if it is a name, the one behind it stays.
Promise(step, ahead) ==
  IF step.rule = "identifier" /\ 2 \in DOMAIN ahead THEN ahead[2] ELSE {}

NextStages(stage) ==
  IF stage.todo = <<>> THEN {} ELSE
  LET step  == Head(stage.todo)
      rest  == Tail(stage.todo)
      ahead == stage.ahead
      On(todo, known) ==
        IF MayBe(known)
        THEN {Stage(todo, known, stage.fresh, stage.behind, stage.read, stage.promise)}
        ELSE {}
      Begin(rule, known) ==
        IF MayBe(known) THEN StagesIn(rule, known, stage.fresh, stage.promise) ELSE {}
  IN CASE step.op = "advance" ->
            {IF MayBeLeaf(ahead)
             THEN Stage(rest, Behind(ahead), stage.fresh, TRUE,
                        IF 1 \in DOMAIN ahead THEN ahead[1] ELSE {}, stage.promise)
             ELSE Stage(rest, Behind(ahead), FALSE, FALSE, {}, stage.promise)}
       [] step.op = "take" ->
            IF step.types = {} THEN {}
            ELSE {Stage(rest, Behind(ahead), FALSE, FALSE, {}, stage.promise)}
       [] step.op = "start" ->
            {Stage(rest, ahead, FALSE, FALSE, {}, stage.promise)}
       [] step.op \in {"early", "relabel", "overwrite", "open_module", "reread", "wrap"} ->
            On(rest, ahead)
       [] step.op = "require" -> On(rest, IfPassed(step.test, ahead))
       [] step.op = "choose" ->
            (UNION {On(step.cases[i].code \o rest,
                       IfPassed(step.cases[i].test,
                         Except(ahead, step.cases, {j \in DOMAIN step.cases : ~(i <= j)}))) :
                      i \in DOMAIN step.cases})
              \cup (IF \E i \in DOMAIN step.cases : step.cases[i].test.test = "always"
                    THEN {} ELSE On(rest, Except(ahead, step.cases, DOMAIN step.cases)))
       [] step.op = "while" ->
            On(step.code \o stage.todo, IfPassed(step.test, ahead))
              \cup On(rest, IfFailed(step.test, ahead))
       [] step.op = "parse" ->
            {Waiting(rest, Promise(step, ahead))}
              \cup StagesIn(step.rule, ahead, step.own \/ stage.fresh,
                            Promise(step, ahead))
       [] step.op = "goto" -> Begin(step.rule, ahead)
       [] step.op = "switch" ->
            On(rest, ahead)
              \cup (UNION {Begin(row.rule, Meet(ahead, row.on)) :
                             row \in Switches[step.table]})
       [] OTHER -> {}

\* What the next step does is right: the node of a name or literal is made of the
\* token consumed last, and of nothing else; what is promised is kept; the file ends
\* at END_OF_FILE.
Keeps(promise, ahead) ==
  promise # {} => 1 \in DOMAIN ahead /\ ahead[1] \subseteq promise
OneCall(rule, promise) == promise # {} => Len(Opening[rule]) = 1
Reads(stage) == stage.todo # <<>> =>
  LET step == Head(stage.todo) IN
  /\ stage.behind => step.op \in {"take", "reread", "make"}
  /\ step.op = "take" => /\ \A type \in step.types : ~MustBeLeaf(type)
                         /\ stage.behind => step.types = {}
  /\ step.op = "make" =>
       /\ Keeps(stage.promise, stage.ahead)
       /\ IF stage.behind
          THEN /\ stage.fresh /\ stage.read # {}
               /\ \A type \in stage.read : step.type \in LeafOf(type)
          ELSE step.type \notin Leaves
  /\ step.op \in {"wrap", "make_root"} => step.type \notin Leaves
  /\ step.op = "return" => Keeps(stage.promise, stage.ahead)
  /\ step.op = "make_root" => 1 \in DOMAIN stage.ahead /\ stage.ahead[1] \subseteq {"end"}
  /\ step.op = "parse" => /\ stage.promise = {}
                          /\ OneCall(step.rule, Promise(step, stage.ahead))
  /\ step.op = "goto" => OneCall(step.rule, stage.promise)
  /\ step.op = "switch" =>
       \A row \in Switches[step.table] : OneCall(row.rule, stage.promise)

StagesWithin(depth) ==
  LET start == StagesIn("module", <<>>, TRUE, {})
      Found[n \in Nat] ==
        IF n = 0 THEN [all |-> start, new |-> start]
        ELSE LET before == Found[n - 1]
                 new == (UNION {NextStages(s) : s \in before.new}) \ before.all
             IN  [all |-> before.all \cup new, new |-> new]
  IN  Found[depth].all
StageDepth == 120

\* The stages that can be reached are no others, and what is done at each is right.
ASSUME StagesAssumption ==
  LET stages == StagesWithin(StageDepth)
  IN  /\ StagesIn("module", <<>>, TRUE, {}) \subseteq stages
      /\ \A stage \in stages : Reads(stage) /\ NextStages(stage) \subseteq stages
===============================================================================
