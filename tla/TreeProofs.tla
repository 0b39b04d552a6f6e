------------------------------ MODULE TreeProofs ------------------------------
(***************************************************************************)
(* Theorems about what the tree of every file has of it.                   *)
(*                                                                         *)
(* Nothing that was written is missing, from what TokenCheck finds of the  *)
(* methods: every call in progress is at one of its stages, what is known  *)
(* of the tokens ahead is true, and every name and literal up to where the *)
(* stage says has one node (StageInv).                                     *)
(*                                                                         *)
(* No node is lost but an else branch behind which there is another one,   *)
(* from what ElseCheck finds: every call in progress is at one of its      *)
(* stations (StationInv), and every node is in a call, in another node, or *)
(* was such a branch (Accounted).                                          *)
(***************************************************************************)
EXTENDS TokenCheck, ElseCheck, SyntaxProofs

-----------------------------------------------------------------------------
(* That nothing is skipped: calls and their stages                         *)

Stages == StagesWithin(StageDepth)

\* What is known of the tokens ahead is true; up to where names and literals have
\* their nodes.
Sees(ahead) == \A k \in DOMAIN ahead : Peek(k - 1) \in ahead[k]
Settled(stage) == IF stage.behind THEN index - 1 ELSE index

\* What a stage says of a call that starts there is true.
Tells(stage, start) ==
  /\ Sees(stage.ahead)
  /\ stage.fresh => start = Settled(stage)
  /\ stage.behind => index > 0 /\ (stage.read # {} => TokenType(index - 1) \in stage.read)

\* The calls up to t wait, the last of them for one with this promise.
Await(t, promise) ==
  /\ \A k \in 1..t : k # t => Waiting(stack[k].todo, {}) \in Stages
  /\ t > 0 => Waiting(stack[t].todo, promise) \in Stages
Staged(stage) ==
  /\ stage \in Stages /\ stage.todo = Frame.todo /\ Tells(stage, Frame.start)
  /\ Await(Top - 1, stage.promise)

\* The names and literals in front of a token have one node each, and no other node is
\* of their kinds.
IsLeafOf(id, token) == nodes[id].start = token /\ nodes[id].type \in LeafType(token)
OneLeaf(token) == \E id \in DOMAIN nodes :
  \A other \in DOMAIN nodes : IsLeafOf(other, token) <=> other = id
LeavesMade(n) ==
  /\ \A id \in DOMAIN nodes : nodes[id].type \in Leaves =>
       nodes[id].start \in 0..(n - 1) /\ nodes[id].type \in LeafType(nodes[id].start)
  /\ \A token \in 0..(n - 1) : MustBeLeaf(TokenType(token)) => OneLeaf(token)

\* The inductive invariant.
StageInv == outcome = "running" => \E stage : Staged(stage) /\ LeavesMade(Settled(stage))

-----------------------------------------------------------------------------
LEMMA StagesClosed ==
  /\ StagesIn("module", <<>>, TRUE, {}) \subseteq Stages
  /\ \A stage \in Stages : Reads(stage) /\ NextStages(stage) \subseteq Stages
  BY StagesAssumption DEF Stages

LEMMA StageParts ==
  ASSUME NEW todo, NEW ahead, NEW fresh, NEW behind, NEW read, NEW promise,
         NEW stage, stage = Stage(todo, ahead, fresh, behind, read, promise)
  PROVE  /\ stage.todo = todo /\ stage.ahead = ahead /\ stage.fresh = fresh
         /\ stage.behind = behind /\ stage.read = read /\ stage.promise = promise
  BY DEF Stage

LEMMA SeenMayBe == ASSUME NEW ahead, Sees(ahead) PROVE MayBe(ahead)
  BY DEF Sees, MayBe

LEMMA SeesNext ==
  ASSUME NEW ahead, 1 \in DOMAIN ahead, Sees(ahead) PROVE Peek(0) \in ahead[1]
<1>1. Peek(1 - 1) \in ahead[1]
  BY DEF Sees
<1>. QED  BY <1>1

LEMMA SeesMore ==
  ASSUME NEW ahead, NEW on, Sees(ahead), \A k \in DOMAIN on : Peek(k - 1) \in on[k]
  PROVE  Sees(Meet(ahead, on))
  BY DEF Sees, Meet

LEMMA SeesLess ==
  ASSUME NEW ahead, NEW types, Sees(ahead), Peek(0) \notin types
  PROVE  Sees(Less(ahead, types))
<1>1. ASSUME NEW k \in DOMAIN ahead PROVE Peek(k - 1) \in Less(ahead, types)[k]
  <2>1. Peek(k - 1) \in ahead[k]
    BY DEF Sees
  <2>2. k = 1 => Peek(k - 1) = Peek(0)
    OBVIOUS
  <2>. QED  BY <2>1, <2>2 DEF Less
<1>. QED  BY <1>1 DEF Sees, Less

LEMMA SeesPassed ==
  ASSUME NEW ahead, NEW test, NEW frame, Sees(ahead), Holds(test, frame)
  PROVE  Sees(IfPassed(test, ahead))
<1>1. CASE test.test = "ahead"
  <2>1. \A k \in DOMAIN test.on : Peek(k - 1) \in test.on[k]
    BY <1>1 DEF Holds
  <2>. QED  BY <1>1, <2>1, SeesMore DEF IfPassed
<1>2. CASE test.test = "off"
  <2>1. Peek(0) \notin test.types
    BY <1>2 DEF Holds
  <2>. QED  BY <1>2, <2>1, SeesLess DEF IfPassed
<1>3. CASE test.test # "ahead" /\ test.test # "off"
  BY <1>3 DEF IfPassed
<1>. QED  BY <1>1, <1>2, <1>3

\* A test of the next token alone that is not passed.
LEMMA SingleFails ==
  ASSUME NEW test, NEW frame, Single(test), ~Holds(test, frame)
  PROVE  Peek(0) \notin test.on[1]
<1>1. \E k \in DOMAIN test.on : Peek(k - 1) \notin test.on[k]
  BY DEF Holds, Single
<1>2. Peek(1 - 1) \notin test.on[1]
  BY <1>1 DEF Single
<1>. QED  BY <1>2

LEMMA SeesFailed ==
  ASSUME NEW ahead, NEW test, NEW frame, Sees(ahead), ~Holds(test, frame)
  PROVE  Sees(IfFailed(test, ahead))
<1>1. CASE Single(test)
  <2>1. Peek(0) \notin test.on[1]
    BY <1>1, SingleFails
  <2>2. IfFailed(test, ahead) = Less(ahead, test.on[1])
    BY <1>1 DEF IfFailed, Single
  <2>. QED  BY <2>1, <2>2, SeesLess
<1>2. CASE test.test = "off" /\ ~Single(test)
  <2>1. PICK on : on = <<test.types>>
    OBVIOUS
  <2>2. DOMAIN on = {1} /\ on[1] = test.types
    BY <2>1
  <2>3. Peek(0) \in test.types
    BY <1>2 DEF Holds
  <2>4. \A k \in DOMAIN on : Peek(k - 1) \in on[k]
    BY <2>2, <2>3
  <2>. QED  BY <1>2, <2>1, <2>4, SeesMore DEF IfFailed
<1>3. CASE test.test # "off" /\ ~Single(test)
  BY <1>3 DEF IfFailed
<1>. QED  BY <1>1, <1>2, <1>3

LEMMA SeesExcept ==
  ASSUME NEW ahead, NEW cases, NEW failed, NEW frame, Sees(ahead),
         \A j \in failed : ~Holds(cases[j].test, frame)
  PROVE  Sees(Except(ahead, cases, failed))
<1>1. \A j \in failed : Single(cases[j].test) => Peek(0) \notin cases[j].test.on[1]
  BY SingleFails
<1>. QED  BY <1>1, SeesLess DEF Except

\* Behind the token that is read.
LEMMA SeesBehind ==
  ASSUME NEW ahead, Sees(ahead), index \in Nat, index' = index + 1, tokens' = tokens
  PROVE  Sees(Behind(ahead))'
<1>1. CASE 2 \in DOMAIN ahead
  <2>1. Peek(2 - 1) \in ahead[2]
    BY <1>1 DEF Sees
  <2>2. index' + 0 = index + (2 - 1)
    OBVIOUS
  <2>3. Peek(0)' = Peek(2 - 1)
    BY <2>2 DEF Peek
  <2>4. PICK next : next = <<ahead[2]>>
    OBVIOUS
  <2>5. DOMAIN next = {1} /\ next[1] = ahead[2]
    BY <2>4
  <2>6. \A k \in DOMAIN next : (Peek(k - 1) \in next[k])'
    BY <2>1, <2>3, <2>5
  <2>7. Sees(next)'
    BY <2>6 DEF Sees
  <2>. QED  BY <1>1, <2>4, <2>7 DEF Behind
<1>2. CASE 2 \notin DOMAIN ahead
  <2>1. DOMAIN <<>> = {}
    OBVIOUS
  <2>. QED  BY <1>2, <2>1 DEF Behind, Sees
<1>. QED  BY <1>1, <1>2

LEMMA SeesSame ==
  ASSUME NEW ahead, tokens' = tokens, index' = index, Sees(ahead)
  PROVE  Sees(ahead)'
  BY DEF Sees, Peek

-----------------------------------------------------------------------------
(* The stages behind each step                                             *)

Going(stage, todo, ahead) ==
  Stage(todo, ahead, stage.fresh, stage.behind, stage.read, stage.promise)

LEMMA NextRead ==
  ASSUME NEW stage, stage.todo # <<>>,
         \/ Head(stage.todo).op = "advance"
         \/ Head(stage.todo).op = "take" /\ Head(stage.todo).types # {},
         Head(stage.todo).op = "advance" => ~MayBeLeaf(stage.ahead)
  PROVE  Stage(Tail(stage.todo), Behind(stage.ahead), FALSE, FALSE, {}, stage.promise)
           \in NextStages(stage)
  BY DEF NextStages

LEMMA NextLeaf ==
  ASSUME NEW stage, stage.todo # <<>>, Head(stage.todo).op = "advance",
         MayBeLeaf(stage.ahead)
  PROVE  Stage(Tail(stage.todo), Behind(stage.ahead), stage.fresh, TRUE,
               IF 1 \in DOMAIN stage.ahead THEN stage.ahead[1] ELSE {}, stage.promise)
           \in NextStages(stage)
  BY DEF NextStages

LEMMA NextFrom ==
  ASSUME NEW stage, stage.todo # <<>>, Head(stage.todo).op = "start"
  PROVE  Stage(Tail(stage.todo), stage.ahead, FALSE, FALSE, {}, stage.promise)
           \in NextStages(stage)
  BY DEF NextStages

LEMMA NextSimply ==
  ASSUME NEW stage, stage.todo # <<>>, MayBe(stage.ahead),
         Head(stage.todo).op \in {"early", "relabel", "overwrite", "open_module",
                                  "reread", "wrap", "switch"}
  PROVE  Going(stage, Tail(stage.todo), stage.ahead) \in NextStages(stage)
  BY DEF NextStages, Going

LEMMA NextTested ==
  ASSUME NEW stage, stage.todo # <<>>, NEW ahead, MayBe(ahead),
         Head(stage.todo).op = "require",
         ahead = IfPassed(Head(stage.todo).test, stage.ahead)
  PROVE  Going(stage, Tail(stage.todo), ahead) \in NextStages(stage)
  BY DEF NextStages, Going

LEMMA NextCase ==
  ASSUME NEW stage, stage.todo # <<>>, NEW ahead, MayBe(ahead),
         Head(stage.todo).op = "choose", NEW cases, cases = Head(stage.todo).cases,
         NEW i \in DOMAIN cases,
         ahead = IfPassed(cases[i].test,
                   Except(stage.ahead, cases, {j \in DOMAIN cases : ~(i <= j)}))
  PROVE  Going(stage, cases[i].code \o Tail(stage.todo), ahead) \in NextStages(stage)
  BY DEF NextStages, Going

LEMMA NextNoCase ==
  ASSUME NEW stage, stage.todo # <<>>, NEW ahead, MayBe(ahead),
         Head(stage.todo).op = "choose", NEW cases, cases = Head(stage.todo).cases,
         \A i \in DOMAIN cases : cases[i].test.test # "always",
         ahead = Except(stage.ahead, cases, DOMAIN cases)
  PROVE  Going(stage, Tail(stage.todo), ahead) \in NextStages(stage)
  BY DEF NextStages, Going

LEMMA NextInLoop ==
  ASSUME NEW stage, stage.todo # <<>>, NEW ahead, MayBe(ahead),
         Head(stage.todo).op = "while",
         ahead = IfPassed(Head(stage.todo).test, stage.ahead)
  PROVE  Going(stage, Head(stage.todo).code \o stage.todo, ahead) \in NextStages(stage)
  BY DEF NextStages, Going

LEMMA NextBehindLoop ==
  ASSUME NEW stage, stage.todo # <<>>, NEW ahead, MayBe(ahead),
         Head(stage.todo).op = "while",
         ahead = IfFailed(Head(stage.todo).test, stage.ahead)
  PROVE  Going(stage, Tail(stage.todo), ahead) \in NextStages(stage)
  BY DEF NextStages, Going

LEMMA NextCalled ==
  ASSUME NEW stage, stage.todo # <<>>, NEW step, step = Head(stage.todo), step.op = "parse",
         NEW promise, promise = Promise(step, stage.ahead)
  PROVE  /\ Waiting(Tail(stage.todo), promise) \in NextStages(stage)
         /\ StagesIn(step.rule, stage.ahead, step.own \/ stage.fresh, promise)
              \subseteq NextStages(stage)
  BY DEF NextStages

LEMMA NextInstead ==
  ASSUME NEW stage, stage.todo # <<>>, Head(stage.todo).op = "goto", MayBe(stage.ahead)
  PROVE  StagesIn(Head(stage.todo).rule, stage.ahead, stage.fresh, stage.promise)
           \subseteq NextStages(stage)
  BY DEF NextStages

LEMMA NextSwitched ==
  ASSUME NEW stage, stage.todo # <<>>, Head(stage.todo).op = "switch",
         NEW row \in Switches[Head(stage.todo).table],
         NEW ahead, ahead = Meet(stage.ahead, row.on), MayBe(ahead)
  PROVE  StagesIn(row.rule, ahead, stage.fresh, stage.promise) \subseteq NextStages(stage)
  BY DEF NextStages

-----------------------------------------------------------------------------
(* What a step leaves alone                                                *)

\* The innermost call is at this stage, and does its next step.
LEMMA StageDoes ==
  ASSUME Ready, Forest, NEW op, Does(op), NEW stage, Staged(stage)
  PROVE  /\ outcome = "running" /\ Step \in Code /\ Step.op = op /\ After \in Seq(Code)
         /\ Top \in 1..Top /\ Frame = stack[Top] /\ Frame \in FrameRecord
         /\ Frame.start \in Int /\ Frame.todo \in Seq(Code) /\ stage.todo = Frame.todo
         /\ stage \in Stages /\ stage.todo # <<>> /\ Head(stage.todo) = Step
         /\ Tail(stage.todo) = After /\ NextStages(stage) \subseteq Stages /\ Reads(stage)
         /\ Tells(stage, Frame.start) /\ Sees(stage.ahead) /\ MayBe(stage.ahead)
         /\ index \in Nat
<1>1. outcome = "running" /\ Step \in Code /\ Step.op = op /\ After \in Seq(Code)
  BY TopStep
<1>2. Top \in 1..Top /\ Frame = stack[Top] /\ Frame \in FrameRecord
  BY <1>1, TopFrame, CallFacts DEF Frame
<1>3. Frame.start \in Int /\ Frame.todo \in Seq(Code)
  BY <1>2, FrameFacts
<1>4. stage \in Stages /\ stage.todo = Frame.todo /\ Tells(stage, Frame.start)
  BY DEF Staged
<1>5. stage.todo # <<>> /\ Head(stage.todo) = Step /\ Tail(stage.todo) = After
  BY <1>4 DEF Does, Step, After
<1>6. NextStages(stage) \subseteq Stages /\ Reads(stage)
  BY <1>4, StagesClosed
<1>7. Sees(stage.ahead) /\ MayBe(stage.ahead)
  BY <1>4, SeenMayBe DEF Tells
<1>. QED  BY <1>1, <1>2, <1>3, <1>4, <1>5, <1>6, <1>7, TokensThere

\* It goes on as another call, at another stage.
LEMMA StageMoves ==
  ASSUME Ready, Ready', Forest, outcome = "running", NEW old, Staged(old),
         NEW stage \in Stages, NEW frame, stack' = [stack EXCEPT ![Top] = frame],
         stage.todo = frame.todo, stage.promise = old.promise, Tells(stage, frame.start)'
  PROVE  Staged(stage)'
<1>1. PICK t \in Nat : t = Top /\ t \in 1..t
  BY TopFrame
<1>2. DOMAIN stack = 1..t
  BY <1>1, CallFacts
<1>3. Top' = t
  <2>1. stack' \in Seq(FrameRecord)
    BY DEF Ready, TypeOK
  <2>2. DOMAIN stack' = 1..t
    BY <1>1, <1>2
  <2>3. Len(stack') = t
    BY <1>1, <2>1, <2>2, LenProperties
  <2>. QED  BY <2>3 DEF Top
<1>4. Frame' = frame
  BY <1>1, <1>2, <1>3 DEF Frame
<1>5. \A k \in 1..(t - 1) : stack'[k] = stack[k]
  BY <1>1, <1>2
<1>6. Await(t - 1, stage.promise)'
  <2>1. Await(t - 1, stage.promise)
    BY <1>1 DEF Staged
  <2>2. t - 1 > 0 => t - 1 \in 1..(t - 1)
    BY <1>1
  <2>. QED  BY <1>5, <2>1, <2>2 DEF Await
<1>. QED  BY <1>3, <1>4, <1>6 DEF Staged

LEMMA LeavesStay ==
  ASSUME NEW n, LeavesMade(n), nodes' = nodes, tokens' = tokens
  PROVE  LeavesMade(n)'
<1>1. \A id, token : IsLeafOf(id, token)' <=> IsLeafOf(id, token)
  BY DEF IsLeafOf, LeafType, TokenType
<1>2. \A token : OneLeaf(token)' <=> OneLeaf(token)
  BY <1>1 DEF OneLeaf
<1>. QED  BY <1>2 DEF LeavesMade, LeafType, TokenType

\* A step without which no token is read and no node is made.
LEMMA StageChanges ==
  ASSUME Ready, Ready', Forest, outcome = "running", tokens' = tokens, nodes' = nodes,
         index' = index, NEW old, Staged(old), LeavesMade(Settled(old)),
         NEW frame, stack' = [stack EXCEPT ![Top] = frame],
         NEW stage \in Stages, stage.todo = frame.todo, stage.promise = old.promise,
         Sees(stage.ahead), stage.behind = old.behind, stage.read = old.read,
         stage.fresh => old.fresh /\ frame.start = Frame.start
  PROVE  StageInv'
<1>1. Settled(stage)' = Settled(old)
  BY DEF Settled
<1>2. Tells(stage, frame.start)'
  <2>1. Tells(old, Frame.start)
    BY DEF Staged
  <2>2. Sees(stage.ahead)'
    BY SeesSame
  <2>3. TokenType(index - 1)' = TokenType(index - 1)
    BY DEF TokenType
  <2>. QED  BY <1>1, <2>1, <2>2, <2>3 DEF Tells
<1>3. Staged(stage)'
  BY <1>2, StageMoves
<1>4. PICK n : n = Settled(old)
  OBVIOUS
<1>5. LeavesMade(n)'
  BY <1>4, LeavesStay
<1>6. n = Settled(stage)'
  BY <1>1, <1>4
<1>7. LeavesMade(Settled(stage))'
  BY <1>5, <1>6
<1>. QED  BY <1>3, <1>7 DEF StageInv

\* The innermost call goes on, with this known of the tokens ahead.
LEMMA StageGoesOn ==
  ASSUME Ready, Ready', Forest, NEW op, Does(op), NEW stage, Staged(stage),
         LeavesMade(Settled(stage)), NEW todo, Continue(todo), UNCHANGED <<Output, index>>,
         NEW ahead, Sees(ahead), Going(stage, todo, ahead) \in NextStages(stage)
  PROVE  StageInv'
<1>1. /\ outcome = "running" /\ Frame \in FrameRecord /\ NextStages(stage) \subseteq Stages
      /\ Frame = stack[Top]
  BY StageDoes
<1>2. PICK frame : frame = [Frame EXCEPT !.todo = todo]
  OBVIOUS
<1>3. frame.todo = todo /\ frame.start = Frame.start
  BY <1>1, <1>2 DEF FrameRecord
<1>4. stack' = [stack EXCEPT ![Top] = frame]
  BY <1>1, <1>2 DEF Continue
<1>5. PICK next : next = Going(stage, todo, ahead)
  OBVIOUS
<1>6. /\ next \in Stages /\ next.todo = todo /\ next.ahead = ahead /\ next.fresh = stage.fresh
      /\ next.behind = stage.behind /\ next.read = stage.read /\ next.promise = stage.promise
  BY <1>1, <1>5, StageParts DEF Going
<1>7. tokens' = tokens /\ nodes' = nodes /\ index' = index
  BY DEF Output
<1>. QED  BY <1>1, <1>3, <1>4, <1>6, <1>7, StageChanges

-----------------------------------------------------------------------------
(* The steps that only go on                                               *)

LEMMA RefuseStages == ASSUME Refuse PROVE StageInv'
  BY DEF Refuse, StageInv

\* Steps that say nothing of the tokens.
LEMMA SimplyStages ==
  ASSUME Ready, Ready', Forest, StageInv, NEW op, Does(op),
         op \in {"early", "relabel", "overwrite", "open_module", "reread", "switch"},
         NEW frame, stack' = [stack EXCEPT ![Top] = frame],
         frame.todo = After, frame.start = Frame.start,
         tokens' = tokens, nodes' = nodes, index' = index
  PROVE  StageInv'
<1>1. PICK stage : Staged(stage) /\ LeavesMade(Settled(stage))
  BY DEF StageInv, Does
<1>2. /\ outcome = "running" /\ Step.op = op /\ stage.todo # <<>> /\ Head(stage.todo) = Step
      /\ Tail(stage.todo) = After /\ NextStages(stage) \subseteq Stages
      /\ Sees(stage.ahead) /\ MayBe(stage.ahead)
  BY <1>1, StageDoes
<1>3. PICK next : next = Going(stage, After, stage.ahead)
  OBVIOUS
<1>4. next \in Stages
  BY <1>2, <1>3, NextSimply
<1>5. /\ next.todo = After /\ next.ahead = stage.ahead /\ next.fresh = stage.fresh
      /\ next.behind = stage.behind /\ next.read = stage.read /\ next.promise = stage.promise
  BY <1>3, StageParts DEF Going
<1>. QED  BY <1>1, <1>2, <1>4, <1>5, StageChanges

\* The frame of a call that only goes on.
LEMMA FrameGoesOn ==
  ASSUME Ready, outcome = "running", NEW todo, Continue(todo)
  PROVE  \E frame : /\ stack' = [stack EXCEPT ![Top] = frame]
                    /\ frame.todo = todo /\ frame.start = Frame.start
<1>1. PICK frame : frame = [Frame EXCEPT !.todo = todo]
  OBVIOUS
<1>2. frame.todo = todo /\ frame.start = Frame.start
  BY <1>1, TopFrame DEF FrameRecord
<1>. QED  BY <1>1, <1>2 DEF Continue, Frame

LEMMA JustOnStages ==
  ASSUME Ready, Ready', Forest, StageInv, NEW op \in {"overwrite", "reread", "switch"}, Does(op),
         Continue(After), UNCHANGED <<Output, index>>
  PROVE  StageInv'
<1>1. outcome = "running" /\ tokens' = tokens /\ nodes' = nodes /\ index' = index
  BY DEF Does, Output
<1>2. PICK frame : /\ stack' = [stack EXCEPT ![Top] = frame]
                   /\ frame.todo = After /\ frame.start = Frame.start
  BY <1>1, FrameGoesOn
<1>. QED  BY <1>1, <1>2, SimplyStages

LEMMA FixEndStages == ASSUME Ready, Ready', Forest, StageInv, FixEnd PROVE StageInv'
<1>1. Does("early") /\ tokens' = tokens /\ nodes' = nodes /\ index' = index
  BY DEF FixEnd, Output
<1>2. PICK end : stack' = [stack EXCEPT ![Top] = [Frame EXCEPT !.todo = After, !.end = end]]
  BY DEF FixEnd, Frame
<1>3. PICK frame : frame = [Frame EXCEPT !.todo = After, !.end = end]
  OBVIOUS
<1>4. frame.todo = After /\ frame.start = Frame.start
  BY <1>1, <1>3, TopFrame DEF Does, FrameRecord
<1>. QED  BY <1>1, <1>2, <1>3, <1>4, SimplyStages

LEMMA StartSubmodulesStages ==
  ASSUME Ready, Ready', Forest, StageInv, StartSubmodules PROVE StageInv'
<1>1. Does("open_module") /\ tokens' = tokens /\ nodes' = nodes /\ index' = index
  BY DEF StartSubmodules
<1>2. PICK frame : frame = [Frame EXCEPT !.todo = After, !.saved = submodules]
  OBVIOUS
<1>3. frame.todo = After /\ frame.start = Frame.start
  BY <1>1, <1>2, TopFrame DEF Does, FrameRecord
<1>4. stack' = [stack EXCEPT ![Top] = frame]
  BY <1>2 DEF StartSubmodules, Frame
<1>. QED  BY <1>1, <1>3, <1>4, SimplyStages

\* The same with other children.
LEMMA KidsStages ==
  ASSUME Ready, Ready', Forest, StageInv, NEW op \in {"relabel", "overwrite"}, Does(op),
         NEW kids, stack' = [stack EXCEPT ![Top] = [@ EXCEPT !.todo = After, !.kids = kids]],
         UNCHANGED <<Output, index>>
  PROVE  StageInv'
<1>1. tokens' = tokens /\ nodes' = nodes /\ index' = index
  BY DEF Output
<1>2. PICK frame : frame = [Frame EXCEPT !.todo = After, !.kids = kids]
  OBVIOUS
<1>3. frame.todo = After /\ frame.start = Frame.start
  BY <1>1, <1>2, TopFrame DEF Does, FrameRecord
<1>4. stack' = [stack EXCEPT ![Top] = frame]
  BY <1>2 DEF Frame
<1>. QED  BY <1>1, <1>3, <1>4, SimplyStages

LEMMA RenameStages == ASSUME Ready, Ready', Forest, StageInv, Rename PROVE StageInv'
<1>1. PICK kids :
        kids = [Frame.kids EXCEPT ![Len(Frame.kids)].field = Step.field]
  OBVIOUS
<1>2. stack' = [stack EXCEPT ![Top] = [@ EXCEPT !.todo = After, !.kids = kids]]
  BY <1>1 DEF Rename
<1>. QED  BY <1>2, KidsStages DEF Rename

LEMMA ReassignStages == ASSUME Ready, Ready', Forest, StageInv, Reassign PROVE StageInv'
<1>1. CASE Continue(After)
  BY <1>1, JustOnStages DEF Reassign
<1>2. ASSUME NEW i, stack' = [stack EXCEPT ![Top] =
                       [@ EXCEPT !.todo = After, !.kids = RemoveAt(Frame.kids, i)]]
      PROVE  StageInv'
  <2>1. PICK kids : kids = RemoveAt(Frame.kids, i)
    OBVIOUS
  <2>2. stack' = [stack EXCEPT ![Top] = [@ EXCEPT !.todo = After, !.kids = kids]]
    BY <1>2, <2>1
  <2>. QED  BY <2>2, KidsStages DEF Reassign
<1>. QED  BY <1>1, <1>2 DEF Reassign

LEMMA ReadLiteralStages == ASSUME Ready, Ready', Forest, StageInv, ReadLiteral PROVE StageInv'
<1>1. CASE Continue(After) /\ UNCHANGED <<Output, index>>
  BY <1>1, JustOnStages DEF ReadLiteral
<1>2. CASE outcome' = "LexerError"
  BY <1>2 DEF StageInv
<1>. QED  BY <1>1, <1>2 DEF ReadLiteral

LEMMA CheckStages == ASSUME Ready, Ready', Forest, StageInv, Check PROVE StageInv'
<1>1. ASSUME Holds(Step.test, Frame), Continue(After), UNCHANGED <<Output, index>>
      PROVE  StageInv'
  <2>1. Does("require")
    BY DEF Check
  <2>2. PICK stage : Staged(stage) /\ LeavesMade(Settled(stage))
    BY <2>1 DEF StageInv, Does
  <2>3. /\ Step.op = "require" /\ stage.todo # <<>> /\ Head(stage.todo) = Step
        /\ Tail(stage.todo) = After /\ Sees(stage.ahead)
    BY <2>1, <2>2, StageDoes
  <2>4. PICK ahead : ahead = IfPassed(Step.test, stage.ahead)
    OBVIOUS
  <2>5. Sees(ahead) /\ MayBe(ahead)
    <3>1. PICK seen, test, frame : seen = stage.ahead /\ test = Step.test /\ frame = Frame
      OBVIOUS
    <3>2. Sees(IfPassed(test, seen))
      BY <1>1, <2>3, <3>1, SeesPassed
    <3>. QED  BY <2>4, <3>1, <3>2, SeenMayBe
  <2>6. Going(stage, After, ahead) \in NextStages(stage)
    BY <2>3, <2>4, <2>5, NextTested
  <2>. QED  BY <1>1, <2>1, <2>2, <2>5, <2>6, StageGoesOn
<1>. QED  BY <1>1, RefuseStages DEF Check

LEMMA BranchStages == ASSUME Ready, Ready', Forest, StageInv, Branch PROVE StageInv'
<1>1. Does("choose") /\ UNCHANGED <<Output, index>>
  BY DEF Branch
<1>2. PICK stage : Staged(stage) /\ LeavesMade(Settled(stage))
  BY <1>1 DEF StageInv, Does
<1>3. /\ Step.op = "choose" /\ stage.todo # <<>> /\ Head(stage.todo) = Step
      /\ Tail(stage.todo) = After /\ Sees(stage.ahead)
  BY <1>1, <1>2, StageDoes
<1>4. PICK cases, frame, seen : cases = Step.cases /\ frame = Frame /\ seen = stage.ahead
  OBVIOUS
<1>5. ASSUME NEW i \in DOMAIN cases, Holds(cases[i].test, frame),
             \A j \in DOMAIN cases : Holds(cases[j].test, frame) => i <= j,
             Continue(cases[i].code \o After)
      PROVE  StageInv'
  <2>1. PICK failed : failed = {j \in DOMAIN cases : ~(i <= j)}
    OBVIOUS
  <2>2. PICK some : some = Except(seen, cases, failed)
    OBVIOUS
  <2>3. Sees(some)
    <3>1. \A j \in failed : ~Holds(cases[j].test, frame)
      BY <1>5, <2>1
    <3>. QED  BY <1>3, <1>4, <2>2, <3>1, SeesExcept
  <2>4. PICK ahead, test : test = cases[i].test /\ ahead = IfPassed(test, some)
    OBVIOUS
  <2>5. Sees(ahead) /\ MayBe(ahead)
    BY <1>5, <2>3, <2>4, SeesPassed, SeenMayBe
  <2>6. Going(stage, cases[i].code \o After, ahead) \in NextStages(stage)
    BY <1>3, <1>4, <2>1, <2>2, <2>4, <2>5, NextCase
  <2>. QED  BY <1>1, <1>2, <1>5, <2>5, <2>6, StageGoesOn
<1>6. ASSUME \A i \in DOMAIN cases : ~Holds(cases[i].test, frame), Continue(After)
      PROVE  StageInv'
  <2>1. \A test : test.test = "always" => Holds(test, frame)
    BY DEF Holds
  <2>2. \A i \in DOMAIN cases : cases[i].test.test # "always"
    BY <1>6, <2>1
  <2>3. PICK ahead : ahead = Except(seen, cases, DOMAIN cases)
    OBVIOUS
  <2>4. Sees(ahead) /\ MayBe(ahead)
    BY <1>3, <1>4, <1>6, <2>3, SeesExcept, SeenMayBe
  <2>5. Going(stage, After, ahead) \in NextStages(stage)
    BY <1>3, <1>4, <2>2, <2>3, <2>4, NextNoCase
  <2>. QED  BY <1>1, <1>2, <1>6, <2>4, <2>5, StageGoesOn
<1>. QED  BY <1>4, <1>5, <1>6 DEF Branch

LEMMA LoopStages == ASSUME Ready, Ready', Forest, StageInv, Loop PROVE StageInv'
<1>1. Does("while") /\ UNCHANGED <<Output, index>>
  BY DEF Loop
<1>2. PICK stage : Staged(stage) /\ LeavesMade(Settled(stage))
  BY <1>1 DEF StageInv, Does
<1>3. /\ Step.op = "while" /\ stage.todo # <<>> /\ Head(stage.todo) = Step
      /\ Tail(stage.todo) = After /\ stage.todo = Frame.todo /\ Sees(stage.ahead)
  BY <1>1, <1>2, StageDoes
<1>4. PICK test, frame, seen : test = Step.test /\ frame = Frame /\ seen = stage.ahead
  OBVIOUS
<1>5. ASSUME Holds(test, frame), Continue(Step.code \o Frame.todo) PROVE StageInv'
  <2>1. PICK ahead : ahead = IfPassed(test, seen)
    OBVIOUS
  <2>2. Sees(ahead) /\ MayBe(ahead)
    BY <1>3, <1>4, <1>5, <2>1, SeesPassed, SeenMayBe
  <2>3. Going(stage, Step.code \o Frame.todo, ahead) \in NextStages(stage)
    BY <1>3, <1>4, <2>1, <2>2, NextInLoop
  <2>. QED  BY <1>1, <1>2, <1>5, <2>2, <2>3, StageGoesOn
<1>6. ASSUME ~Holds(test, frame), Continue(After) PROVE StageInv'
  <2>1. PICK ahead : ahead = IfFailed(test, seen)
    OBVIOUS
  <2>2. Sees(ahead) /\ MayBe(ahead)
    BY <1>3, <1>4, <1>6, <2>1, SeesFailed, SeenMayBe
  <2>3. Going(stage, After, ahead) \in NextStages(stage)
    BY <1>3, <1>4, <2>1, <2>2, NextBehindLoop
  <2>. QED  BY <1>1, <1>2, <1>6, <2>2, <2>3, StageGoesOn
<1>. QED  BY <1>4, <1>5, <1>6 DEF Loop

LEMMA FixStartStages == ASSUME Ready, Ready', Forest, StageInv, FixStart PROVE StageInv'
<1>1. Does("start") /\ tokens' = tokens /\ nodes' = nodes /\ index' = index
  BY DEF FixStart, Output
<1>2. PICK stage : Staged(stage) /\ LeavesMade(Settled(stage))
  BY <1>1 DEF StageInv, Does
<1>3. /\ outcome = "running" /\ Step.op = "start" /\ stage.todo # <<>>
      /\ Head(stage.todo) = Step /\ Tail(stage.todo) = After /\ Sees(stage.ahead)
      /\ NextStages(stage) \subseteq Stages /\ Reads(stage)
  BY <1>1, <1>2, StageDoes
<1>4. ~stage.behind
  BY <1>3 DEF Reads
<1>5. PICK next : next = Stage(After, stage.ahead, FALSE, FALSE, {}, stage.promise)
  OBVIOUS
<1>6. next \in Stages
  BY <1>3, <1>5, NextFrom
<1>7. /\ next.todo = After /\ next.ahead = stage.ahead /\ next.fresh = FALSE
      /\ next.behind = FALSE /\ next.promise = stage.promise
  BY <1>5 DEF Stage
<1>8. PICK start, exact : start = index - Step.back /\ exact = (Step.back = 0 /\ Frame.kids = <<>>)
  OBVIOUS
<1>9. PICK frame : frame = [Frame EXCEPT !.todo = After, !.start = start, !.exact = exact]
  OBVIOUS
<1>10. frame.todo = After /\ stack' = [stack EXCEPT ![Top] = frame]
  BY <1>3, <1>8, <1>9, TopFrame DEF FixStart, Frame, FrameRecord
<1>11. Tells(next, frame.start)'
  BY <1>1, <1>3, <1>7, SeesSame DEF Tells
<1>12. Staged(next)'
  BY <1>2, <1>3, <1>6, <1>7, <1>10, <1>11, StageMoves
<1>13. LeavesMade(Settled(next))'
  <2>1. PICK n : n = Settled(stage)
    OBVIOUS
  <2>2. LeavesMade(n)'
    BY <1>1, <1>2, <2>1, LeavesStay
  <2>3. Settled(next)' = n
    BY <1>1, <1>4, <1>7, <2>1 DEF Settled
  <2>. QED  BY <2>2, <2>3
<1>. QED  BY <1>12, <1>13 DEF StageInv

-----------------------------------------------------------------------------
(* The steps that read                                                     *)

LEMMA LeavesMore ==
  ASSUME NEW n \in Nat, LeavesMade(n), ~MustBeLeaf(TokenType(n)), nodes' = nodes,
         tokens' = tokens
  PROVE  LeavesMade(n + 1)'
<1>1. LeavesMade(n)'
  BY LeavesStay
<1>2. TokenType(n)' = TokenType(n)
  BY DEF TokenType
<1>3. (n + 1) - 1 = n /\ \A token \in 0..n : token \in 0..(n - 1) \/ token = n
  OBVIOUS
<1>4. \A start : start \in 0..(n - 1) => start \in 0..n
  OBVIOUS
<1>. QED  BY <1>1, <1>2, <1>3, <1>4 DEF LeavesMade

LEMMA TokenStages ==
  ASSUME Ready, Ready', Forest, StageInv, NEW op \in {"advance", "take"}, Does(op),
         index < Len(tokens), index' = index + 1, Continue(After), UNCHANGED Output,
         op = "take" => Peek(0) \in Step.types
  PROVE  StageInv'
<1>1. outcome = "running" /\ tokens' = tokens /\ nodes' = nodes
  BY DEF Does, Output
<1>2. PICK stage : Staged(stage) /\ LeavesMade(Settled(stage))
  BY <1>1 DEF StageInv
<1>3. /\ Step.op = op /\ stage.todo # <<>> /\ Head(stage.todo) = Step
      /\ Tail(stage.todo) = After /\ Sees(stage.ahead) /\ Tells(stage, Frame.start)
      /\ NextStages(stage) \subseteq Stages /\ Reads(stage) /\ index \in Nat
  BY <1>2, StageDoes
<1>4. PICK n \in Nat : n = index
  BY <1>3
<1>5. stage.behind => Step.op = "take" /\ Step.types = {}
  BY <1>3 DEF Reads
<1>6. ~stage.behind
  BY <1>3, <1>5
<1>7. Settled(stage) = n
  BY <1>4, <1>6 DEF Settled
<1>8. Peek(0) = TokenType(n)
  BY <1>4, PeekToken DEF TokenType
<1>9. PICK frame : /\ stack' = [stack EXCEPT ![Top] = frame]
                   /\ frame.todo = After /\ frame.start = Frame.start
  BY <1>1, FrameGoesOn
<1>10. PICK seen : seen = stage.ahead
  OBVIOUS
<1>11. PICK ahead : ahead = Behind(seen)
  OBVIOUS
<1>12. Sees(ahead)'
  BY <1>1, <1>3, <1>10, <1>11, SeesBehind
<1>13. CASE op = "advance" /\ MayBeLeaf(seen)
  <2>1. PICK read : read = IF 1 \in DOMAIN seen THEN seen[1] ELSE {}
    OBVIOUS
  <2>2. PICK next : next = Stage(After, ahead, stage.fresh, TRUE, read, stage.promise)
    OBVIOUS
  <2>3. next \in Stages
    BY <1>3, <1>10, <1>11, <1>13, <2>1, <2>2, NextLeaf
  <2>4. /\ next.todo = After /\ next.ahead = ahead /\ next.fresh = stage.fresh
        /\ next.behind = TRUE /\ next.read = read /\ next.promise = stage.promise
    BY <2>2 DEF Stage
  <2>5. index' > 0 /\ index' - 1 = n
    BY <1>3, <1>4
  <2>6. Settled(next)' = n
    BY <2>4, <2>5 DEF Settled
  <2>7. read # {} => TokenType(index - 1)' \in read
    <3>1. TokenType(index - 1)' = TokenType(n)
      BY <1>1, <2>5 DEF TokenType
    <3>2. 1 \in DOMAIN seen => Peek(0) \in seen[1]
      BY <1>3, <1>10, SeesNext
    <3>. QED  BY <1>8, <2>1, <3>1, <3>2
  <2>8. stage.fresh => frame.start = n
    BY <1>3, <1>7, <1>9 DEF Tells
  <2>9. Tells(next, frame.start)'
    BY <1>12, <2>4, <2>5, <2>6, <2>7, <2>8 DEF Tells
  <2>10. Staged(next)'
    BY <1>1, <1>2, <1>9, <2>3, <2>4, <2>9, StageMoves
  <2>11. LeavesMade(n)'
    BY <1>1, <1>2, <1>7, LeavesStay
  <2>12. LeavesMade(Settled(next))'
    BY <2>6, <2>11
  <2>. QED  BY <2>10, <2>12 DEF StageInv
<1>14. CASE op = "take" \/ ~MayBeLeaf(seen)
  <2>1. ~MustBeLeaf(TokenType(n))
    <3>1. CASE op = "take"
      <4>1. \A type \in Step.types : ~MustBeLeaf(type)
        BY <1>3, <3>1 DEF Reads
      <4>. QED  BY <1>8, <3>1, <4>1
    <3>2. CASE ~MayBeLeaf(seen)
      <4>1. 1 \in DOMAIN seen /\ \A type \in seen[1] : ~MustBeLeaf(type)
        BY <3>2 DEF MayBeLeaf
      <4>2. Peek(0) \in seen[1]
        BY <1>3, <1>10, <4>1, SeesNext
      <4>. QED  BY <1>8, <4>1, <4>2
    <3>. QED  BY <1>14, <3>1, <3>2
  <2>2. PICK next : next = Stage(After, ahead, FALSE, FALSE, {}, stage.promise)
    OBVIOUS
  <2>3. next \in Stages
    <3>1. op = "take" => Step.types # {}
      OBVIOUS
    <3>2. op = "advance" => ~MayBeLeaf(stage.ahead)
      BY <1>10, <1>14
    <3>. QED  BY <1>3, <1>10, <1>11, <2>2, <3>1, <3>2, NextRead
  <2>4. /\ next.todo = After /\ next.ahead = ahead /\ next.fresh = FALSE
        /\ next.behind = FALSE /\ next.promise = stage.promise
    BY <2>2 DEF Stage
  <2>5. Tells(next, frame.start)'
    BY <1>12, <2>4 DEF Tells
  <2>6. Staged(next)'
    BY <1>1, <1>2, <1>9, <2>3, <2>4, <2>5, StageMoves
  <2>7. LeavesMade(n + 1)'
    BY <1>1, <1>2, <1>7, <2>1, LeavesMore
  <2>8. Settled(next)' = n + 1
    BY <1>4, <2>4 DEF Settled
  <2>9. LeavesMade(Settled(next))'
    BY <2>7, <2>8
  <2>. QED  BY <2>6, <2>9 DEF StageInv
<1>. QED  BY <1>13, <1>14

LEMMA ReadAnyStages == ASSUME Ready, Ready', Forest, StageInv, ReadAny PROVE StageInv'
  BY TokenStages DEF ReadAny

LEMMA ReadTypeStages == ASSUME Ready, Ready', Forest, StageInv, ReadType PROVE StageInv'
<1>1. ASSUME Peek(0) \in Step.types, index' = index + 1, Continue(After), UNCHANGED Output
      PROVE  StageInv'
  <2>1. "past the end" \notin Step.types
    BY TopStep, CodeAssumption DEF ReadType
  <2>2. index < Len(tokens)
    BY <1>1, <2>1, PeekToken
  <2>. QED  BY <1>1, <2>2, TokenStages DEF ReadType
<1>. QED  BY <1>1, RefuseStages DEF ReadType

-----------------------------------------------------------------------------
(* The steps that make a node or return one                                *)

LEMMA LeafKinds == \A type : LeafOf(type) \subseteq Leaves
  BY DEF LeafOf, Leaves

\* A node that is made of no name or literal.
LEMMA LeavesGrow ==
  ASSUME Ready, NEW node \in NodeRecord, nodes' = Append(nodes, node), tokens' = tokens,
         node.type \notin Leaves, NEW n, LeavesMade(n)
  PROVE  LeavesMade(n)'
<1>1. /\ DOMAIN nodes' = 1..NewId /\ DOMAIN nodes = 1..(NewId - 1) /\ nodes'[NewId] = node
      /\ \A i \in DOMAIN nodes : nodes'[i] = nodes[i]
      /\ NewId \in Nat
  BY OneMoreNode, NodesAndIds
<1>2. PICK new \in Nat : new = NewId
  BY <1>1
<1>3. /\ DOMAIN nodes' = DOMAIN nodes \cup {new} /\ new \notin DOMAIN nodes
      /\ nodes'[new] = node
  <2>1. new >= 1
    BY <1>2, NodesAndIds DEF NewId
  <2>. QED  BY <1>1, <1>2, <2>1
<1>4. \A token : LeafType(token)' = LeafType(token) /\ TokenType(token)' = TokenType(token)
                 /\ LeafType(token) \subseteq Leaves
  BY LeafKinds DEF LeafType, TokenType
<1>5. \A token : ~IsLeafOf(new, token)'
  BY <1>3, <1>4 DEF IsLeafOf
<1>6. \A id \in DOMAIN nodes : \A token : IsLeafOf(id, token)' <=> IsLeafOf(id, token)
  BY <1>1, <1>4 DEF IsLeafOf
<1>7. ASSUME NEW token, OneLeaf(token) PROVE OneLeaf(token)'
  <2>1. PICK id \in DOMAIN nodes :
          \A other \in DOMAIN nodes : IsLeafOf(other, token) <=> other = id
    BY <1>7 DEF OneLeaf
  <2>2. id \in DOMAIN nodes' /\ id # new
    BY <1>3
  <2>3. \A other \in DOMAIN nodes' : IsLeafOf(other, token)' <=> other = id
    BY <1>3, <1>5, <1>6, <2>1, <2>2
  <2>. QED  BY <2>2, <2>3 DEF OneLeaf
<1>8. \A id \in DOMAIN nodes' : nodes'[id].type \in Leaves =>
        nodes'[id].start \in 0..(n - 1) /\ nodes'[id].type \in LeafType(nodes'[id].start)
  BY <1>1, <1>3, <1>4 DEF LeavesMade
<1>. QED  BY <1>4, <1>7, <1>8 DEF LeavesMade, LeafType, TokenType

\* The node of the token consumed last.
LEMMA LeafMade ==
  ASSUME Ready, NEW node \in NodeRecord, nodes' = Append(nodes, node), tokens' = tokens,
         NEW n \in Nat, node.start = n, node.type \in LeafType(n), LeavesMade(n)
  PROVE  LeavesMade(n + 1)'
<1>1. /\ DOMAIN nodes' = 1..NewId /\ DOMAIN nodes = 1..(NewId - 1) /\ nodes'[NewId] = node
      /\ \A i \in DOMAIN nodes : nodes'[i] = nodes[i]
      /\ NewId \in Nat
  BY OneMoreNode, NodesAndIds
<1>2. PICK new \in Nat : new = NewId
  BY <1>1
<1>3. /\ DOMAIN nodes' = DOMAIN nodes \cup {new} /\ new \notin DOMAIN nodes
      /\ nodes'[new] = node
  <2>1. new >= 1
    BY <1>2, NodesAndIds DEF NewId
  <2>. QED  BY <1>1, <1>2, <2>1
<1>4. \A token : LeafType(token)' = LeafType(token) /\ TokenType(token)' = TokenType(token)
                 /\ LeafType(token) \subseteq Leaves
  BY LeafKinds DEF LeafType, TokenType
<1>5. \A token : IsLeafOf(new, token)' => token = n
  BY <1>3 DEF IsLeafOf
<1>6. \A id \in DOMAIN nodes : \A token : IsLeafOf(id, token)' <=> IsLeafOf(id, token)
  BY <1>1, <1>4 DEF IsLeafOf
<1>7. ASSUME NEW token \in 0..(n - 1), OneLeaf(token) PROVE OneLeaf(token)'
  <2>1. PICK id \in DOMAIN nodes :
          \A other \in DOMAIN nodes : IsLeafOf(other, token) <=> other = id
    BY <1>7 DEF OneLeaf
  <2>2. id \in DOMAIN nodes' /\ id # new /\ token # n
    BY <1>3
  <2>3. \A other \in DOMAIN nodes' : IsLeafOf(other, token)' <=> other = id
    BY <1>3, <1>5, <1>6, <2>1, <2>2
  <2>. QED  BY <2>2, <2>3 DEF OneLeaf
<1>8. OneLeaf(n)'
  <2>1. IsLeafOf(new, n)'
    BY <1>3, <1>4 DEF IsLeafOf
  <2>2. ASSUME NEW id \in DOMAIN nodes PROVE ~IsLeafOf(id, n)
    <3>1. ASSUME IsLeafOf(id, n) PROVE FALSE
      <4>1. nodes[id].type \in Leaves /\ nodes[id].start = n
        BY <1>4, <3>1 DEF IsLeafOf
      <4>2. nodes[id].start \in 0..(n - 1)
        BY <4>1 DEF LeavesMade
      <4>. QED  BY <4>1, <4>2
    <3>. QED  BY <3>1
  <2>3. new \in DOMAIN nodes' /\ \A other \in DOMAIN nodes' : IsLeafOf(other, n)' <=> other = new
    BY <1>3, <1>6, <2>1, <2>2
  <2>. QED  BY <2>3 DEF OneLeaf
<1>9. (n + 1) - 1 = n /\ n \in 0..n /\ \A token \in 0..(n - 1) : token \in 0..n
  OBVIOUS
<1>10. \A token \in 0..n : token \in 0..(n - 1) \/ token = n
  OBVIOUS
<1>11. \A id \in DOMAIN nodes' : nodes'[id].type \in Leaves =>
         nodes'[id].start \in 0..n /\ nodes'[id].type \in LeafType(nodes'[id].start)
  BY <1>1, <1>3, <1>4, <1>9 DEF LeavesMade
<1>12. \A token \in 0..n : MustBeLeaf(TokenType(token)') => OneLeaf(token)'
  BY <1>4, <1>7, <1>8, <1>10 DEF LeavesMade
<1>. QED  BY <1>9, <1>11, <1>12 DEF LeavesMade, LeafType, TokenType

\* The node of the innermost call is one.
LEMMA NodeThere ==
  ASSUME Ready, outcome = "running", NEW type \in NodeTypes, NEW kids \in Seq(Kid),
         NEW node, node = NodeOf(type, kids)
  PROVE  node \in NodeRecord /\ node.type = type /\ node.start = Frame.start
<1>1. Frame.start \in Int /\ Frame.end \in Int /\ Frame.exact \in BOOLEAN /\ index \in Int
  BY TopFrame, TokensThere DEF FrameRecord
<1>2. PICK end \in Int : end = IF Frame.end = NoToken THEN index ELSE Frame.end
  BY <1>1
<1>3. PICK exact \in BOOLEAN : exact = (Frame.exact /\ Frame.end = NoToken)
  OBVIOUS
<1>4. node = [type |-> type, start |-> Frame.start, kids |-> kids, end |-> end,
              exact |-> exact]
  BY <1>2, <1>3, Zenon DEF NodeOf
<1>. QED  BY <1>1, <1>4 DEF NodeRecord

LEMMA MakeOperandStages == ASSUME Ready, Ready', Forest, StageInv, MakeOperand PROVE StageInv'
<1>1. Does("wrap") /\ tokens' = tokens /\ index' = index
  BY DEF MakeOperand
<1>2. PICK stage : Staged(stage) /\ LeavesMade(Settled(stage))
  BY <1>1 DEF StageInv, Does
<1>3. /\ outcome = "running" /\ Step \in Code /\ Step.op = "wrap" /\ stage.todo # <<>>
      /\ Head(stage.todo) = Step /\ Tail(stage.todo) = After /\ Sees(stage.ahead)
      /\ MayBe(stage.ahead) /\ NextStages(stage) \subseteq Stages /\ Reads(stage)
      /\ Tells(stage, Frame.start)
  BY <1>1, <1>2, StageDoes
<1>4. ~stage.behind /\ Step.type \notin Leaves
  BY <1>3 DEF Reads
<1>5. PICK type \in NodeTypes, field \in Fields : type = Step.type /\ field = Step.first
  BY <1>3, CodeAssumption
<1>6. PICK kids \in Seq(Kid) : kids = Frame.kids /\ kids # <<>>
  BY <1>3, TopFrame DEF MakeOperand, FrameRecord
<1>7. PICK renamed : renamed = [kids EXCEPT ![1].field = field]
  OBVIOUS
<1>8. renamed \in Seq(Kid)
  <2>1. 1 \in 1..Len(kids) /\ kids[1] \in Kid
    BY <1>6, EmptySeq
  <2>2. PICK kid : kid = [kids[1] EXCEPT !.field = field]
    OBVIOUS
  <2>3. kid \in Kid
    BY <2>1, <2>2 DEF Kid
  <2>4. renamed = [kids EXCEPT ![1] = kid]
    BY <1>7, <2>2
  <2>. QED  BY <2>1, <2>3, <2>4, ExceptSeq
<1>9. PICK node : node = NodeOf(type, renamed)
  OBVIOUS
<1>10. node \in NodeRecord /\ node.type \notin Leaves
  BY <1>3, <1>4, <1>5, <1>8, <1>9, NodeThere
<1>11. nodes' = Append(nodes, node)
  BY <1>5, <1>6, <1>7, <1>9 DEF MakeOperand
<1>12. PICK only : only = <<[field |-> Frame.kids[1].field, id |-> NewId]>>
  OBVIOUS
<1>13. PICK frame : frame = [Frame EXCEPT !.todo = After, !.end = NoToken, !.kids = only]
  OBVIOUS
<1>14. /\ frame.todo = After /\ frame.start = Frame.start
       /\ stack' = [stack EXCEPT ![Top] = frame]
  BY <1>3, <1>12, <1>13, TopFrame DEF MakeOperand, Frame, FrameRecord
<1>15. PICK next : next = Going(stage, After, stage.ahead)
  OBVIOUS
<1>16. next \in Stages
  BY <1>3, <1>15, NextSimply
<1>17. /\ next.todo = After /\ next.ahead = stage.ahead /\ next.fresh = stage.fresh
       /\ next.behind = stage.behind /\ next.promise = stage.promise
  BY <1>15, StageParts DEF Going
<1>18. PICK n : n = Settled(stage)
  OBVIOUS
<1>19. Settled(next)' = n
  BY <1>1, <1>17, <1>18 DEF Settled
<1>20. Tells(next, frame.start)'
  BY <1>1, <1>3, <1>4, <1>14, <1>17, <1>18, <1>19, SeesSame DEF Tells
<1>21. Staged(next)'
  BY <1>2, <1>3, <1>14, <1>16, <1>17, <1>20, StageMoves
<1>22. LeavesMade(n)'
  BY <1>1, <1>2, <1>10, <1>11, <1>18, LeavesGrow
<1>23. LeavesMade(Settled(next))'
  BY <1>19, <1>22
<1>. QED  BY <1>21, <1>23 DEF StageInv

\* The call that waits for it goes on.
LEMMA ResultStages ==
  ASSUME Ready, Forest, outcome = "running", tokens' = tokens, index' = index,
         NEW id, Deliver(id), NEW stage, Staged(stage), Sees(stage.ahead),
         Keeps(stage.promise, stage.ahead), LeavesMade(index)'
  PROVE  StageInv'
<1>1. PICK k \in 1..(Top - 1) :
        stack' = [SubSeq(stack, 1, k) EXCEPT ![k].kids =
                    Append(@, [field |-> stack[k + 1].field, id |-> id])]
  BY DEF Deliver
<1>2. /\ stack \in Seq(FrameRecord) /\ Len(stack) = Top /\ Top \in Nat
      /\ k \in 1..Top /\ k < Top
  BY CallFacts
<1>3. PICK base : base = SubSeq(stack, 1, k)
  OBVIOUS
<1>4. base \in Seq(FrameRecord) /\ Len(base) = k /\ \A j \in 1..k : base[j] = stack[j]
  BY <1>2, <1>3, SubSeqProperties
<1>5. PICK frame : frame = [base[k] EXCEPT !.kids =
                              Append(base[k].kids, [field |-> stack[k + 1].field, id |-> id])]
  OBVIOUS
<1>6. DOMAIN base = 1..k /\ k \in 1..k /\ base[k] \in FrameRecord
  BY <1>2, <1>4
<1>7. frame.todo = stack[k].todo /\ frame.start = stack[k].start
  BY <1>4, <1>5, <1>6 DEF FrameRecord
<1>8. stack' = [base EXCEPT ![k] = frame]
  BY <1>1, <1>3, <1>5, <1>6
<1>9. /\ DOMAIN stack' = 1..k /\ stack'[k] = frame
      /\ \A j \in 1..(k - 1) : stack'[j] = stack[j]
  BY <1>4, <1>6, <1>8
<1>10. Len(stack') = k
  <2>1. Len([base EXCEPT ![k] = frame]) = Len(base)
    BY <1>2, <1>4, <1>6
  <2>. QED  BY <1>4, <1>8, <2>1
<1>11. Top' = k /\ Frame' = frame
  BY <1>9, <1>10 DEF Top, Frame
<1>12. PICK promise : promise = IF k = Top - 1 THEN stage.promise ELSE {}
  OBVIOUS
<1>13. PICK next : next = Waiting(stack[k].todo, promise)
  OBVIOUS
<1>14. Await(Top - 1, stage.promise) /\ Top - 1 > 0
  BY <1>2 DEF Staged
<1>15. next \in Stages
  BY <1>2, <1>12, <1>13, <1>14 DEF Await
<1>16. /\ next.todo = stack[k].todo /\ next.ahead = Told(promise) /\ next.fresh = FALSE
       /\ next.behind = FALSE /\ next.promise = {}
  BY <1>13 DEF Waiting, Stage
<1>17. Sees(Told(promise))
  <2>1. CASE promise = {}
    <3>1. DOMAIN <<>> = {}
      OBVIOUS
    <3>. QED  BY <2>1, <3>1 DEF Told, Sees
  <2>2. CASE promise # {}
    <3>1. promise = stage.promise
      BY <1>12, <2>2
    <3>2. 1 \in DOMAIN stage.ahead /\ stage.ahead[1] \subseteq promise
      BY <2>2, <3>1 DEF Keeps
    <3>3. Peek(0) \in promise
      BY <3>2, SeesNext
    <3>4. PICK told : told = <<promise>>
      OBVIOUS
    <3>5. DOMAIN told = {1} /\ told[1] = promise
      BY <3>4
    <3>6. Sees(told)
      BY <3>3, <3>5 DEF Sees
    <3>. QED  BY <2>2, <3>4, <3>6 DEF Told
  <2>. QED  BY <2>1, <2>2
<1>18. Tells(next, frame.start)'
  <2>1. PICK told : told = Told(promise)
    OBVIOUS
  <2>2. Sees(told)'
    BY <1>17, <2>1, SeesSame
  <2>. QED  BY <1>16, <2>1, <2>2 DEF Tells
<1>19. Await(k - 1, {})'
  <2>1. \A j \in 1..(k - 1) : j \in 1..(Top - 1) /\ j # Top - 1
    BY <1>2
  <2>2. k - 1 > 0 => k - 1 \in 1..(k - 1)
    BY <1>2
  <2>. QED  BY <1>9, <1>14, <2>1, <2>2 DEF Await
<1>20. Staged(next)'
  BY <1>7, <1>11, <1>15, <1>16, <1>18, <1>19 DEF Staged
<1>21. LeavesMade(Settled(next))'
  <2>1. Settled(next)' = index'
    BY <1>16 DEF Settled
  <2>. QED  BY <2>1
<1>. QED  BY <1>20, <1>21 DEF StageInv

LEMMA HandOnStages == ASSUME Ready, Ready', Forest, StageInv, HandOn PROVE StageInv'
<1>1. Does("return") /\ tokens' = tokens /\ index' = index /\ nodes' = nodes
  BY DEF HandOn, Output
<1>2. PICK stage : Staged(stage) /\ LeavesMade(Settled(stage))
  BY <1>1 DEF StageInv, Does
<1>3. /\ outcome = "running" /\ Step.op = "return" /\ stage.todo # <<>>
      /\ Head(stage.todo) = Step /\ Sees(stage.ahead) /\ Reads(stage)
  BY <1>1, <1>2, StageDoes
<1>4. ~stage.behind /\ Keeps(stage.promise, stage.ahead)
  BY <1>3 DEF Reads
<1>5. PICK n : n = index
  OBVIOUS
<1>6. LeavesMade(n)'
  BY <1>1, <1>2, <1>4, <1>5, LeavesStay DEF Settled
<1>7. LeavesMade(index)'
  BY <1>1, <1>5, <1>6
<1>8. PICK id : id = Frame.kids[1].id
  OBVIOUS
<1>9. Deliver(id)
  BY <1>8 DEF HandOn
<1>. QED  BY <1>1, <1>2, <1>3, <1>4, <1>7, <1>9, ResultStages

LEMMA MakeNodeStages == ASSUME Ready, Ready', Forest, StageInv, MakeNode PROVE StageInv'
<1>1. Does("make") /\ tokens' = tokens /\ index' = index
  BY DEF MakeNode
<1>2. PICK stage : Staged(stage) /\ LeavesMade(Settled(stage))
  BY <1>1 DEF StageInv, Does
<1>3. /\ outcome = "running" /\ Step \in Code /\ Step.op = "make" /\ stage.todo # <<>>
      /\ Head(stage.todo) = Step /\ Sees(stage.ahead) /\ Reads(stage)
      /\ Tells(stage, Frame.start) /\ index \in Nat
  BY <1>1, <1>2, StageDoes
<1>4. PICK type \in NodeTypes : type = Step.type
  BY <1>3, CodeAssumption
<1>5. PICK kids \in Seq(Kid) : kids = Frame.kids
  BY <1>3, TopFrame DEF FrameRecord
<1>6. PICK node : node = NodeOf(type, kids)
  OBVIOUS
<1>7. /\ node \in NodeRecord /\ node.type = type /\ node.start = Frame.start
      /\ nodes' = Append(nodes, node)
  BY <1>3, <1>4, <1>5, <1>6, NodeThere DEF MakeNode
<1>8. /\ Keeps(stage.promise, stage.ahead)
      /\ stage.behind => /\ stage.fresh /\ stage.read # {}
                         /\ \A one \in stage.read : type \in LeafOf(one)
      /\ ~stage.behind => type \notin Leaves
  BY <1>3, <1>4 DEF Reads
<1>9. PICK here \in Nat : here = index
  BY <1>3
<1>10. LeavesMade(here)'
  <2>1. CASE stage.behind
    <3>1. PICK n \in Nat : n = here - 1 /\ n + 1 = here
      BY <1>3, <1>9, <2>1 DEF Tells
    <3>2. Settled(stage) = n
      BY <1>9, <2>1, <3>1 DEF Settled
    <3>3. LeavesMade(n) /\ node.start = n
      BY <1>2, <1>3, <1>7, <1>8, <2>1, <3>2 DEF Tells
    <3>4. TokenType(n) \in stage.read
      BY <1>3, <1>8, <1>9, <2>1, <3>1 DEF Tells
    <3>5. node.type \in LeafType(n)
      BY <1>7, <1>8, <2>1, <3>4 DEF LeafType
    <3>. QED  BY <1>1, <1>7, <3>1, <3>3, <3>5, LeafMade
  <2>2. CASE ~stage.behind
    <3>1. LeavesMade(here)
      BY <1>2, <1>9, <2>2 DEF Settled
    <3>. QED  BY <1>1, <1>7, <1>8, <2>2, <3>1, LeavesGrow
  <2>. QED  BY <2>1, <2>2
<1>11. LeavesMade(index)'
  BY <1>1, <1>9, <1>10
<1>12. PICK id : id = NewId
  OBVIOUS
<1>13. Deliver(id)
  BY <1>12 DEF MakeNode
<1>. QED  BY <1>1, <1>2, <1>3, <1>8, <1>11, <1>13, ResultStages

\* When the file is accepted, no token is left that could be a name or a literal.
LEMMA LastToken ==
  ASSUME Ready, Peek(0) = "end"
  PROVE  index = Len(tokens) - 1 /\ TokenType(index) = "end"
<1>1. index < Len(tokens) /\ tokens[index + 1].type = "end"
  BY PeekToken
<1>2. tokens \in Texts /\ Len(tokens) \in Nat /\ index \in Nat
  BY TokensThere DEF Ready, TypeOK
<1>3. index + 1 \notin 1..(Len(tokens) - 1)
  BY <1>1, <1>2, EndAssumption
<1>4. index = Len(tokens) - 1
  BY <1>1, <1>2, <1>3
<1>. QED  BY <1>1, <1>4 DEF TokenType

LEMMA AllMade ==
  ASSUME LeavesMade(Len(tokens) - 1), Len(tokens) \in Nat,
         TokenType(Len(tokens) - 1) = "end"
  PROVE  NothingSkipped
<1>1. ASSUME NEW token \in 0..(Len(tokens) - 1), LeafType(token) # {},
             TokenType(token) # ".0"
      PROVE  Cardinality({id \in NodeIds : nodes[id].start = token
                                           /\ nodes[id].type \in LeafType(token)}) = 1
  <2>1. MustBeLeaf(TokenType(token))
    BY <1>1 DEF MustBeLeaf, LeafType
  <2>2. token # Len(tokens) - 1
    BY <2>1 DEF MustBeLeaf, LeafOf
  <2>3. token \in 0..((Len(tokens) - 1) - 1)
    BY <2>2
  <2>4. OneLeaf(token)
    BY <2>1, <2>3 DEF LeavesMade
  <2>5. PICK id \in DOMAIN nodes :
          \A other \in DOMAIN nodes : IsLeafOf(other, token) <=> other = id
    BY <2>4 DEF OneLeaf
  <2>6. {other \in NodeIds : nodes[other].start = token
                             /\ nodes[other].type \in LeafType(token)} = {id}
    BY <2>5 DEF NodeIds, IsLeafOf
  <2>. QED  BY <2>6, FS_Singleton
<1>2. \A id \in NodeIds : nodes[id].type \in Leaves =>
        nodes[id].type \in LeafType(nodes[id].start)
  BY DEF LeavesMade, NodeIds
<1>. QED  BY <1>1, <1>2 DEF NothingSkipped

\* The same behind a step.
AllMadeNow == LeavesMade(Len(tokens) - 1) /\ Len(tokens) \in Nat
              /\ TokenType(Len(tokens) - 1) = "end" => NothingSkipped
LEMMA AllMadeNext == AllMadeNow'
<1>1. AllMadeNow
  BY AllMade DEF AllMadeNow
<1>. QED  BY <1>1, PTL

LEMMA MakeModuleNodeStages ==
  ASSUME Ready, Forest, StageInv, MakeModuleNode
  PROVE  StageInv' /\ NothingSkipped'
<1>1. Does("make_root") /\ tokens' = tokens /\ index' = index
  BY DEF MakeModuleNode
<1>2. PICK stage : Staged(stage) /\ LeavesMade(Settled(stage))
  BY <1>1 DEF StageInv, Does
<1>3. /\ outcome = "running" /\ Step \in Code /\ Step.op = "make_root" /\ stage.todo # <<>>
      /\ Head(stage.todo) = Step /\ Sees(stage.ahead) /\ Reads(stage)
  BY <1>1, <1>2, StageDoes
<1>4. PICK type \in NodeTypes : type = Step.type
  BY <1>3, CodeAssumption
<1>5. /\ type \notin Leaves /\ ~stage.behind
      /\ 1 \in DOMAIN stage.ahead /\ stage.ahead[1] \subseteq {"end"}
  BY <1>3, <1>4 DEF Reads
<1>6. PICK kids \in Seq(Kid) : kids = Frame.kids
  BY <1>3, TopFrame DEF FrameRecord
<1>7. PICK node : node = NodeOf(type, kids)
  OBVIOUS
<1>8. /\ node \in NodeRecord /\ node.type = type /\ nodes' = Append(nodes, node)
  BY <1>3, <1>4, <1>6, <1>7, NodeThere DEF MakeModuleNode
<1>9. Peek(0) = "end"
  BY <1>3, <1>5, SeesNext
<1>10. index = Len(tokens) - 1 /\ TokenType(index) = "end" /\ Len(tokens) \in Nat
  BY <1>9, LastToken, TokensThere
<1>11. PICK n : n = index
  OBVIOUS
<1>12. LeavesMade(n)'
  BY <1>1, <1>2, <1>5, <1>8, <1>11, LeavesGrow DEF Settled
<1>13. LeavesMade(Len(tokens) - 1)'
  BY <1>1, <1>10, <1>11, <1>12
<1>14. TokenType(Len(tokens) - 1)' = "end" /\ Len(tokens') \in Nat
  BY <1>1, <1>10 DEF TokenType
<1>15. NothingSkipped'
  BY <1>13, <1>14, AllMadeNext DEF AllMadeNow
<1>16. StageInv'
  BY DEF MakeModuleNode, StageInv
<1>. QED  BY <1>15, <1>16

-----------------------------------------------------------------------------
(* The steps that call                                                     *)

\* Calls of a method are at the stages at which it begins.
LEMMA StagesPushed ==
  ASSUME NEW rule, NEW start, NEW base, NEW b, NEW calls, Pushed(base, b, calls, rule, start),
         NEW ahead, NEW fresh, NEW promise, Sees(ahead), fresh => start = index,
         StagesIn(rule, ahead, fresh, promise) \subseteq Stages, OneCall(rule, promise),
         \A k \in 1..b : k # b => Waiting(base[k].todo, {}) \in Stages,
         b > 0 => Waiting(base[b].todo, promise) \in Stages
  PROVE  \E stage : Staged(stage) /\ ~stage.behind
<1>1. PICK c \in Nat \ {0} : c = Len(calls)
  BY DEF Pushed
<1>2. /\ b \in Nat /\ c = Len(Opening[rule]) /\ Top = b + c
      /\ \A k \in 1..b : stack[k] = base[k]
      /\ \A i \in 1..c : /\ stack[b + i] = calls[i] /\ calls[i].start = start
                         /\ calls[i].todo = Opening[rule][i].todo
  BY <1>1 DEF Pushed
<1>3. c \in 1..c
  BY <1>1
<1>4. PICK todo : todo = Opening[rule][c].todo
  OBVIOUS
<1>5. PICK stage : stage = Stage(todo, ahead, fresh, FALSE, {}, promise)
  OBVIOUS
<1>6. stage \in Stages
  <2>1. stage \in StagesIn(rule, ahead, fresh, promise)
    BY <1>2, <1>3, <1>4, <1>5 DEF StagesIn
  <2>. QED  BY <2>1
<1>7. /\ stage.todo = todo /\ stage.ahead = ahead /\ stage.fresh = fresh
      /\ stage.behind = FALSE /\ stage.promise = promise
  BY <1>5 DEF Stage
<1>8. Frame.todo = todo /\ Frame.start = start
  BY <1>2, <1>3, <1>4 DEF Frame
<1>9. Tells(stage, start)
  BY <1>7 DEF Tells, Settled
<1>10. c > 1 => promise = {}
  BY <1>1, <1>2 DEF OneCall
<1>11. ASSUME NEW i \in 1..c, i # c PROVE Waiting(calls[i].todo, {}) \in Stages
  <2>1. Waiting(Opening[rule][i].todo, {}) \in StagesIn(rule, ahead, fresh, promise)
    BY <1>2, <1>11 DEF StagesIn
  <2>. QED  BY <1>2, <2>1
<1>12. Await(Top - 1, promise)
  <2>1. PICK t \in Nat : t = Top - 1 /\ t = b + (c - 1)
    BY <1>1, <1>2
  <2>2. CASE c = 1
    <3>1. t = b /\ (b > 0 => b \in 1..b)
      BY <1>2, <2>1, <2>2
    <3>. QED  BY <1>2, <2>1, <3>1 DEF Await
  <2>3. CASE c > 1
    <3>1. promise = {}
      BY <1>10, <2>3
    <3>2. ASSUME NEW k \in 1..t PROVE Waiting(stack[k].todo, {}) \in Stages
      <4>1. CASE k \in 1..b
        <5>1. k = b => b > 0
          BY <1>2, <4>1
        <5>. QED  BY <1>2, <3>1, <4>1, <5>1
      <4>2. CASE k \notin 1..b
        <5>1. PICK i \in 1..c : i = k - b /\ i # c /\ k = b + i
          BY <1>1, <1>2, <2>1, <4>2
        <5>. QED  BY <1>2, <1>11, <5>1
      <4>. QED  BY <4>1, <4>2
    <3>3. t > 0 => t \in 1..t
      BY <2>1
    <3>. QED  BY <2>1, <3>1, <3>2, <3>3 DEF Await
  <2>. QED  BY <1>1, <2>2, <2>3
<1>13. Staged(stage)
  BY <1>6, <1>7, <1>8, <1>9, <1>12 DEF Staged
<1>. QED  BY <1>7, <1>13

\* The same behind a step.
AllStaged == \A rule, start, base, b, calls, ahead, fresh, promise :
  /\ Pushed(base, b, calls, rule, start) /\ Sees(ahead) /\ (fresh => start = index)
  /\ StagesIn(rule, ahead, fresh, promise) \subseteq Stages /\ OneCall(rule, promise)
  /\ \A k \in 1..b : k # b => Waiting(base[k].todo, {}) \in Stages
  /\ b > 0 => Waiting(base[b].todo, promise) \in Stages
  => \E stage : Staged(stage) /\ ~stage.behind
LEMMA StagesPushedNext == AllStaged'
<1>1. AllStaged
  BY StagesPushed DEF AllStaged
<1>. QED  BY <1>1, PTL

\* Calls begin, and no node is made.
LEMMA StagesBegin ==
  ASSUME NEW rule, NEW start, NEW base, NEW b, NEW calls, Pushed(base, b, calls, rule, start)',
         NEW ahead, NEW fresh, NEW promise, Sees(ahead), fresh => start = index,
         StagesIn(rule, ahead, fresh, promise) \subseteq Stages, OneCall(rule, promise),
         \A k \in 1..b : k # b => Waiting(base[k].todo, {}) \in Stages,
         b > 0 => Waiting(base[b].todo, promise) \in Stages,
         tokens' = tokens, index' = index, nodes' = nodes, LeavesMade(index)
  PROVE  StageInv'
<1>1. Sees(ahead)' /\ (fresh => start = index')
  BY SeesSame
<1>2. PICK stage : Staged(stage)' /\ ~stage.behind
  BY <1>1, StagesPushedNext DEF AllStaged
<1>3. PICK n : n = index
  OBVIOUS
<1>4. LeavesMade(n)'
  BY <1>3, LeavesStay
<1>5. LeavesMade(Settled(stage))'
  BY <1>2, <1>3, <1>4 DEF Settled
<1>. QED  BY <1>2, <1>5 DEF StageInv

LEMMA CallStages == ASSUME Ready, Forest, StageInv, Call PROVE StageInv'
<1>1. Does("parse") /\ tokens' = tokens /\ index' = index /\ nodes' = nodes
  BY DEF Call, Output
<1>2. PICK stage : Staged(stage) /\ LeavesMade(Settled(stage))
  BY <1>1 DEF StageInv, Does
<1>3. /\ outcome = "running" /\ Step \in Code /\ Step.op = "parse" /\ stage.todo # <<>>
      /\ Head(stage.todo) = Step /\ Tail(stage.todo) = After /\ Sees(stage.ahead)
      /\ NextStages(stage) \subseteq Stages /\ Reads(stage) /\ Tells(stage, Frame.start)
      /\ Top \in 1..Top /\ Frame = stack[Top] /\ Frame \in FrameRecord
      /\ After \in Seq(Code) /\ Frame.start \in Int /\ index \in Nat
  BY <1>1, <1>2, StageDoes
<1>4. PICK rule \in Rules, field \in Fields, own \in BOOLEAN :
        rule = Step.rule /\ field = Step.field /\ own = Step.own
  BY <1>3, CodeAssumption
<1>5. PICK ahead, promise : ahead = stage.ahead /\ promise = Promise(Step, stage.ahead)
  OBVIOUS
<1>6. PICK fresh \in BOOLEAN : fresh = (own \/ stage.fresh)
  OBVIOUS
<1>7. /\ ~stage.behind /\ stage.promise = {} /\ OneCall(rule, promise)
  BY <1>3, <1>4, <1>5 DEF Reads
<1>8. /\ Waiting(After, promise) \in Stages
      /\ StagesIn(rule, ahead, fresh, promise) \subseteq Stages
  <2>1. PICK step : step = Step
    OBVIOUS
  <2>2. fresh = (step.own \/ stage.fresh) /\ step = Head(stage.todo) /\ step.op = "parse"
        /\ promise = Promise(step, stage.ahead) /\ step.rule = rule
    BY <1>6, <1>3, <1>4, <1>5, <2>1
  <2>3. /\ Waiting(Tail(stage.todo), promise) \in NextStages(stage)
        /\ StagesIn(step.rule, stage.ahead, step.own \/ stage.fresh, promise)
             \subseteq NextStages(stage)
    BY <1>3, <2>2, NextCalled
  <2>. QED  BY <1>3, <1>5, <2>2, <2>3
<1>9. PICK start \in Int : start = IF own THEN index ELSE Frame.start
  <2>1. index \in Int
    BY <1>3
  <2>. QED  BY <1>3, <2>1
<1>10. fresh => start = index
  BY <1>6, <1>3, <1>7, <1>9 DEF Tells, Settled
<1>11. PICK t \in Nat \ {0} : t = Top /\ t = Len(stack) /\ stack \in Seq(FrameRecord)
  BY <1>3, CallFacts
<1>12. PICK frame : frame = [Frame EXCEPT !.todo = After]
  OBVIOUS
<1>13. frame \in FrameRecord /\ frame.todo = After
  BY <1>3, <1>12 DEF FrameRecord
<1>14. PICK base : base = [stack EXCEPT ![t] = frame]
  OBVIOUS
<1>15. /\ base \in Seq(FrameRecord) /\ Len(base) = t /\ base[t] = frame
       /\ \A k \in 1..(t - 1) : base[k] = stack[k]
  BY <1>11, <1>13, <1>14, ExceptSeq
<1>16. PICK calls : calls = Calls(rule, field, start, own)
  OBVIOUS
<1>17. Pushed(base, t, calls, rule, start)'
  <2>1. stack' = base \o calls
    BY <1>3, <1>4, <1>9, <1>11, <1>12, <1>14, <1>16 DEF Call
  <2>. QED  BY <1>15, <1>16, <2>1, CallsPushedNext DEF AllPushed
<1>18. \A k \in 1..t : k # t => Waiting(base[k].todo, {}) \in Stages
  <2>1. Await(t - 1, {})
    BY <1>2, <1>7, <1>11 DEF Staged
  <2>2. ASSUME NEW k \in 1..t, k # t PROVE Waiting(base[k].todo, {}) \in Stages
    <3>1. k \in 1..(t - 1) /\ t - 1 > 0
      BY <2>2
    <3>. QED  BY <1>15, <2>1, <3>1 DEF Await
  <2>. QED  BY <2>2
<1>19. Waiting(base[t].todo, promise) \in Stages
  BY <1>8, <1>13, <1>15
<1>20. LeavesMade(index)
  BY <1>2, <1>7 DEF Settled
<1>. QED  BY <1>1, <1>3, <1>5, <1>7, <1>8, <1>10, <1>17, <1>18, <1>19, <1>20, StagesBegin

LEMMA BecomeStages ==
  ASSUME Ready, Forest, outcome = "running", tokens' = tokens, index' = index, nodes' = nodes,
         NEW stage, Staged(stage), ~stage.behind, LeavesMade(Settled(stage)),
         NEW rule \in Rules, Become(rule), NEW ahead, Sees(ahead),
         StagesIn(rule, ahead, stage.fresh, stage.promise) \subseteq Stages,
         OneCall(rule, stage.promise)
  PROVE  StageInv'
<1>1. /\ stack \in Seq(FrameRecord) /\ Top \in Nat \ {0} /\ Top = Len(stack)
      /\ Frame = stack[Top] /\ Frame \in FrameRecord /\ Frame.start \in Int
      /\ Frame.field \in Fields /\ Frame.exact \in BOOLEAN
  BY CallFacts, TopFrame DEF Frame, FrameRecord
<1>2. PICK b \in Nat : b = Top - 1 /\ Top = b + 1
  BY <1>1
<1>3. PICK start \in Int, field \in Fields, exact \in BOOLEAN :
        start = Frame.start /\ field = Frame.field /\ exact = Frame.exact
  BY <1>1
<1>4. PICK base : base = SubSeq(stack, 1, b)
  OBVIOUS
<1>5. base \in Seq(FrameRecord) /\ Len(base) = b /\ \A k \in 1..b : base[k] = stack[k]
  BY <1>1, <1>2, <1>4, SubSeqProperties
<1>6. PICK calls : calls = Calls(rule, field, start, exact)
  OBVIOUS
<1>7. Pushed(base, b, calls, rule, start)'
  <2>1. stack' = base \o calls
    BY <1>2, <1>3, <1>4, <1>6 DEF Become
  <2>. QED  BY <1>5, <1>6, <2>1, CallsPushedNext DEF AllPushed
<1>8. PICK fresh, promise : fresh = stage.fresh /\ promise = stage.promise
  OBVIOUS
<1>9. Tells(stage, start) /\ Await(b, promise)
  BY <1>2, <1>3, <1>8 DEF Staged
<1>10. fresh => start = index
  BY <1>8, <1>9 DEF Tells, Settled
<1>11. /\ \A k \in 1..b : k # b => Waiting(base[k].todo, {}) \in Stages
       /\ b > 0 => Waiting(base[b].todo, promise) \in Stages
  <2>1. b > 0 => b \in 1..b
    BY <1>2
  <2>. QED  BY <1>5, <1>9, <2>1 DEF Await
<1>12. LeavesMade(index)
  BY DEF Settled
<1>. QED  BY <1>7, <1>8, <1>10, <1>11, <1>12, StagesBegin

LEMMA TailCallStages == ASSUME Ready, Forest, StageInv, TailCall PROVE StageInv'
<1>1. Does("goto") /\ tokens' = tokens /\ index' = index /\ nodes' = nodes
  BY DEF TailCall, Output
<1>2. PICK stage : Staged(stage) /\ LeavesMade(Settled(stage))
  BY <1>1 DEF StageInv, Does
<1>3. /\ outcome = "running" /\ Step \in Code /\ Step.op = "goto" /\ stage.todo # <<>>
      /\ Head(stage.todo) = Step /\ Sees(stage.ahead) /\ MayBe(stage.ahead)
      /\ NextStages(stage) \subseteq Stages /\ Reads(stage)
  BY <1>1, <1>2, StageDoes
<1>4. PICK rule \in Rules : rule = Step.rule
  BY <1>3, CodeAssumption
<1>5. ~stage.behind /\ OneCall(rule, stage.promise)
  BY <1>3, <1>4 DEF Reads
<1>6. PICK ahead : ahead = stage.ahead
  OBVIOUS
<1>7. StagesIn(rule, ahead, stage.fresh, stage.promise) \subseteq Stages
  BY <1>3, <1>4, <1>6, NextInstead
<1>8. Become(rule)
  BY <1>4 DEF TailCall
<1>. QED  BY <1>1, <1>2, <1>3, <1>5, <1>6, <1>7, <1>8, BecomeStages

LEMMA DispatchStages == ASSUME Ready, Ready', Forest, StageInv, Dispatch PROVE StageInv'
<1>1. Does("switch") /\ tokens' = tokens /\ index' = index /\ nodes' = nodes
  BY DEF Dispatch, Output
<1>2. PICK stage : Staged(stage) /\ LeavesMade(Settled(stage))
  BY <1>1 DEF StageInv, Does
<1>3. /\ outcome = "running" /\ Step \in Code /\ Step.op = "switch" /\ stage.todo # <<>>
      /\ Head(stage.todo) = Step /\ Sees(stage.ahead)
      /\ NextStages(stage) \subseteq Stages /\ Reads(stage)
  BY <1>1, <1>2, StageDoes
<1>4. ASSUME NEW row \in Switches[Step.table], Applies(row), Become(row.rule) PROVE StageInv'
  <2>1. PICK rule \in Rules : rule = row.rule
    BY <1>3, <1>4, CodeAssumption, GrammarAssumption, Zenon
  <2>2. ~stage.behind /\ OneCall(rule, stage.promise)
    BY <1>3, <1>4, <2>1 DEF Reads
  <2>3. PICK seen, on : seen = stage.ahead /\ on = row.on
    OBVIOUS
  <2>4. PICK ahead : ahead = Meet(seen, on)
    OBVIOUS
  <2>5. Sees(ahead) /\ MayBe(ahead)
    <3>1. \A k \in DOMAIN on : Peek(k - 1) \in on[k]
      BY <1>4, <2>3 DEF Applies
    <3>. QED  BY <1>3, <2>3, <2>4, <3>1, SeesMore, SeenMayBe
  <2>6. StagesIn(rule, ahead, stage.fresh, stage.promise) \subseteq Stages
    BY <1>3, <1>4, <2>1, <2>3, <2>4, <2>5, NextSwitched
  <2>7. Become(rule)
    BY <1>4, <2>1
  <2>. QED  BY <1>1, <1>2, <1>3, <2>2, <2>5, <2>6, <2>7, BecomeStages
<1>5. CASE Continue(After)
  BY <1>5, JustOnStages DEF Dispatch
<1>. QED  BY <1>4, <1>5 DEF Dispatch

LEMMA StagesStart == Init => StageInv
<1> SUFFICES ASSUME Init PROVE StageInv
  OBVIOUS
<1>1. /\ "module" \in Rules /\ "" \in Fields
      /\ \E rule \in Rules, field \in Fields : rule = "module" /\ field = ""
  BY GrammarAssumption, Zenon
<1>2. PICK rule \in Rules, field \in Fields : rule = "module" /\ field = ""
  BY <1>1
<1>3. PICK start \in Int : start = 0
  OBVIOUS
<1>4. PICK calls : calls = Calls(rule, field, start, TRUE)
  OBVIOUS
<1>5. PICK base \in Seq(FrameRecord) : base = <<>> /\ Len(base) = 0
  BY EmptySeq
<1>6. stack = base \o calls
  <2>1. TRUE \in BOOLEAN /\ calls \in Seq(FrameRecord)
    BY <1>4, CallsAreFrames
  <2>2. <<>> \o calls = calls
    BY <2>1, ConcatProperties
  <2>. QED  BY <1>2, <1>3, <1>4, <1>5, <2>2, Zenon DEF Init
<1>7. Pushed(base, 0, calls, rule, start)
  BY <1>4, <1>5, <1>6, CallsPushed
<1>8. PICK fresh \in BOOLEAN : fresh = TRUE
  OBVIOUS
<1>9. PICK ahead, promise : ahead = <<>> /\ promise = {}
  OBVIOUS
<1>10. Sees(ahead) /\ (fresh => start = index)
  <2>1. DOMAIN <<>> = {}
    OBVIOUS
  <2>. QED  BY <1>3, <1>9, <2>1 DEF Sees, Init
<1>11. StagesIn(rule, ahead, fresh, promise) \subseteq Stages /\ OneCall(rule, promise)
  BY <1>8, <1>2, <1>9, StagesClosed DEF OneCall
<1>12. PICK stage : Staged(stage) /\ ~stage.behind
  BY <1>7, <1>10, <1>11, StagesPushed
<1>13. LeavesMade(Settled(stage))
  <2>1. Settled(stage) = 0
    BY <1>12 DEF Settled, Init
  <2>2. DOMAIN nodes = {}
    <3>1. DOMAIN <<>> = {}
      OBVIOUS
    <3>. QED  BY <3>1 DEF Init
  <2>. QED  BY <2>1, <2>2 DEF LeavesMade
<1>. QED  BY <1>12, <1>13 DEF StageInv

-----------------------------------------------------------------------------
(* Steps and theorem                                                       *)

TokenInv == StageInv /\ NothingSkipped

\* Before the file is accepted there is nothing to be missing.
LEMMA NotYetParsed == ASSUME outcome' # "done" PROVE NothingSkipped'
  BY DEF NothingSkipped, Parsed

LEMMA StageNext ==
  ASSUME Ready, Ready', Forest, StageInv, Next PROVE StageInv' /\ NothingSkipped'
<1>1. outcome = "running"
  BY Running
<1>2. CASE MakeModuleNode
  BY <1>2, MakeModuleNodeStages
<1>3. ASSUME ~MakeModuleNode PROVE StageInv'
  BY <1>3, ReadAnyStages, ReadTypeStages, CheckStages, BranchStages, LoopStages, CallStages,
     TailCallStages, DispatchStages, MakeOperandStages, MakeNodeStages, HandOnStages,
     FixEndStages, FixStartStages, RenameStages, ReassignStages, StartSubmodulesStages,
     ReadLiteralStages DEF Next
<1>4. ASSUME ~MakeModuleNode PROVE outcome' # "done"
  BY <1>1, <1>4 DEF Next, ReadAny, ReadType, Check, Branch, Loop, Call, TailCall, Dispatch,
     MakeOperand, MakeNode, HandOn, FixEnd, FixStart, Rename, Reassign, StartSubmodules,
     ReadLiteral, Refuse, Output
<1>. QED  BY <1>2, <1>3, <1>4, NotYetParsed

LEMMA TokenStart == Init => TokenInv
<1>1. Init => NothingSkipped
  BY DEF Init, NothingSkipped, Parsed
<1>. QED  BY <1>1, StagesStart DEF TokenInv

LEMMA TokenStep == Ready /\ Forest /\ TokenInv /\ [Next]_vars => TokenInv'
<1>1. ASSUME Ready, Forest, TokenInv, Next PROVE TokenInv'
  BY <1>1, ReadyStep, StageNext DEF TokenInv
<1>2. ASSUME TokenInv, UNCHANGED vars PROVE TokenInv'
  <2>1. tokens' = tokens /\ nodes' = nodes /\ index' = index /\ stack' = stack
        /\ outcome' = outcome
    BY <1>2 DEF vars
  <2>2. NothingSkipped'
    BY <1>2, <2>1 DEF TokenInv, NothingSkipped, Parsed, NodeIds, LeafType, TokenType
  <2>3. StageInv'
    <3>1. ASSUME outcome = "running" PROVE StageInv'
      <4>1. PICK stage : Staged(stage) /\ LeavesMade(Settled(stage))
        BY <1>2, <3>1 DEF TokenInv, StageInv
      <4>2. PICK n, ahead : n = Settled(stage) /\ ahead = stage.ahead
        OBVIOUS
      <4>3. Sees(ahead)' /\ LeavesMade(n)' /\ Settled(stage)' = n
        BY <2>1, <4>1, <4>2, SeesSame, LeavesStay DEF Staged, Tells, Settled
      <4>4. Staged(stage)'
        BY <2>1, <4>1, <4>2, <4>3 DEF Staged, Tells, Await, Frame, Top, Settled, TokenType
      <4>5. LeavesMade(Settled(stage))'
        BY <4>3
      <4>. QED  BY <4>4, <4>5 DEF StageInv
    <3>2. CASE outcome # "running"
      BY <2>1, <3>2 DEF StageInv
    <3>. QED  BY <3>1, <3>2
  <2>. QED  BY <2>2, <2>3 DEF TokenInv
<1>. QED  BY <1>1, <1>2

\* Whatever the file, nothing that was written is missing in the tree of a file that is
\* accepted: every name and every literal has one node of its kind that starts at it, and
\* no other node is of these kinds.
THEOREM NothingIsSkipped == Spec => []NothingSkipped
<1>1. TokenInv => NothingSkipped
  BY DEF TokenInv
<1>. QED  BY <1>1, AlwaysForest, TokenStart, TokenStep, PTL DEF Spec

-----------------------------------------------------------------------------
(* That nothing is lost: calls and their stations                          *)

Stations == StationsWithin(StationDepth)

\* The node is in front of a token; it starts behind `else =>', and not before another one.
Before(id, token)   == nodes[id].start < token /\ nodes[id].end < token
StartsIn(id, start) == IsElseBranch(id) /\ start <= nodes[id].start

\* Children, none of which is an else branch; that are in front of a token; whose else
\* branches come behind `else =>' and behind the children before them.
NoElse(kids) == \A i \in 1..Len(kids) : kids[i].field # Else
AllBefore(kids, token) == \A i \in 1..Len(kids) : Before(kids[i].id, token)
Branches(kids, start) == \A i \in 1..Len(kids) : kids[i].field = Else =>
  /\ StartsIn(kids[i].id, start)
  /\ \A j \in 1..(i - 1) : Before(kids[j].id, nodes[kids[i].id].start)
KidsStand(kids, start, station) ==
  /\ Holding(station) \/ NoElse(kids)
  /\ Branches(kids, start)
  /\ station.place = "good" /\ kids # <<>> => StartsIn(kids[1].id, start)

\* A call at a station; as the innermost call; waiting for the call above it.
Stands(frame, station) ==
  /\ station \in Stations /\ station.todo = frame.todo
  /\ Strict(station) => BehindElse(frame.start)
  /\ frame.field = Else => Strict(station)
  /\ station.held # "moved" => frame.end = NoToken
  /\ frame.start <= index /\ frame.end <= index
  /\ KidsStand(frame.kids, frame.start, station)
HasRead(read) ==
  /\ read = 1 => index >= 1 /\ TokenType(index - 1) = "else"
  /\ read = 2 => index >= 2 /\ TokenType(index - 2) = "else" /\ TokenType(index - 1) = "=>"
OnlyOpened(start) == \A token \in start..(index - 1) : TokenType(token) \in OpenParentheses
Goes(frame, station) ==
  /\ station.next # {} => Peek(0) \in station.next
  /\ station.read # 0 => AllBefore(frame.kids, index)
  /\ HasRead(station.read)
  /\ station.place \in {"open", "past"} => frame.kids = <<>>
  /\ station.place = "good" => frame.kids # <<>>
  /\ station.place = "open" => OnlyOpened(frame.start)
  /\ station.held = "new" => frame.kids # <<>> /\ frame.kids[Len(frame.kids)].field = Else
Awaits(frame, station, above, over) ==
  /\ station.next = {} /\ station.read = 0 /\ station.place \notin {"open", "past"}
  /\ station.place = "good" /\ frame.kids = <<>> => Strict(over)
  /\ station.held = "new" <=> above.field = Else
  /\ Strict(over) => frame.start <= above.start /\ AllBefore(frame.kids, above.start)

StationsFit(at) ==
  /\ at \in [1..Top -> Stations]
  /\ \A k \in 1..Top : Stands(stack[k], at[k])
  /\ Top > 0 => Goes(stack[Top], at[Top])
  /\ \A k \in 1..(Top - 1) : Awaits(stack[k], at[k], stack[k + 1], at[k + 1])
StationInv == \E at : StationsFit(at)
NodesRead == \A id \in DOMAIN nodes : nodes[id].start <= index /\ nodes[id].end <= index

\* A node is a child, or an else branch behind which there is another one.
Loses(id, kids, start) == IsElseBranch(id) /\ \E i \in 1..Len(kids) :
  /\ kids[i].field = Else
  /\ start <= nodes[id].start /\ nodes[id].end < nodes[kids[i].id].start
InCall(id, k) == id \in Owned(k) \/ Loses(id, stack[k].kids, stack[k].start)
InNodeOf(id, w) == \/ id \in KidIds(nodes[w].kids)
                   \/ Loses(id, nodes[w].kids, nodes[w].start) /\ nodes[id].end <= nodes[w].end
Lies(id) == \/ outcome = "done" /\ id = Len(nodes)
            \/ \E k \in 1..Top : InCall(id, k)
            \/ \E w \in DOMAIN nodes : InNodeOf(id, w)
Accounted == \A id \in DOMAIN nodes : Lies(id)

\* The inductive invariant.
ElseInv == StationInv /\ NodesRead /\ Accounted /\ (outcome = "done" => Top = 0)

-----------------------------------------------------------------------------
LEMMA StationsClosed ==
  /\ StationsIn("module", {}, "free") \subseteq Stations
  /\ \A station \in Stations : Safe(station) /\ NextStations(station) \subseteq Stations
  /\ \A rule \in Rules : \A i \in 2..Len(Opening[rule]) : Opening[rule][i].field # Else
  BY StationsAssumption DEF Stations

LEMMA StationParts ==
  ASSUME NEW todo, NEW next, NEW read, NEW place, NEW held,
         NEW station, station = Station(todo, next, read, place, held)
  PROVE  /\ station.todo = todo /\ station.next = next /\ station.read = read
         /\ station.place = place /\ station.held = held
  BY DEF Station

\* Nodes and tokens stay what they are.
LEMMA BehindKept ==
  ASSUME tokens' = tokens, NEW token
  PROVE  BehindElse(token)' <=> BehindElse(token)
  BY DEF BehindElse, TokenType

LEMMA NodeKept ==
  ASSUME NodesGrow, NEW id \in DOMAIN nodes
  PROVE  /\ nodes'[id] = nodes[id]
         /\ IsElseBranch(id)' <=> IsElseBranch(id)
         /\ \A start : StartsIn(id, start)' <=> StartsIn(id, start)
         /\ \A token : Before(id, token)' <=> Before(id, token)
<1>1. nodes'[id] = nodes[id] /\ tokens' = tokens
  BY DEF NodesGrow
<1>2. IsElseBranch(id)' <=> IsElseBranch(id)
  BY <1>1, BehindKept DEF IsElseBranch
<1>. QED  BY <1>1, <1>2 DEF StartsIn, Before

LEMMA AllBeforeKept ==
  ASSUME NodesGrow, NEW kids \in Seq(Kid), KidIds(kids) \subseteq DOMAIN nodes, NEW token
  PROVE  AllBefore(kids, token)' <=> AllBefore(kids, token)
<1>1. \A i \in 1..Len(kids) : kids[i].id \in DOMAIN nodes
  BY KidsThere
<1>2. \A i \in 1..Len(kids) : Before(kids[i].id, token)' <=> Before(kids[i].id, token)
  BY <1>1, NodeKept
<1>. QED  BY <1>2 DEF AllBefore

LEMMA KidsStandKept ==
  ASSUME NodesGrow, NEW kids \in Seq(Kid), KidIds(kids) \subseteq DOMAIN nodes,
         NEW start, NEW station, KidsStand(kids, start, station)
  PROVE  KidsStand(kids, start, station)'
<1>1. \A i \in 1..Len(kids) : kids[i].id \in DOMAIN nodes
  BY KidsThere
<1>2. Len(kids) \in Nat
  BY LenProperties
<1>3. \A i \in 1..Len(kids) : \A j \in 1..(i - 1) : j \in 1..Len(kids)
  BY <1>2
<1>4. Branches(kids, start)'
  <2>1. ASSUME NEW i \in 1..Len(kids), kids[i].field = Else
        PROVE  /\ StartsIn(kids[i].id, start)'
               /\ \A j \in 1..(i - 1) : Before(kids[j].id, nodes[kids[i].id].start)'
    <3>1. PICK id \in DOMAIN nodes : id = kids[i].id
      BY <1>1
    <3>2. PICK from : from = nodes[id].start
      OBVIOUS
    <3>3. nodes'[id].start = from /\ StartsIn(id, start)'
      BY <2>1, <3>1, <3>2, NodeKept DEF KidsStand, Branches
    <3>4. ASSUME NEW j \in 1..(i - 1) PROVE Before(kids[j].id, from)'
      <4>1. PICK other \in DOMAIN nodes : other = kids[j].id
        BY <1>1, <1>3
      <4>2. Before(other, from)
        BY <2>1, <3>1, <3>2, <4>1 DEF KidsStand, Branches
      <4>3. Before(other, from)'
        BY <4>2, NodeKept
      <4>. QED  BY <4>1, <4>3
    <3>. QED  BY <3>1, <3>3, <3>4
  <2>. QED  BY <2>1 DEF Branches
<1>5. ASSUME station.place = "good", kids # <<>> PROVE StartsIn(kids[1].id, start)'
  <2>1. 1 \in 1..Len(kids)
    BY <1>5, EmptySeq
  <2>2. PICK id \in DOMAIN nodes : id = kids[1].id
    BY <1>1, <2>1
  <2>3. StartsIn(id, start)
    BY <1>5, <2>2 DEF KidsStand
  <2>4. StartsIn(id, start)'
    BY <2>3, NodeKept
  <2>. QED  BY <2>2, <2>4
<1>. QED  BY <1>4, <1>5 DEF KidsStand

LEMMA StandsKept ==
  ASSUME NodesGrow, index \in Nat, index' \in Nat, index <= index',
         NEW frame \in FrameRecord, KidIds(frame.kids) \subseteq DOMAIN nodes,
         NEW station, Stands(frame, station)
  PROVE  Stands(frame, station)'
<1>1. PICK kids \in Seq(Kid), start \in Int, end \in Int :
        kids = frame.kids /\ start = frame.start /\ end = frame.end
  BY FrameFacts
<1>2. KidsStand(kids, start, station)'
  BY <1>1, KidsStandKept DEF Stands
<1>3. BehindElse(start)' <=> BehindElse(start)
  BY BehindKept DEF NodesGrow
<1>4. start <= index /\ end <= index
  BY <1>1 DEF Stands
<1>5. start <= index' /\ end <= index'
  BY <1>4
<1>. QED  BY <1>1, <1>2, <1>3, <1>5 DEF Stands

LEMMA AwaitsKept ==
  ASSUME NodesGrow, NEW frame \in FrameRecord, KidIds(frame.kids) \subseteq DOMAIN nodes,
         NEW station, NEW above, NEW over, Awaits(frame, station, above, over),
         NEW other, NEW next, other.field = above.field, Strict(next) <=> Strict(over),
         Strict(over) => other.start = above.start
  PROVE  Awaits(frame, station, other, next)'
<1>1. PICK kids \in Seq(Kid) : kids = frame.kids
  BY FrameFacts
<1>0. PICK token : token = above.start
  OBVIOUS
<1>2. AllBefore(kids, token)' <=> AllBefore(kids, token)
  BY <1>1, AllBeforeKept
<1>. QED  BY <1>0, <1>1, <1>2 DEF Awaits

-----------------------------------------------------------------------------
(* The stations behind each step                                           *)

LEMMA StationRead ==
  ASSUME NEW station, station.todo # <<>>, NEW step, step = Head(station.todo), NEW types,
         \/ step.op = "advance" /\ types = station.next
         \/ step.op = "take" /\ types = step.types
  PROVE  Station(Tail(station.todo), {}, ReadBehind(station.read, types),
                 PlaceBehind(station.place, types), station.held) \in NextStations(station)
  BY DEF NextStations

LEMMA StationOn ==
  ASSUME NEW station, station.todo # <<>>,
         Head(station.todo).op \in {"open_module", "reread", "relabel", "choose", "while", "switch"}
  PROVE  Station(Tail(station.todo), station.next, station.read, station.place, station.held)
           \in NextStations(station)
  BY DEF NextStations

LEMMA StationMoved ==
  ASSUME NEW station, station.todo # <<>>, Head(station.todo).op \in {"early", "start"}
  PROVE  Station(Tail(station.todo), station.next, 0, station.place, "moved")
           \in NextStations(station)
  BY DEF NextStations

LEMMA StationTested ==
  ASSUME NEW station, station.todo # <<>>, Head(station.todo).op = "require"
  PROVE  Station(Tail(station.todo), Passing(Head(station.todo).test, station.next),
                 station.read, station.place, station.held) \in NextStations(station)
  BY DEF NextStations

LEMMA StationChosen ==
  ASSUME NEW station, station.todo # <<>>, Head(station.todo).op = "choose",
         NEW cases, cases = Head(station.todo).cases, NEW i \in DOMAIN cases
  PROVE  Station(cases[i].code \o Tail(station.todo), Passing(cases[i].test, station.next),
                 station.read, station.place, station.held) \in NextStations(station)
  BY DEF NextStations

LEMMA StationLooped ==
  ASSUME NEW station, station.todo # <<>>, Head(station.todo).op = "while"
  PROVE  Station(Head(station.todo).code \o station.todo,
                 Passing(Head(station.todo).test, station.next),
                 station.read, station.place, station.held) \in NextStations(station)
  BY DEF NextStations

LEMMA StationCalled ==
  ASSUME NEW station, station.todo # <<>>, NEW step, step = Head(station.todo),
         step.op = "parse"
  PROVE  /\ Station(Tail(station.todo), {}, 0, PlaceWaiting(station.place, step.own),
                    HeldWaiting(station.held, step.field)) \in NextStations(station)
         /\ StationsIn(step.rule, station.next,
                       ChildPlace(station.place, step.own, step.field))
              \subseteq NextStations(station)
  BY DEF NextStations

LEMMA StationGone ==
  ASSUME NEW station, station.todo # <<>>, Head(station.todo).op = "goto"
  PROVE  StationsIn(Head(station.todo).rule, station.next, Begun(station.place))
           \subseteq NextStations(station)
  BY DEF NextStations

LEMMA StationSwitched ==
  ASSUME NEW station, station.todo # <<>>, Head(station.todo).op = "switch",
         NEW row \in Switches[Head(station.todo).table]
  PROVE  StationsIn(row.rule, NextOf(row.on, station.next), Begun(station.place))
           \subseteq NextStations(station)
  BY DEF NextStations

LEMMA StationWrapped ==
  ASSUME NEW station, station.todo # <<>>, Head(station.todo).op = "wrap"
  PROVE  Station(Tail(station.todo), station.next, 0,
                 IF Strict(station) THEN "good" ELSE "free", station.held)
           \in NextStations(station)
  BY DEF NextStations

LEMMA StationOverwritten ==
  ASSUME NEW station, station.todo # <<>>, Head(station.todo).op = "overwrite"
  PROVE  Station(Tail(station.todo), station.next, 0,
                 IF Strict(station) THEN "bad" ELSE "free", "yes") \in NextStations(station)
  BY DEF NextStations

-----------------------------------------------------------------------------
(* Calls and their stations: what a step leaves alone                      *)

\* The innermost call is at this station, and does its next step.
LEMMA StationDoes ==
  ASSUME Ready, Forest, NEW op, Does(op), NEW at, StationsFit(at)
  PROVE  /\ outcome = "running" /\ Step \in Code /\ Step.op = op /\ After \in Seq(Code)
         /\ Top \in 1..Top /\ Frame = stack[Top] /\ Frame \in FrameRecord
         /\ Frame.kids \in Seq(Kid) /\ KidIds(Frame.kids) \subseteq DOMAIN nodes
         /\ Frame.todo \in Seq(Code)
         /\ \E station \in Stations :
              /\ station = at[Top] /\ station.todo = Frame.todo /\ station.todo # <<>>
              /\ Head(station.todo) = Step /\ Tail(station.todo) = After
              /\ NextStations(station) \subseteq Stations /\ Safe(station)
              /\ Stands(Frame, station) /\ Goes(Frame, station)
<1>1. outcome = "running" /\ Step \in Code /\ Step.op = op /\ After \in Seq(Code)
  BY TopStep
<1>2. Top \in 1..Top /\ Frame = stack[Top] /\ Frame \in FrameRecord
  BY <1>1, TopFrame, CallFacts DEF Frame
<1>3. /\ Frame.kids \in Seq(Kid) /\ KidIds(Frame.kids) \subseteq DOMAIN nodes
      /\ Frame.todo \in Seq(Code)
  BY <1>2, CallFacts, FrameFacts
<1>4. PICK station \in Stations : station = at[Top]
  BY <1>2 DEF StationsFit
<1>5. Stands(Frame, station) /\ Goes(Frame, station)
  BY <1>2, <1>4 DEF StationsFit
<1>6. station.todo = Frame.todo
  BY <1>5 DEF Stands
<1>7. station.todo # <<>> /\ Head(station.todo) = Step /\ Tail(station.todo) = After
  BY <1>6 DEF Does, Step, After
<1>8. NextStations(station) \subseteq Stations /\ Safe(station)
  BY StationsClosed
<1>. QED  BY <1>1, <1>2, <1>3, <1>4, <1>5, <1>6, <1>7, <1>8

\* The innermost call goes on, with other children perhaps.
LEMMA TopTurns ==
  ASSUME Ready, Forest, outcome = "running", NodesGrow, index' \in Nat, index <= index',
         NEW at, StationsFit(at), NEW old, old = at[Top],
         NEW frame \in FrameRecord, stack' = [stack EXCEPT ![Top] = frame],
         NEW next, Stands(frame, next)', Goes(frame, next)', frame.field = Frame.field,
         Strict(next) <=> Strict(old), Strict(old) => frame.start = Frame.start
  PROVE  StationInv'
<1>1. /\ stack' \in Seq(FrameRecord) /\ Len(stack') = Top /\ stack'[Top] = frame
      /\ \A k \in 1..(Top - 1) : stack'[k] = stack[k]
  BY ReplaceTop
<1>2. Top' = Top /\ Top \in Nat \ {0}
  BY <1>1, TopFrame DEF Top
<1>3. PICK t \in Nat \ {0} : t = Top
  BY <1>2
<1>4. PICK now : now = [k \in 1..t |-> IF k = t THEN next ELSE at[k]]
  OBVIOUS
<1>0. next \in Stations
  BY DEF Stands
<1>5. /\ now \in [1..t -> Stations] /\ now[t] = next
      /\ \A k \in 1..(t - 1) : now[k] = at[k]
  BY <1>0, <1>3, <1>4 DEF StationsFit
<1>6. Stands(stack[t], now[t])' /\ Goes(stack[t], now[t])'
  BY <1>1, <1>3, <1>5
<1>7. ASSUME NEW k \in 1..(t - 1) PROVE Stands(stack[k], now[k])'
  <2>1. k \in 1..Top
    BY <1>3
  <2>2. PICK called \in FrameRecord : called = stack[k]
    BY <2>1, CallFacts
  <2>3. PICK station : station = at[k]
    OBVIOUS
  <2>4. stack'[k] = called /\ now[k] = station /\ KidIds(called.kids) \subseteq DOMAIN nodes
    BY <1>1, <1>3, <1>5, <2>1, <2>2, <2>3, CallFacts
  <2>5. Stands(called, station)
    BY <2>1, <2>2, <2>3 DEF StationsFit
  <2>6. Stands(called, station)'
    BY <2>4, <2>5, StandsKept, TokensThere
  <2>. QED  BY <2>4, <2>6
<1>8. ASSUME NEW k \in 1..(t - 1) PROVE Awaits(stack[k], now[k], stack[k + 1], now[k + 1])'
  <2>1. k \in 1..Top /\ k \in 1..(Top - 1) /\ k + 1 \in 1..t
    BY <1>3
  <2>2. PICK called \in FrameRecord : called = stack[k]
    BY <2>1, CallFacts
  <2>3. PICK station, above, over : station = at[k] /\ above = stack[k + 1] /\ over = at[k + 1]
    OBVIOUS
  <2>4. stack'[k] = called /\ now[k] = station /\ KidIds(called.kids) \subseteq DOMAIN nodes
    BY <1>1, <1>3, <1>5, <2>1, <2>2, <2>3, CallFacts
  <2>5. PICK other, after : other = stack'[k + 1] /\ after = now[k + 1]
    OBVIOUS
  <2>6. /\ other.field = above.field /\ (Strict(after) <=> Strict(over))
        /\ Strict(over) => other.start = above.start
    <3>1. CASE k + 1 = t
      BY <1>1, <1>3, <1>5, <2>3, <2>5, <3>1 DEF Frame
    <3>2. CASE k + 1 \in 1..(t - 1)
      BY <1>1, <1>3, <1>5, <2>3, <2>5, <3>2
    <3>. QED  BY <2>1, <3>1, <3>2
  <2>7. Awaits(called, station, above, over)
    BY <2>1, <2>2, <2>3 DEF StationsFit
  <2>8. Awaits(called, station, other, after)'
    BY <2>4, <2>6, <2>7, AwaitsKept
  <2>. QED  BY <2>4, <2>5, <2>8
<1>9. \A k \in 1..t : Stands(stack[k], now[k])'
  <2>1. \A k \in 1..t : k = t \/ k \in 1..(t - 1)
    BY <1>3
  <2>. QED  BY <1>6, <1>7, <2>1
<1>10. StationsFit(now)'
  BY <1>2, <1>3, <1>5, <1>6, <1>8, <1>9 DEF StationsFit
<1>. QED  BY <1>10 DEF StationInv

\* Nothing happens to the calls.
LEMMA StationsStay ==
  ASSUME StationInv, tokens' = tokens, nodes' = nodes, index' = index, stack' = stack
  PROVE  StationInv'
<1>1. PICK at : StationsFit(at)
  BY DEF StationInv
<1>2. StationsFit(at)'
  <2>1. /\ Top' = Top
        /\ \A frame, station : Stands(frame, station)' <=> Stands(frame, station)
        /\ \A frame, station, above, over :
             Awaits(frame, station, above, over)' <=> Awaits(frame, station, above, over)
    BY DEF Top, Stands, KidsStand, Branches, Awaits, AllBefore, Before, StartsIn,
           IsElseBranch, BehindElse, TokenType
  <2>2. \A frame, station : Goes(frame, station)' <=> Goes(frame, station)
    BY DEF Goes, HasRead, OnlyOpened, AllBefore, Before, Peek, TokenType
  <2>. QED  BY <1>1, <2>1, <2>2 DEF StationsFit
<1>. QED  BY <1>2 DEF StationInv

-----------------------------------------------------------------------------
(* The steps that go on                                                    *)

\* The innermost call keeps its children.
LEMMA TopHolds ==
  ASSUME Ready, Forest, outcome = "running", tokens' = tokens, nodes' = nodes,
         index' \in Nat, index <= index',
         NEW at, StationsFit(at), NEW old, old = at[Top],
         NEW frame \in FrameRecord, stack' = [stack EXCEPT ![Top] = frame],
         frame.kids = Frame.kids, frame.start = Frame.start, frame.end = Frame.end,
         frame.field = Frame.field,
         NEW next \in Stations, next.todo = frame.todo, next.held = old.held,
         Strict(next) <=> Strict(old), next.place = "good" => old.place = "good",
         Goes(frame, next)'
  PROVE  StationInv'
<1>1. Top \in 1..Top /\ Frame = stack[Top]
  BY TopFrame, CallFacts DEF Frame
<1>2. NodesGrow
  BY DEF NodesGrow
<1>3. Stands(Frame, old)
  BY <1>1 DEF StationsFit
<1>4. KidsStand(frame.kids, frame.start, next)
  BY <1>3 DEF Stands, KidsStand, Holding
<1>5. Stands(frame, next)
  BY <1>3, <1>4 DEF Stands
<1>6. KidIds(frame.kids) \subseteq DOMAIN nodes
  BY <1>1, CallFacts
<1>7. Stands(frame, next)'
  BY <1>2, <1>5, <1>6, StandsKept, TokensThere
<1>. QED  BY <1>2, <1>7, TopTurns

\* No token is read, and what is known of the next one is true.
LEMMA TopProceeds ==
  ASSUME Ready, Forest, outcome = "running", tokens' = tokens, nodes' = nodes, index' = index,
         NEW at, StationsFit(at), NEW old, old = at[Top],
         NEW frame \in FrameRecord, stack' = [stack EXCEPT ![Top] = frame],
         frame.kids = Frame.kids, frame.start = Frame.start, frame.end = Frame.end,
         frame.field = Frame.field,
         NEW ahead, ahead # {} => Peek(0) \in ahead,
         Station(frame.todo, ahead, old.read, old.place, old.held) \in Stations
  PROVE  StationInv'
<1>1. PICK next \in Stations : next = Station(frame.todo, ahead, old.read, old.place, old.held)
  OBVIOUS
<1>2. PICK todo : todo = frame.todo
  OBVIOUS
<1>3. /\ next.todo = frame.todo /\ next.next = ahead /\ next.read = old.read
      /\ next.place = old.place /\ next.held = old.held
  BY <1>1, <1>2, StationParts
<1>4. Goes(Frame, old)
  BY TopFrame, CallFacts DEF StationsFit, Frame
<1>5. Goes(frame, next)
  BY <1>3, <1>4 DEF Goes
<1>6. Goes(frame, next)'
  BY <1>5 DEF Goes, HasRead, OnlyOpened, AllBefore, Before, Peek, TokenType
<1>7. index' \in Nat /\ index <= index'
  BY TokensThere
<1>8. Strict(next) <=> Strict(old)
  BY <1>3 DEF Strict
<1>. QED  BY <1>3, <1>6, <1>7, <1>8, TopHolds

LEMMA TopOnlyProceeds ==
  ASSUME Ready, Forest, NEW op, Does(op), NEW at, StationsFit(at),
         NEW todo \in Seq(Code), Continue(todo), UNCHANGED <<Output, index>>,
         NEW ahead, ahead # {} => Peek(0) \in ahead,
         \A old : old = at[Top] =>
           Station(todo, ahead, old.read, old.place, old.held) \in Stations
  PROVE  StationInv'
<1>1. /\ outcome = "running" /\ tokens' = tokens /\ nodes' = nodes /\ index' = index
      /\ Frame \in FrameRecord
  BY StationDoes DEF Output
<1>2. PICK frame : frame = [Frame EXCEPT !.todo = todo]
  OBVIOUS
<1>3. frame \in FrameRecord /\ stack' = [stack EXCEPT ![Top] = frame]
  BY <1>1, <1>2, ContinueTop
<1>4. /\ frame.kids = Frame.kids /\ frame.todo = todo /\ frame.start = Frame.start
      /\ frame.end = Frame.end /\ frame.field = Frame.field
  BY <1>1, <1>2 DEF FrameRecord
<1>5. PICK old : old = at[Top]
  OBVIOUS
<1>6. Station(todo, ahead, old.read, old.place, old.held) \in Stations
  BY <1>5
<1>. QED  BY <1>1, <1>3, <1>4, <1>5, <1>6, TopProceeds

LEMMA TestPassed ==
  ASSUME NEW test, Holds(test, Frame), NEW ahead, ahead # {} => Peek(0) \in ahead
  PROVE  Passing(test, ahead) # {} => Peek(0) \in Passing(test, ahead)
<1>1. ASSUME test.test = "ahead", 1 \in DOMAIN test.on PROVE Peek(0) \in test.on[1]
  <2>1. Peek(1 - 1) \in test.on[1]
    BY <1>1 DEF Holds
  <2>. QED  BY <2>1
<1>. QED  BY <1>1 DEF Passing, NextOf


LEMMA TokenPassed ==
  ASSUME Ready, Forest, NodesRead, NEW at, StationsFit(at), NEW op, Does(op),
         NEW types, types # {} => Peek(0) \in types,
         NEW old, old = at[Top],
         Station(After, {}, ReadBehind(old.read, types), PlaceBehind(old.place, types),
                 old.held) \in Stations,
         index < Len(tokens), index' = index + 1, Continue(After), UNCHANGED Output
  PROVE  StationInv'
<1>1. /\ outcome = "running" /\ After \in Seq(Code) /\ tokens' = tokens /\ nodes' = nodes
      /\ Frame \in FrameRecord /\ Frame.kids \in Seq(Kid)
      /\ KidIds(Frame.kids) \subseteq DOMAIN nodes /\ Goes(Frame, old)
      /\ Stands(Frame, old)
  BY StationDoes DEF Output
<1>2. index \in Nat /\ index' \in Nat /\ index <= index' /\ index' - 1 = index
  BY TokensThere
<1>3. PICK frame : frame = [Frame EXCEPT !.todo = After]
  OBVIOUS
<1>4. frame \in FrameRecord /\ stack' = [stack EXCEPT ![Top] = frame]
  BY <1>1, <1>3, ContinueTop
<1>5. /\ frame.kids = Frame.kids /\ frame.todo = After /\ frame.start = Frame.start
      /\ frame.end = Frame.end /\ frame.field = Frame.field
  BY <1>1, <1>3 DEF FrameRecord
<1>6. PICK read, place : /\ read = ReadBehind(old.read, types)
                         /\ place = PlaceBehind(old.place, types)
  OBVIOUS
<1>7. PICK next \in Stations : next = Station(After, {}, read, place, old.held)
  BY <1>6
<1>8. /\ next.todo = After /\ next.next = {} /\ next.read = read /\ next.place = place
      /\ next.held = old.held
  BY <1>7, StationParts
<1>9. place = old.place \/ (old.place = "open" /\ place = "past")
  BY <1>6 DEF PlaceBehind
<1>10. TokenType(index) = Peek(0)
  <2>1. Peek(0) = tokens[index + 1].type
    BY PeekToken
  <2>. QED  BY <2>1 DEF TokenType
<1>11. \A such : Sure(types, such) => TokenType(index) \in such
  BY <1>10 DEF Sure
<1>12. HasRead(read)'
  <2>1. read = 1 => TokenType(index) = "else"
    <3>1. read = 1 => Sure(types, {"else"})
      BY <1>6 DEF ReadBehind
    <3>. QED  BY <1>11, <3>1
  <2>2. read = 2 => TokenType(index) = "=>" /\ old.read = 1
    <3>1. read = 2 => Sure(types, {"=>"}) /\ old.read = 1
      BY <1>6 DEF ReadBehind
    <3>. QED  BY <1>11, <3>1
  <2>3. old.read = 1 => index >= 1 /\ TokenType(index - 1) = "else"
    BY <1>1 DEF Goes, HasRead
  <2>4. index' - 2 = index - 1 /\ index' >= 1 /\ (index >= 1 => index' >= 2)
    BY <1>2
  <2>. QED  BY <1>1, <1>2, <2>1, <2>2, <2>3, <2>4 DEF HasRead, TokenType
<1>13. AllBefore(frame.kids, index)'
  <2>1. PICK kids \in Seq(Kid) : kids = Frame.kids
    BY <1>1
  <2>2. \A i \in 1..Len(kids) : kids[i].id \in DOMAIN nodes
    BY <1>1, <2>1, KidsThere
  <2>3. ASSUME NEW id \in DOMAIN nodes PROVE nodes[id].start < index' /\ nodes[id].end < index'
    <3>1. PICK start \in Int, end \in Int : start = nodes[id].start /\ end = nodes[id].end
      BY Numbers
    <3>2. start <= index /\ end <= index
      BY <3>1 DEF NodesRead
    <3>. QED  BY <1>2, <3>1, <3>2
  <2>. QED  BY <1>1, <1>5, <2>1, <2>2, <2>3 DEF AllBefore, Before
<1>14. place = "open" => OnlyOpened(frame.start)'
  <2>1. ASSUME place = "open" PROVE OnlyOpened(frame.start)'
    <3>1. old.place = "open" /\ Sure(types, OpenParentheses)
      BY <1>6, <2>1 DEF PlaceBehind
    <3>2. PICK start \in Int : start = Frame.start
      BY <1>1, FrameFacts
    <3>3. \A token \in start..(index - 1) : TokenType(token) \in OpenParentheses
      BY <1>1, <3>1, <3>2 DEF Goes, OnlyOpened
    <3>4. TokenType(index) \in OpenParentheses
      BY <1>11, <3>1
    <3>5. \A token \in start..(index' - 1) : token = index \/ token \in start..(index - 1)
      BY <1>2
    <3>6. \A token \in start..(index' - 1) : TokenType(token)' \in OpenParentheses
      BY <1>1, <3>3, <3>4, <3>5 DEF TokenType
    <3>. QED  BY <1>5, <3>2, <3>6 DEF OnlyOpened, OpenParentheses
  <2>. QED  BY <2>1
<1>15. Goes(frame, next)'
  BY <1>1, <1>5, <1>8, <1>9, <1>12, <1>13, <1>14 DEF Goes
<1>16. Strict(next) <=> Strict(old)
  BY <1>8, <1>9 DEF Strict
<1>17. next.place = "good" => old.place = "good"
  BY <1>8, <1>9
<1>. QED  BY <1>1, <1>2, <1>4, <1>5, <1>8, <1>15, <1>16, <1>17, TopHolds

LEMMA ReadAnyStations == ASSUME Ready, Forest, StationInv, NodesRead, ReadAny PROVE StationInv'
<1>1. PICK at : StationsFit(at)
  BY DEF StationInv
<1>2. Does("advance") /\ Step.op = "advance" /\ index < Len(tokens) /\ index' = index + 1
      /\ Continue(After) /\ UNCHANGED Output
  BY TopStep DEF ReadAny
<1>3. PICK old \in Stations : /\ old = at[Top] /\ old.todo # <<>>
                              /\ Head(old.todo) = Step /\ Tail(old.todo) = After
                              /\ NextStations(old) \subseteq Stations /\ Goes(Frame, old)
  BY <1>1, <1>2, StationDoes
<1>4. PICK types : types = old.next
  OBVIOUS
<1>5. types # {} => Peek(0) \in types
  BY <1>3, <1>4 DEF Goes
<1>6. Station(After, {}, ReadBehind(old.read, types), PlaceBehind(old.place, types),
              old.held) \in Stations
  BY <1>2, <1>3, <1>4, StationRead
<1>. QED  BY <1>1, <1>2, <1>3, <1>5, <1>6, TokenPassed

LEMMA RefuseStations == ASSUME StationInv, Refuse PROVE StationInv'
  BY StationsStay DEF Refuse

LEMMA ReadTypeStations == ASSUME Ready, Forest, StationInv, NodesRead, ReadType PROVE StationInv'
<1>1. ASSUME Peek(0) \in Step.types, index' = index + 1, Continue(After), UNCHANGED Output
      PROVE  StationInv'
  <2>1. PICK at : StationsFit(at)
    BY DEF StationInv
  <2>2. Does("take") /\ Step.op = "take" /\ "past the end" \notin Step.types
    BY TopStep, CodeAssumption DEF ReadType
  <2>3. index < Len(tokens)
    BY <1>1, <2>2, PeekToken
  <2>4. PICK old \in Stations : /\ old = at[Top] /\ old.todo # <<>>
                                /\ Head(old.todo) = Step /\ Tail(old.todo) = After
                                /\ NextStations(old) \subseteq Stations
    BY <2>1, <2>2, StationDoes
  <2>5. PICK types : types = Step.types
    OBVIOUS
  <2>6. Station(After, {}, ReadBehind(old.read, types), PlaceBehind(old.place, types),
                old.held) \in Stations
    BY <2>2, <2>4, <2>5, StationRead
  <2>7. Peek(0) \in types
    BY <1>1, <2>5
  <2>. QED  BY <1>1, <2>1, <2>2, <2>3, <2>4, <2>6, <2>7, TokenPassed
<1>. QED  BY <1>1, RefuseStations DEF ReadType

LEMMA CheckStations == ASSUME Ready, Forest, StationInv, Check PROVE StationInv'
<1>1. ASSUME Holds(Step.test, Frame), Continue(After), UNCHANGED <<Output, index>>
      PROVE  StationInv'
  <2>1. PICK at : StationsFit(at)
    BY DEF StationInv
  <2>2. Does("require") /\ After \in Seq(Code) /\ Step.op = "require"
    BY TopStep DEF Check
  <2>3. PICK old \in Stations : /\ old = at[Top] /\ old.todo # <<>>
                                /\ Head(old.todo) = Step /\ Tail(old.todo) = After
                                /\ NextStations(old) \subseteq Stations /\ Goes(Frame, old)
    BY <2>1, <2>2, StationDoes
  <2>4. PICK test, ahead : test = Step.test /\ ahead = Passing(test, old.next)
    OBVIOUS
  <2>5. Station(After, ahead, old.read, old.place, old.held) \in Stations
    BY <2>2, <2>3, <2>4, StationTested
  <2>6. ahead # {} => Peek(0) \in ahead
    BY <1>1, <2>3, <2>4, TestPassed DEF Goes
  <2>. QED  BY <1>1, <2>1, <2>2, <2>3, <2>5, <2>6, TopOnlyProceeds
<1>. QED  BY <1>1, RefuseStations DEF Check

LEMMA BranchStations == ASSUME Ready, Forest, StationInv, Branch PROVE StationInv'
<1>1. PICK at : StationsFit(at)
  BY DEF StationInv
<1>2. /\ Does("choose") /\ Step \in Code /\ Step.op = "choose" /\ After \in Seq(Code)
      /\ UNCHANGED <<Output, index>>
  BY TopStep DEF Branch
<1>3. PICK old \in Stations : /\ old = at[Top] /\ old.todo # <<>>
                              /\ Head(old.todo) = Step /\ Tail(old.todo) = After
                              /\ NextStations(old) \subseteq Stations /\ Goes(Frame, old)
  BY <1>1, <1>2, StationDoes
<1>4. ASSUME NEW i \in DOMAIN Step.cases, Holds(Step.cases[i].test, Frame),
             Continue(Step.cases[i].code \o After)
      PROVE  StationInv'
  <2>1. PICK todo \in Seq(Code) : todo = Step.cases[i].code \o After
    BY <1>2, CodeAssumption, ConcatProperties
  <2>2. PICK test, ahead : test = Step.cases[i].test /\ ahead = Passing(test, old.next)
    OBVIOUS
  <2>3. Station(todo, ahead, old.read, old.place, old.held) \in Stations
    BY <1>2, <1>3, <2>1, <2>2, StationChosen
  <2>4. ahead # {} => Peek(0) \in ahead
    BY <1>3, <1>4, <2>2, TestPassed DEF Goes
  <2>5. Continue(todo)
    BY <1>4, <2>1
  <2>. QED  BY <1>1, <1>2, <1>3, <2>3, <2>4, <2>5, TopOnlyProceeds
<1>5. ASSUME Continue(After) PROVE StationInv'
  <2>1. PICK ahead : ahead = old.next
    OBVIOUS
  <2>2. Station(After, ahead, old.read, old.place, old.held) \in Stations
    BY <1>2, <1>3, <2>1, StationOn
  <2>3. ahead # {} => Peek(0) \in ahead
    BY <1>3, <2>1 DEF Goes
  <2>. QED  BY <1>1, <1>2, <1>3, <1>5, <2>2, <2>3, TopOnlyProceeds
<1>. QED  BY <1>4, <1>5 DEF Branch

LEMMA LoopStations == ASSUME Ready, Forest, StationInv, Loop PROVE StationInv'
<1>1. PICK at : StationsFit(at)
  BY DEF StationInv
<1>2. /\ Does("while") /\ Step \in Code /\ Step.op = "while" /\ After \in Seq(Code)
      /\ UNCHANGED <<Output, index>> /\ Frame.todo \in Seq(Code)
  BY <1>1, StationDoes DEF Loop
<1>3. PICK old \in Stations : /\ old = at[Top] /\ old.todo # <<>> /\ old.todo = Frame.todo
                              /\ Head(old.todo) = Step /\ Tail(old.todo) = After
                              /\ NextStations(old) \subseteq Stations /\ Goes(Frame, old)
  BY <1>1, <1>2, StationDoes
<1>4. ASSUME Holds(Step.test, Frame), Continue(Step.code \o Frame.todo) PROVE StationInv'
  <2>1. PICK todo \in Seq(Code) : todo = Step.code \o Frame.todo
    BY <1>2, CodeAssumption, ConcatProperties
  <2>2. PICK test, ahead : test = Step.test /\ ahead = Passing(test, old.next)
    OBVIOUS
  <2>3. Station(todo, ahead, old.read, old.place, old.held) \in Stations
    BY <1>2, <1>3, <2>1, <2>2, StationLooped
  <2>4. ahead # {} => Peek(0) \in ahead
    BY <1>3, <1>4, <2>2, TestPassed DEF Goes
  <2>5. Continue(todo)
    BY <1>4, <2>1
  <2>. QED  BY <1>1, <1>2, <1>3, <2>3, <2>4, <2>5, TopOnlyProceeds
<1>5. ASSUME Continue(After) PROVE StationInv'
  <2>1. PICK ahead : ahead = old.next
    OBVIOUS
  <2>2. Station(After, ahead, old.read, old.place, old.held) \in Stations
    BY <1>2, <1>3, <2>1, StationOn
  <2>3. ahead # {} => Peek(0) \in ahead
    BY <1>3, <2>1 DEF Goes
  <2>. QED  BY <1>1, <1>2, <1>3, <1>5, <2>2, <2>3, TopOnlyProceeds
<1>. QED  BY <1>4, <1>5 DEF Loop

LEMMA ReadLiteralStations == ASSUME Ready, Forest, StationInv, ReadLiteral PROVE StationInv'
<1>1. ASSUME Continue(After), UNCHANGED <<Output, index>> PROVE StationInv'
  <2>1. PICK at : StationsFit(at)
    BY DEF StationInv
  <2>2. Does("reread") /\ Step.op = "reread" /\ After \in Seq(Code)
    BY TopStep DEF ReadLiteral
  <2>3. PICK old \in Stations : /\ old = at[Top] /\ old.todo # <<>>
                                /\ Head(old.todo) = Step /\ Tail(old.todo) = After
                                /\ NextStations(old) \subseteq Stations /\ Goes(Frame, old)
    BY <2>1, <2>2, StationDoes
  <2>4. PICK ahead : ahead = old.next
    OBVIOUS
  <2>5. Station(After, ahead, old.read, old.place, old.held) \in Stations
    BY <2>2, <2>3, <2>4, StationOn
  <2>6. ahead # {} => Peek(0) \in ahead
    BY <2>3, <2>4 DEF Goes
  <2>. QED  BY <1>1, <2>1, <2>2, <2>3, <2>5, <2>6, TopOnlyProceeds
<1>. QED  BY <1>1, StationsStay DEF ReadLiteral

-----------------------------------------------------------------------------
(* The steps that change something of the innermost call                   *)

\* It goes on as another call, at another station, with the nodes that there are.
LEMMA TopTakes ==
  ASSUME Ready, Forest, outcome = "running", tokens' = tokens, nodes' = nodes, index' = index,
         NEW at, StationsFit(at), NEW old, old = at[Top],
         NEW frame \in FrameRecord, stack' = [stack EXCEPT ![Top] = frame],
         KidIds(frame.kids) \subseteq DOMAIN nodes, frame.field = Frame.field,
         NEW next, Stands(frame, next), Goes(frame, next),
         Strict(next) <=> Strict(old), Strict(old) => frame.start = Frame.start
  PROVE  StationInv'
<1>1. NodesGrow /\ index' \in Nat /\ index <= index'
  BY TokensThere DEF NodesGrow
<1>2. Stands(frame, next)'
  BY <1>1, StandsKept, TokensThere
<1>3. Goes(frame, next)'
  BY DEF Goes, HasRead, OnlyOpened, AllBefore, Before, Peek, TokenType
<1>. QED  BY <1>1, <1>2, <1>3, TopTurns

LEMMA StartSubmodulesStations ==
  ASSUME Ready, Forest, StationInv, StartSubmodules PROVE StationInv'
<1>1. PICK at : StationsFit(at)
  BY DEF StationInv
<1>2. /\ outcome = "running" /\ Step.op = "open_module" /\ Does("open_module")
      /\ tokens' = tokens /\ nodes' = nodes /\ index' = index
      /\ After \in Seq(Code) /\ Frame \in FrameRecord
  BY <1>1, StationDoes DEF StartSubmodules
<1>3. PICK old \in Stations : /\ old = at[Top] /\ old.todo # <<>>
                              /\ Head(old.todo) = Step /\ Tail(old.todo) = After
                              /\ NextStations(old) \subseteq Stations /\ Goes(Frame, old)
  BY <1>1, <1>2, StationDoes
<1>4. PICK frame : frame = [Frame EXCEPT !.todo = After, !.saved = submodules]
  OBVIOUS
<1>5. /\ frame \in FrameRecord /\ frame.kids = Frame.kids /\ frame.todo = After
      /\ frame.start = Frame.start /\ frame.end = Frame.end /\ frame.field = Frame.field
  BY <1>2, <1>4 DEF FrameRecord, Ready, TypeOK
<1>6. stack' = [stack EXCEPT ![Top] = frame]
  BY <1>4 DEF StartSubmodules, Frame
<1>7. PICK ahead : ahead = old.next
  OBVIOUS
<1>8. Station(frame.todo, ahead, old.read, old.place, old.held) \in Stations
  BY <1>2, <1>3, <1>5, <1>7, StationOn
<1>9. ahead # {} => Peek(0) \in ahead
  BY <1>3, <1>7 DEF Goes
<1>. QED  BY <1>1, <1>2, <1>3, <1>5, <1>6, <1>8, <1>9, TopProceeds

LEMMA FixEndStations == ASSUME Ready, Forest, StationInv, FixEnd PROVE StationInv'
<1>1. PICK at : StationsFit(at)
  BY DEF StationInv
<1>2. /\ outcome = "running" /\ Step.op = "early" /\ Does("early") /\ After \in Seq(Code)
      /\ tokens' = tokens /\ nodes' = nodes /\ index' = index
      /\ Frame \in FrameRecord /\ KidIds(Frame.kids) \subseteq DOMAIN nodes
  BY <1>1, StationDoes DEF FixEnd, Output
<1>3. PICK old \in Stations : /\ old = at[Top] /\ old.todo # <<>>
                              /\ Head(old.todo) = Step /\ Tail(old.todo) = After
                              /\ NextStations(old) \subseteq Stations /\ Safe(old)
                              /\ Stands(Frame, old) /\ Goes(Frame, old)
  BY <1>1, <1>2, StationDoes
<1>4. PICK end \in {NoToken, index} :
        stack' = [stack EXCEPT ![Top] = [Frame EXCEPT !.todo = After, !.end = end]]
  BY DEF FixEnd, Frame
<1>5. PICK frame : frame = [Frame EXCEPT !.todo = After, !.end = end]
  OBVIOUS
<1>6. end \in Int /\ end <= index
  BY TokensThere DEF NoToken
<1>7. /\ frame \in FrameRecord /\ frame.kids = Frame.kids /\ frame.todo = After
      /\ frame.start = Frame.start /\ frame.end = end /\ frame.field = Frame.field
  BY <1>2, <1>5, <1>6 DEF FrameRecord
<1>8. PICK next \in Stations : next = Station(After, old.next, 0, old.place, "moved")
  BY <1>2, <1>3, StationMoved
<1>9. /\ next.todo = After /\ next.next = old.next /\ next.read = 0
      /\ next.place = old.place /\ next.held = "moved"
  BY <1>8, StationParts
<1>10. ~Holding(old)
  BY <1>2, <1>3 DEF Safe
<1>11. Strict(next) <=> Strict(old)
  BY <1>9 DEF Strict
<1>12. Stands(frame, next)
  BY <1>3, <1>6, <1>7, <1>9, <1>10, <1>11 DEF Stands, KidsStand
<1>13. Goes(frame, next)
  BY <1>3, <1>7, <1>9 DEF Goes, HasRead
<1>14. stack' = [stack EXCEPT ![Top] = frame]
  BY <1>4, <1>5
<1>. QED  BY <1>1, <1>2, <1>3, <1>7, <1>11, <1>12, <1>13, <1>14, TopTakes

LEMMA FixStartStations == ASSUME Ready, Forest, StationInv, FixStart PROVE StationInv'
<1>1. PICK at : StationsFit(at)
  BY DEF StationInv
<1>2. /\ outcome = "running" /\ Step \in Code /\ Step.op = "start" /\ Does("start")
      /\ After \in Seq(Code) /\ tokens' = tokens /\ nodes' = nodes /\ index' = index
      /\ Frame \in FrameRecord /\ KidIds(Frame.kids) \subseteq DOMAIN nodes
  BY <1>1, StationDoes DEF FixStart, Output
<1>3. PICK old \in Stations : /\ old = at[Top] /\ old.todo # <<>>
                              /\ Head(old.todo) = Step /\ Tail(old.todo) = After
                              /\ NextStations(old) \subseteq Stations /\ Safe(old)
                              /\ Stands(Frame, old) /\ Goes(Frame, old)
  BY <1>1, <1>2, StationDoes
<1>4. PICK start \in Int : start = index - Step.back /\ start <= index
  <2>1. Step.back \in Nat
    BY <1>2, CodeAssumption
  <2>. QED  BY <2>1, TokensThere
<1>5. PICK exact \in BOOLEAN : exact = (Step.back = 0 /\ Frame.kids = <<>>)
  OBVIOUS
<1>6. PICK frame : frame = [Frame EXCEPT !.todo = After, !.start = start, !.exact = exact]
  OBVIOUS
<1>7. /\ frame \in FrameRecord /\ frame.kids = Frame.kids /\ frame.todo = After
      /\ frame.start = start /\ frame.end = Frame.end /\ frame.field = Frame.field
  BY <1>2, <1>6 DEF FrameRecord
<1>8. stack' = [stack EXCEPT ![Top] = frame]
  BY <1>4, <1>5, <1>6 DEF FixStart, Frame
<1>9. PICK next \in Stations : next = Station(After, old.next, 0, old.place, "moved")
  BY <1>2, <1>3, StationMoved
<1>10. /\ next.todo = After /\ next.next = old.next /\ next.read = 0
       /\ next.place = old.place /\ next.held = "moved"
  BY <1>9, StationParts
<1>11. ~Holding(old) /\ ~Strict(old) /\ ~Strict(next)
  BY <1>2, <1>3, <1>10 DEF Safe, Strict
<1>12. NoElse(Frame.kids)
  BY <1>3, <1>11 DEF Stands, KidsStand
<1>13. KidsStand(frame.kids, frame.start, next)
  BY <1>7, <1>11, <1>12 DEF KidsStand, NoElse, Branches, Strict
<1>14. Stands(frame, next)
  BY <1>3, <1>4, <1>7, <1>10, <1>11, <1>13 DEF Stands
<1>15. Goes(frame, next)
  BY <1>3, <1>7, <1>10, <1>11 DEF Goes, HasRead, Strict
<1>. QED  BY <1>1, <1>2, <1>3, <1>7, <1>8, <1>11, <1>14, <1>15, TopTakes

LEMMA RenameStations == ASSUME Ready, Forest, StationInv, Rename PROVE StationInv'
<1>1. PICK at : StationsFit(at)
  BY DEF StationInv
<1>2. /\ outcome = "running" /\ Step \in Code /\ Step.op = "relabel" /\ Does("relabel")
      /\ After \in Seq(Code) /\ tokens' = tokens /\ nodes' = nodes /\ index' = index
      /\ Frame \in FrameRecord /\ Frame.kids \in Seq(Kid)
      /\ KidIds(Frame.kids) \subseteq DOMAIN nodes
  BY <1>1, StationDoes DEF Rename, Output
<1>3. PICK old \in Stations : /\ old = at[Top] /\ old.todo # <<>>
                              /\ Head(old.todo) = Step /\ Tail(old.todo) = After
                              /\ NextStations(old) \subseteq Stations /\ Safe(old)
                              /\ Stands(Frame, old) /\ Goes(Frame, old)
  BY <1>1, <1>2, StationDoes
<1>4. PICK kids \in Seq(Kid), field \in Fields : kids = Frame.kids /\ field = Step.field
  BY <1>2, CodeAssumption
<1>5. PICK n \in Nat : n = Len(kids) /\ n \in 1..n
  <2>1. kids # <<>> /\ Len(kids) \in Nat
    BY <1>4, LenProperties DEF Rename
  <2>. QED  BY <2>1, EmptySeq
<1>6. PICK kid : kid = [kids[n] EXCEPT !.field = field]
  OBVIOUS
<1>7. PICK renamed : renamed = [kids EXCEPT ![n] = kid]
  OBVIOUS
<1>8. ~Holding(old) /\ field # Else
  BY <1>2, <1>3, <1>4 DEF Safe
<1>9. NoElse(kids)
  BY <1>3, <1>4, <1>8 DEF Stands, KidsStand
<1>10. /\ renamed \in Seq(Kid) /\ Len(renamed) = n /\ NoElse(renamed)
       /\ \A i \in 1..n : renamed[i].id = kids[i].id
       /\ KidIds(renamed) = KidIds(kids)
  <2>1. n \in 1..Len(kids) /\ Len(kids) = n
    BY <1>5
  <2>2. kids[n] \in Kid
    BY <1>5
  <2>3. kid \in Kid /\ kid.id = kids[n].id /\ kid.field = field
    BY <1>4, <1>6, <2>2 DEF Kid
  <2>4. /\ renamed \in Seq(Kid) /\ Len(renamed) = Len(kids)
        /\ \A j \in 1..Len(kids) : renamed[j] = IF j = n THEN kid ELSE kids[j]
    BY <1>7, <2>1, <2>3, ExceptSeq
  <2>5. \A j \in 1..Len(kids) : renamed[j].id = kids[j].id
    BY <2>3, <2>4
  <2>6. NoElse(renamed)
    BY <1>8, <1>9, <2>3, <2>4 DEF NoElse
  <2>7. KidIds(renamed) = KidIds(kids)
    BY <2>4, <2>5, SameIds
  <2>. QED  BY <2>1, <2>4, <2>5, <2>6, <2>7
<1>11. PICK frame : frame = [Frame EXCEPT !.todo = After, !.kids = renamed]
  OBVIOUS
<1>12. /\ frame \in FrameRecord /\ frame.kids = renamed /\ frame.todo = After
       /\ frame.start = Frame.start /\ frame.end = Frame.end /\ frame.field = Frame.field
  BY <1>2, <1>10, <1>11 DEF FrameRecord
<1>13. stack' = [stack EXCEPT ![Top] = frame]
  BY <1>4, <1>5, <1>6, <1>7, <1>11 DEF Rename, Frame
<1>14. PICK next \in Stations : next = Station(After, old.next, old.read, old.place, old.held)
  BY <1>2, <1>3, StationOn
<1>15. /\ next.todo = After /\ next.next = old.next /\ next.read = old.read
       /\ next.place = old.place /\ next.held = old.held
  BY <1>14, StationParts
<1>16. kids # <<>> /\ renamed # <<>> /\ renamed[1].id = kids[1].id
  BY <1>5, <1>10, EmptySeq
<1>17. KidsStand(frame.kids, frame.start, next)
  BY <1>3, <1>4, <1>10, <1>12, <1>15, <1>16 DEF Stands, KidsStand, NoElse, Branches
<1>18. Strict(next) <=> Strict(old)
  BY <1>15 DEF Strict
<1>19. Stands(frame, next)
  BY <1>3, <1>12, <1>15, <1>17, <1>18 DEF Stands
<1>20. AllBefore(kids, index) => AllBefore(renamed, index)
  BY <1>5, <1>10 DEF AllBefore
<1>21. Goes(frame, next)
  BY <1>3, <1>4, <1>8, <1>12, <1>15, <1>16, <1>20 DEF Goes, Holding
<1>22. KidIds(frame.kids) \subseteq DOMAIN nodes
  BY <1>2, <1>4, <1>10, <1>12
<1>. QED  BY <1>1, <1>2, <1>3, <1>12, <1>13, <1>18, <1>19, <1>21, <1>22, TopTakes

\* One child less.
LEMMA BranchesLess ==
  ASSUME NEW kids \in Seq(Kid), NEW start, Branches(kids, start), NEW i \in 1..Len(kids),
         NEW less, less = RemoveAt(kids, i)
  PROVE  Branches(less, start)
<1>1. PICK n \in Nat : n = Len(kids)
  BY LenProperties
<1>2. /\ less \in Seq(Kid) /\ Len(less) = n - 1
      /\ \A j \in 1..(n - 1) : less[j] = IF j < i THEN kids[j] ELSE kids[j + 1]
  BY <1>1, KidsLeft
<1>3. ASSUME NEW j \in 1..Len(less), less[j].field = Else
      PROVE  /\ StartsIn(less[j].id, start)
             /\ \A l \in 1..(j - 1) : Before(less[l].id, nodes[less[j].id].start)
  <2>1. PICK jj \in 1..n : jj = (IF j < i THEN j ELSE j + 1) /\ less[j] = kids[jj]
    BY <1>1, <1>2
  <2>2. /\ StartsIn(kids[jj].id, start)
        /\ \A l \in 1..(jj - 1) : Before(kids[l].id, nodes[kids[jj].id].start)
    BY <1>1, <1>3, <2>1 DEF Branches
  <2>3. ASSUME NEW l \in 1..(j - 1) PROVE Before(less[l].id, nodes[less[j].id].start)
    <3>1. PICK ll \in 1..(jj - 1) : less[l] = kids[ll]
      <4>1. l \in 1..(n - 1) /\ l < j
        BY <1>1, <1>2
      <4>2. CASE l < i
        <5>1. l \in 1..(jj - 1) /\ less[l] = kids[l]
          BY <1>1, <1>2, <2>1, <4>1, <4>2
        <5>. QED  BY <5>1
      <4>3. CASE ~(l < i)
        <5>1. l + 1 \in 1..(jj - 1) /\ less[l] = kids[l + 1]
          BY <1>1, <1>2, <2>1, <4>1, <4>3
        <5>. QED  BY <5>1
      <4>. QED  BY <4>2, <4>3
    <3>. QED  BY <2>1, <2>2, <3>1
  <2>. QED  BY <2>1, <2>2, <2>3
<1>. QED  BY <1>3 DEF Branches

LEMMA ReassignStations == ASSUME Ready, Forest, StationInv, Reassign PROVE StationInv'
<1>1. PICK at : StationsFit(at)
  BY DEF StationInv
<1>2. /\ outcome = "running" /\ Step.op = "overwrite" /\ Does("overwrite")
      /\ After \in Seq(Code) /\ tokens' = tokens /\ nodes' = nodes /\ index' = index
      /\ Frame \in FrameRecord /\ Frame.kids \in Seq(Kid)
      /\ KidIds(Frame.kids) \subseteq DOMAIN nodes
  BY <1>1, StationDoes DEF Reassign, Output
<1>3. PICK old \in Stations : /\ old = at[Top] /\ old.todo # <<>>
                              /\ Head(old.todo) = Step /\ Tail(old.todo) = After
                              /\ NextStations(old) \subseteq Stations /\ Safe(old)
                              /\ Stands(Frame, old) /\ Goes(Frame, old)
  BY <1>1, <1>2, StationDoes
<1>4. PICK next \in Stations : next = Station(After, old.next, 0,
                                 IF Strict(old) THEN "bad" ELSE "free", "yes")
  BY <1>2, <1>3, StationOverwritten
<1>5. /\ next.todo = After /\ next.next = old.next /\ next.read = 0
      /\ next.place \in {"bad", "free"} /\ next.held = "yes"
      /\ Strict(next) <=> Strict(old)
  <2>1. PICK place : place = IF Strict(old) THEN "bad" ELSE "free"
    OBVIOUS
  <2>2. next.place = place
    BY <1>4, <2>1, StationParts
  <2>. QED  BY <1>4, <2>1, <2>2, StationParts DEF Strict
<1>6. old.held = "new"
  BY <1>2, <1>3 DEF Safe
<1>7. ASSUME NEW kids \in Seq(Kid), kids # <<>>, KidIds(kids) \subseteq DOMAIN nodes,
             Branches(kids, Frame.start),
             stack' = [stack EXCEPT ![Top] = [Frame EXCEPT !.todo = After, !.kids = kids]]
      PROVE  StationInv'
  <2>1. PICK frame : frame = [Frame EXCEPT !.todo = After, !.kids = kids]
    OBVIOUS
  <2>2. /\ frame \in FrameRecord /\ frame.kids = kids /\ frame.todo = After
        /\ frame.start = Frame.start /\ frame.end = Frame.end /\ frame.field = Frame.field
    BY <1>2, <2>1 DEF FrameRecord
  <2>3. KidsStand(frame.kids, frame.start, next)
    BY <1>5, <1>7, <2>2 DEF KidsStand, Holding
  <2>4. Stands(frame, next)
    BY <1>3, <1>5, <1>6, <2>2, <2>3 DEF Stands
  <2>5. Goes(frame, next)
    BY <1>3, <1>5, <1>7, <2>2 DEF Goes, HasRead
  <2>6. stack' = [stack EXCEPT ![Top] = frame] /\ KidIds(frame.kids) \subseteq DOMAIN nodes
    BY <1>7, <2>1, <2>2
  <2>. QED  BY <1>1, <1>2, <1>3, <1>5, <2>2, <2>4, <2>5, <2>6, TopTakes
<1>8. PICK kids \in Seq(Kid), start \in Int :
        kids = Frame.kids /\ kids # <<>> /\ start = Frame.start
  BY <1>2, FrameFacts DEF Reassign
<1>9. Branches(kids, start)
  BY <1>3, <1>8 DEF Stands, KidsStand
<1>10. ASSUME Continue(After) PROVE StationInv'
  <2>1. [Frame EXCEPT !.todo = After, !.kids = kids] = [Frame EXCEPT !.todo = After]
    BY <1>2, <1>8 DEF FrameRecord
  <2>2. stack' = [stack EXCEPT ![Top] = [Frame EXCEPT !.todo = After]]
    BY <1>2, <1>10, ContinueTop
  <2>. QED  BY <1>2, <1>7, <1>8, <1>9, <2>1, <2>2
<1>11. ASSUME NEW i \in 1..(Len(kids) - 1),
              stack' = [stack EXCEPT ![Top] =
                          [@ EXCEPT !.todo = After, !.kids = RemoveAt(kids, i)]]
       PROVE  StationInv'
  <2>1. PICK less : less = RemoveAt(kids, i)
    OBVIOUS
  <2>2. Len(kids) \in Nat /\ i \in 1..Len(kids)
    BY <1>11, LenProperties
  <2>3. less \in Seq(Kid) /\ Len(less) = Len(kids) - 1 /\ KidIds(less) \subseteq KidIds(kids)
    BY <2>1, <2>2, KidsLeft, OneKidLess
  <2>4. less # <<>>
    BY <1>11, <2>2, <2>3
  <2>5. stack' = [stack EXCEPT ![Top] = [Frame EXCEPT !.todo = After, !.kids = less]]
    BY <1>11, <2>1 DEF Frame
  <2>6. Branches(less, start)
    BY <1>9, <2>1, <2>2, BranchesLess
  <2>. QED  BY <1>2, <1>7, <1>8, <2>3, <2>4, <2>5, <2>6
<1>. QED  BY <1>8, <1>10, <1>11 DEF Reassign

\* A node is made.
LEMMA NodeAdded ==
  ASSUME Ready, tokens' = tokens, NEW node \in NodeRecord, nodes' = Append(nodes, node)
  PROVE  /\ NodesGrow /\ NewId \in Nat /\ NewId \in DOMAIN nodes' /\ nodes'[NewId] = node
         /\ DOMAIN nodes' = DOMAIN nodes \cup {NewId} /\ NewId \notin DOMAIN nodes
         /\ \A id \in DOMAIN nodes : nodes'[id] = nodes[id]
<1>1. /\ NewId = Len(nodes) + 1 /\ Len(nodes) \in Nat
      /\ DOMAIN nodes' = 1..NewId /\ DOMAIN nodes = 1..(NewId - 1)
      /\ nodes'[NewId] = node
      /\ \A i \in DOMAIN nodes : nodes'[i] = nodes[i]
  BY OneMoreNode
<1>2. NodesGrow
  BY <1>1 DEF NodesGrow
<1>. QED  BY <1>1, <1>2

LEMMA MakeOperandStations == ASSUME Ready, Forest, StationInv, MakeOperand PROVE StationInv'
<1>1. PICK at : StationsFit(at)
  BY DEF StationInv
<1>2. /\ outcome = "running" /\ Step \in Code /\ Step.op = "wrap" /\ Does("wrap")
      /\ After \in Seq(Code) /\ tokens' = tokens /\ index' = index
      /\ Top \in 1..Top /\ Frame = stack[Top] /\ Frame \in FrameRecord
      /\ Frame.kids \in Seq(Kid) /\ KidIds(Frame.kids) \subseteq DOMAIN nodes
  BY <1>1, StationDoes DEF MakeOperand
<1>3. PICK old \in Stations : /\ old = at[Top] /\ old.todo # <<>>
                              /\ Head(old.todo) = Step /\ Tail(old.todo) = After
                              /\ NextStations(old) \subseteq Stations /\ Safe(old)
                              /\ Stands(Frame, old) /\ Goes(Frame, old)
  BY <1>1, <1>2, StationDoes
<1>4. PICK type \in NodeTypes, field \in Fields : type = Step.type /\ field = Step.first
  BY <1>2, CodeAssumption
<1>5. PICK kids \in Seq(Kid), start \in Int :
        kids = Frame.kids /\ kids # <<>> /\ start = Frame.start
  BY <1>2, FrameFacts DEF MakeOperand
<1>6. 1 \in 1..Len(kids) /\ kids[1] \in Kid
  BY <1>5, EmptySeq
<1>7. PICK kid : kid = [kids[1] EXCEPT !.field = field]
  OBVIOUS
<1>8. PICK renamed : renamed = [kids EXCEPT ![1] = kid]
  OBVIOUS
<1>9. renamed \in Seq(Kid) /\ KidIds(renamed) = KidIds(kids)
      /\ (Increasing(kids) => Increasing(renamed))
  <2>1. kid \in Kid /\ kid.id = kids[1].id
    BY <1>4, <1>6, <1>7 DEF Kid
  <2>2. /\ renamed \in Seq(Kid) /\ Len(renamed) = Len(kids)
        /\ \A j \in 1..Len(kids) : renamed[j] = IF j = 1 THEN kid ELSE kids[j]
    BY <1>6, <1>8, <2>1, ExceptSeq
  <2>3. \A j \in 1..Len(kids) : renamed[j].id = kids[j].id
    BY <2>1, <2>2
  <2>. QED  BY <2>2, <2>3, SameIds
<1>10. PICK node : node = NodeOf(type, renamed)
  OBVIOUS
<1>11. node \in NodeRecord /\ nodes' = Append(nodes, node) /\ node.start = start
  <2>1. KidIds(renamed) = Owned(Top) /\ (Increasing(Frame.kids) => Increasing(renamed))
    BY <1>2, <1>5, <1>9 DEF Owned
  <2>2. node \in NodeRecord /\ node.start = start
    BY <1>2, <1>5, <1>9, <1>10, <2>1, MadeNode DEF NodeOf
  <2>. QED  BY <1>4, <1>5, <1>7, <1>8, <1>10, <2>2 DEF MakeOperand
<1>12. /\ NodesGrow /\ NewId \in Nat /\ NewId \in DOMAIN nodes' /\ nodes'[NewId] = node
  BY <1>2, <1>11, NodeAdded
<1>13. PICK id \in Nat : id = NewId
  BY <1>12
<1>14. PICK left : left = [field |-> kids[1].field, id |-> id]
  OBVIOUS
<1>15. left \in Kid /\ left.id = id /\ left.field = kids[1].field
  BY <1>6, <1>14 DEF Kid
<1>16. PICK only \in Seq(Kid) : only = <<left>> /\ Len(only) = 1 /\ only[1] = left /\ only # <<>>
  <2>1. <<left>> \in Seq(Kid)
    BY <1>15
  <2>. QED  BY <2>1
<1>17. PICK frame : frame = [Frame EXCEPT !.todo = After, !.end = NoToken, !.kids = only]
  OBVIOUS
<1>18. /\ frame \in FrameRecord /\ frame.kids = only /\ frame.todo = After
       /\ frame.start = start /\ frame.end = NoToken /\ frame.field = Frame.field
  <2>1. NoToken \in Int
    BY DEF NoToken
  <2>. QED  BY <1>2, <1>5, <1>17, <2>1 DEF FrameRecord
<1>19. stack' = [stack EXCEPT ![Top] = frame]
  BY <1>5, <1>13, <1>14, <1>16, <1>17 DEF MakeOperand, Frame
<1>20. PICK next \in Stations : next = Station(After, old.next, 0,
                                  IF Strict(old) THEN "good" ELSE "free", old.held)
  BY <1>2, <1>3, StationWrapped
<1>21. /\ next.todo = After /\ next.next = old.next /\ next.read = 0
       /\ next.place \in {"good", "free"} /\ next.held = old.held
       /\ Strict(next) <=> Strict(old)
  <2>1. PICK place : place = IF Strict(old) THEN "good" ELSE "free"
    OBVIOUS
  <2>2. next.place = place
    BY <1>20, <2>1, StationParts
  <2>. QED  BY <1>20, <2>1, <2>2, StationParts DEF Strict
<1>22. ~Holding(old)
  BY <1>2, <1>3 DEF Safe
<1>23. kids[1].field # Else
  BY <1>3, <1>5, <1>6, <1>22 DEF Stands, KidsStand, NoElse
<1>24. Strict(next) => BehindElse(start)'
  <2>1. Strict(next) => BehindElse(start)
    BY <1>3, <1>5, <1>21 DEF Stands
  <2>. QED  BY <1>2, <2>1, BehindKept
<1>25. Strict(next) => StartsIn(id, start)'
  <2>1. nodes'[id].start = start
    BY <1>11, <1>12, <1>13
  <2>2. IsElseBranch(id)' <=> BehindElse(start)'
    BY <2>1 DEF IsElseBranch
  <2>3. start <= start
    OBVIOUS
  <2>. QED  BY <1>24, <2>1, <2>2, <2>3 DEF StartsIn
<1>26. KidsStand(only, start, next)'
  <2>1. \A i \in 1..Len(only) : only[i].field # Else
    BY <1>15, <1>16, <1>23
  <2>2. next.place = "good" => Strict(next)
    BY DEF Strict
  <2>3. StartsIn(only[1].id, start)' <=> StartsIn(id, start)'
    BY <1>15, <1>16
  <2>. QED  BY <1>25, <2>1, <2>2, <2>3 DEF KidsStand, NoElse, Branches
<1>27. Stands(frame, next)'
  <2>1. start <= index /\ index \in Nat
    BY <1>3, <1>5, TokensThere DEF Stands
  <2>2. start <= index' /\ NoToken <= index'
    BY <1>2, <2>1 DEF NoToken
  <2>3. frame.field = Else => Strict(next)
    BY <1>3, <1>18, <1>21 DEF Stands
  <2>. QED  BY <1>18, <1>21, <1>24, <1>26, <2>2, <2>3 DEF Stands
<1>28. Goes(frame, next)'
  <2>1. next.next # {} => Peek(0)' \in next.next
    BY <1>2, <1>3, <1>21 DEF Goes, Peek
  <2>2. next.held # "new"
    BY <1>21, <1>22 DEF Holding
  <2>. QED  BY <1>16, <1>18, <1>21, <2>1, <2>2 DEF Goes, HasRead
<1>29. index' \in Nat /\ index <= index'
  BY <1>2, TokensThere
<1>. QED
  BY <1>1, <1>2, <1>3, <1>5, <1>12, <1>18, <1>19, <1>21, <1>27, <1>28, <1>29, TopTurns

-----------------------------------------------------------------------------
(* The steps that call                                                     *)

\* The calls below, and their stations, when calls that are strict or not begin.
Beneath(b, below, strict) ==
  /\ below \in [1..b -> Stations]
  /\ \A k \in 1..b : Stands(stack[k], below[k])
  /\ \A k \in 1..(b - 1) : Awaits(stack[k], below[k], stack[k + 1], below[k + 1])
  /\ b > 0 => \A first \in Stations : (Strict(first) <=> strict) =>
                Awaits(stack[b], below[b], stack[b + 1], first)
\* What a call may begin with.
Begins(rule, field, start, next, place) ==
  /\ StationsIn(rule, next, place) \subseteq Stations
  /\ place \in {"free", "open", "past"}
  /\ next # {} => Peek(0) \in next
  /\ start <= index
  /\ place # "free" => BehindElse(start)
  /\ place = "open" => OnlyOpened(start)
  /\ field = Else => place # "free"

\* They are at the stations where the method begins, each waiting for the next.
LEMMA CallsStationed ==
  ASSUME NEW rule \in Rules, NEW field, NEW start \in Int, NEW base, NEW b, NEW calls,
         Pushed(base, b, calls, rule, start), index \in Nat,
         \A i \in 1..Len(calls) :
           calls[i].field = IF i = 1 THEN field ELSE Opening[rule][i].field,
         NEW next, NEW place, Begins(rule, field, start, next, place),
         NEW below, NEW strict, strict <=> place # "free", Beneath(b, below, strict)
  PROVE  StationInv
<1>1. PICK c \in Nat \ {0} : c = Len(calls)
  BY DEF Pushed
<1>2. /\ b \in Nat /\ c = Len(Opening[rule]) /\ Top = b + c
      /\ \A i \in 1..c :
           /\ stack[b + i] = calls[i] /\ calls[i].kids = <<>> /\ calls[i].start = start
           /\ calls[i].end = NoToken /\ calls[i].todo = Opening[rule][i].todo
  BY <1>1 DEF Pushed
<1>3. PICK entry : entry = [i \in 1..c |->
        IF i = c THEN Station(Opening[rule][i].todo, next, 0, place, "no")
                 ELSE Station(Opening[rule][i].todo, {}, 0,
                              IF place = "free" THEN "free" ELSE "good", "no")]
  OBVIOUS
<1>4. ASSUME NEW i \in 1..c
      PROVE  /\ entry[i] \in Stations /\ entry[i].todo = calls[i].todo /\ entry[i].read = 0
             /\ entry[i].held = "no"
             /\ entry[i].next = IF i = c THEN next ELSE {}
             /\ i = c => entry[i].place = place
             /\ i # c => entry[i].place = IF place = "free" THEN "free" ELSE "good"
             /\ Strict(entry[i]) <=> strict
  <2>1. PICK waits : waits = IF place = "free" THEN "free" ELSE "good"
    OBVIOUS
  <2>2. PICK known, here : /\ known = IF i = c THEN next ELSE {}
                           /\ here = IF i = c THEN place ELSE waits
    OBVIOUS
  <2>3. PICK todo : todo = Opening[rule][i].todo
    OBVIOUS
  <2>4. entry[i] = Station(todo, known, 0, here, "no")
    BY <1>3, <2>1, <2>2, <2>3
  <2>5. entry[i] \in StationsIn(rule, next, place)
    BY <1>2, <2>1, <2>2, <2>3, <2>4 DEF StationsIn
  <2>6. /\ entry[i].todo = todo /\ entry[i].next = known /\ entry[i].read = 0
        /\ entry[i].place = here /\ entry[i].held = "no"
    BY <2>4, StationParts
  <2>7. here # "free" <=> place # "free"
    BY <2>1, <2>2
  <2>8. todo = calls[i].todo
    BY <1>2, <2>3
  <2>9. entry[i] \in Stations
    BY <2>5 DEF Begins
  <2>. QED  BY <2>1, <2>2, <2>6, <2>7, <2>8, <2>9 DEF Strict
<1>5. PICK now : now = [k \in 1..(b + c) |-> IF k <= b THEN below[k] ELSE entry[k - b]]
  OBVIOUS
<1>6. /\ \A k \in 1..b : now[k] = below[k]
      /\ \A i \in 1..c : b + i \in 1..(b + c) /\ now[b + i] = entry[i]
  <2>1. \A k \in 1..b : k \in 1..(b + c) /\ k <= b
    BY <1>2
  <2>2. \A i \in 1..c : b + i \in 1..(b + c) /\ ~(b + i <= b) /\ (b + i) - b = i
    BY <1>2
  <2>. QED  BY <1>5, <2>1, <2>2
<1>7. \A k \in 1..(b + c) : k \in 1..b \/ \E i \in 1..c : k = b + i
  <2>1. ASSUME NEW k \in 1..(b + c), k \notin 1..b PROVE k - b \in 1..c /\ k = b + (k - b)
    BY <1>2, <2>1
  <2>. QED  BY <2>1
<1>8. now \in [1..(b + c) -> Stations]
  <2>1. ASSUME NEW k \in 1..(b + c) PROVE now[k] \in Stations
    <3>1. CASE k \in 1..b
      BY <1>6, <3>1 DEF Beneath
    <3>2. ASSUME NEW i \in 1..c, k = b + i PROVE now[k] \in Stations
      BY <1>4, <1>6, <3>2
    <3>. QED  BY <1>7, <3>1, <3>2
  <2>. QED  BY <1>5, <2>1
<1>9. ASSUME NEW i \in 1..c PROVE Stands(calls[i], entry[i])
  <2>1. /\ calls[i].kids = <<>> /\ calls[i].start = start /\ calls[i].end = NoToken
        /\ start <= index /\ NoToken <= index /\ 1 \in 1..c
    BY <1>2 DEF NoToken, Begins
  <2>2. calls[i].field = Else => Strict(entry[i])
    <3>1. i # 1 => Opening[rule][i].field # Else
      BY <1>2, StationsClosed
    <3>2. calls[i].field = Else => i = 1 /\ field = Else
      BY <1>1, <3>1
    <3>. QED  BY <1>4, <3>2 DEF Begins
  <2>3. Strict(entry[i]) => BehindElse(start)
    BY <1>4 DEF Begins
  <2>4. Len(<<>>) = 0
    BY EmptySeq
  <2>5. KidsStand(<<>>, start, entry[i])
    BY <2>4 DEF KidsStand, NoElse, Branches
  <2>. QED  BY <1>4, <2>1, <2>2, <2>3, <2>5 DEF Stands
<1>10. \A k \in 1..(b + c) : Stands(stack[k], now[k])
  <2>1. \A k \in 1..b : Stands(stack[k], now[k])
    BY <1>6 DEF Beneath
  <2>2. \A i \in 1..c : Stands(stack[b + i], now[b + i])
    BY <1>2, <1>6, <1>9
  <2>. QED  BY <1>7, <2>1, <2>2
<1>11. Goes(stack[b + c], now[b + c])
  <2>1. c \in 1..c
    OBVIOUS
  <2>2. stack[b + c] = calls[c] /\ now[b + c] = entry[c] /\ calls[c].kids = <<>>
        /\ calls[c].start = start
    BY <1>2, <1>6, <2>1
  <2>3. /\ entry[c].next = next /\ entry[c].read = 0 /\ entry[c].place = place
        /\ entry[c].held = "no"
    BY <1>4, <2>1
  <2>4. Goes(calls[c], entry[c])
    BY <2>2, <2>3 DEF Goes, HasRead, Begins
  <2>. QED  BY <2>2, <2>4
<1>12. ASSUME NEW i \in 1..c, i # c PROVE Awaits(calls[i], entry[i], calls[i + 1], entry[i + 1])
  <2>1. i + 1 \in 1..c /\ i + 1 # 1 /\ i + 1 \in 2..Len(Opening[rule])
    BY <1>2, <1>12
  <2>2. PICK above, over : above = calls[i + 1] /\ over = entry[i + 1]
    OBVIOUS
  <2>3. above.field # Else
    <3>1. Opening[rule][i + 1].field # Else
      BY <2>1, StationsClosed
    <3>. QED  BY <1>1, <2>1, <2>2, <3>1
  <2>4. above.start = start /\ calls[i].start = start /\ calls[i].kids = <<>> /\ start <= start
    BY <1>2, <2>1, <2>2
  <2>5. AllBefore(<<>>, start)
    <3>1. Len(<<>>) = 0
      BY EmptySeq
    <3>. QED  BY <3>1 DEF AllBefore
  <2>6. Strict(over) <=> strict
    BY <1>4, <2>1, <2>2
  <2>7. /\ entry[i].next = {} /\ entry[i].read = 0 /\ entry[i].held = "no"
        /\ entry[i].place = IF place = "free" THEN "free" ELSE "good"
    BY <1>4, <1>12
  <2>8. Awaits(calls[i], entry[i], above, over)
    BY <2>3, <2>4, <2>5, <2>6, <2>7 DEF Awaits
  <2>. QED  BY <2>2, <2>8
<1>13. ASSUME NEW k \in 1..((b + c) - 1)
       PROVE  Awaits(stack[k], now[k], stack[k + 1], now[k + 1])
  <2>1. CASE k \in 1..(b - 1)
    <3>1. k \in 1..b /\ k + 1 \in 1..b
      BY <1>2, <2>1
    <3>. QED  BY <1>6, <2>1, <3>1 DEF Beneath
  <2>2. CASE k = b /\ b > 0
    <3>1. 1 \in 1..c /\ b \in 1..b
      BY <1>2, <2>2
    <3>2. now[b + 1] = entry[1] /\ entry[1] \in Stations /\ (Strict(entry[1]) <=> strict)
          /\ now[b] = below[b]
      BY <1>4, <1>6, <3>1
    <3>. QED  BY <2>2, <3>2 DEF Beneath
  <2>3. CASE k \notin 1..b
    <3>1. PICK i \in 1..c : k = b + i
      BY <1>2, <1>7, <2>3
    <3>2. i # c /\ k + 1 = b + (i + 1) /\ i + 1 \in 1..c
      BY <1>2, <3>1
    <3>3. stack[k] = calls[i] /\ now[k] = entry[i] /\ stack[k + 1] = calls[i + 1]
          /\ now[k + 1] = entry[i + 1]
      BY <1>2, <1>6, <3>1, <3>2
    <3>4. Awaits(calls[i], entry[i], calls[i + 1], entry[i + 1])
      BY <1>12, <3>2
    <3>. QED  BY <3>3, <3>4
  <2>. QED  BY <1>2, <2>1, <2>2, <2>3
<1>14. StationsFit(now)
  BY <1>2, <1>8, <1>10, <1>11, <1>13 DEF StationsFit
<1>. QED  BY <1>14 DEF StationInv

\* The same behind a step.
AllStationed ==
  \A rule \in Rules, start \in Int : \A field, base, b, calls, next, place, below, strict :
    /\ Pushed(base, b, calls, rule, start) /\ index \in Nat
    /\ \A i \in 1..Len(calls) :
         calls[i].field = IF i = 1 THEN field ELSE Opening[rule][i].field
    /\ Begins(rule, field, start, next, place)
    /\ (strict <=> place # "free") /\ Beneath(b, below, strict)
    => StationInv
LEMMA CallsStationedNext == AllStationed'
<1>1. AllStationed
  BY CallsStationed DEF AllStationed
<1>. QED  BY <1>1, PTL

LEMMA FieldsCalled ==
  ASSUME NEW rule \in Rules, NEW field \in Fields, NEW start \in Int, NEW exact \in BOOLEAN,
         NEW calls, calls = Calls(rule, field, start, exact)
  PROVE  \A i \in 1..Len(calls) :
           calls[i].field = IF i = 1 THEN field ELSE Opening[rule][i].field
<1>1. Opening[rule] \in Seq([todo : Seq(Code), field : Fields])
  BY GrammarAssumption, Zenon
<1>2. Len(Opening[rule]) \in Nat
  BY <1>1, LenProperties
<1>. QED  BY <1>2 DEF Calls

\* The calls that go on as they are.
LEMMA LowerStay ==
  ASSUME Ready, Forest, NodesGrow, index' \in Nat, index <= index', NEW at, StationsFit(at),
         NEW t \in Nat, t <= Top, \A k \in 1..t : stack'[k] = stack[k]
  PROVE  /\ \A k \in 1..t : Stands(stack[k], at[k])'
         /\ \A k \in 1..(t - 1) : Awaits(stack[k], at[k], stack[k + 1], at[k + 1])'
<1>1. Top \in Nat
  BY CallFacts
<1>2. ASSUME NEW k \in 1..t PROVE Stands(stack[k], at[k])'
  <2>1. k \in 1..Top
    BY <1>1
  <2>0. PICK station : station = at[k]
    OBVIOUS
  <2>2. PICK called \in FrameRecord : called = stack[k]
    BY <2>1, CallFacts
  <2>3. stack'[k] = called /\ KidIds(called.kids) \subseteq DOMAIN nodes
    BY <2>1, <2>2, CallFacts
  <2>4. Stands(called, station)
    BY <2>0, <2>1, <2>2 DEF StationsFit
  <2>5. Stands(called, station)'
    BY <2>3, <2>4, StandsKept, TokensThere
  <2>. QED  BY <2>0, <2>2, <2>3, <2>5
<1>3. ASSUME NEW k \in 1..(t - 1) PROVE Awaits(stack[k], at[k], stack[k + 1], at[k + 1])'
  <2>1. k \in 1..Top /\ k \in 1..(Top - 1) /\ k \in 1..t /\ k + 1 \in 1..t
    BY <1>1
  <2>2. PICK called \in FrameRecord : called = stack[k]
    BY <2>1, CallFacts
  <2>3. PICK station, above, over : station = at[k] /\ above = stack[k + 1] /\ over = at[k + 1]
    OBVIOUS
  <2>4. /\ stack'[k] = called /\ stack'[k + 1] = above
        /\ KidIds(called.kids) \subseteq DOMAIN nodes
    BY <2>1, <2>2, <2>3, CallFacts
  <2>5. Awaits(called, station, above, over)
    BY <2>1, <2>2, <2>3 DEF StationsFit
  <2>6. Awaits(called, station, above, over)'
    BY <2>4, <2>5, AwaitsKept
  <2>. QED  BY <2>2, <2>3, <2>4, <2>6
<1>. QED  BY <1>2, <1>3

LEMMA BeginsKept ==
  ASSUME tokens' = tokens, index' = index,
         NEW rule, NEW field, NEW start, NEW next, NEW place,
         Begins(rule, field, start, next, place)
  PROVE  Begins(rule, field, start, next, place)'
  BY DEF Begins, BehindElse, OnlyOpened, Peek, TokenType

\* What is read or opened is behind `else =>'.
LEMMA BehindRead ==
  ASSUME HasRead(2), index \in Nat
  PROVE  BehindElse(index)
<1>1. /\ index - 1 \in 1..(index - 1) /\ (index - 1) - 1 = index - 2
      /\ TokenType(index - 2) = "else" /\ TokenType(index - 1) = "=>"
  BY DEF HasRead
<1>2. \A between \in ((index - 1) + 1)..(index - 1) : FALSE
  OBVIOUS
<1>3. PICK arrow \in 1..(index - 1) : arrow = index - 1
  BY <1>1
<1>4. /\ TokenType(arrow - 1) = "else" /\ TokenType(arrow) = "=>"
      /\ \A between \in (arrow + 1)..(index - 1) : TokenType(between) \in OpenParentheses
  BY <1>1, <1>2, <1>3
<1>. QED  BY <1>4 DEF BehindElse

LEMMA BehindOpened ==
  ASSUME NEW start \in Int, index \in Nat, start <= index, BehindElse(start), OnlyOpened(start)
  PROVE  BehindElse(index)
<1>1. PICK arrow \in 1..(start - 1) :
        /\ TokenType(arrow - 1) = "else" /\ TokenType(arrow) = "=>"
        /\ \A between \in (arrow + 1)..(start - 1) : TokenType(between) \in OpenParentheses
  BY DEF BehindElse
<1>2. arrow \in 1..(index - 1)
  OBVIOUS
<1>3. \A between \in (arrow + 1)..(index - 1) : TokenType(between) \in OpenParentheses
  <2>1. \A between \in (arrow + 1)..(index - 1) :
          between \in (arrow + 1)..(start - 1) \/ between \in start..(index - 1)
    OBVIOUS
  <2>. QED  BY <1>1, <2>1 DEF OnlyOpened
<1>. QED  BY <1>1, <1>2, <1>3 DEF BehindElse

\* The call that waits, and what is called.
LEMMA CallFits ==
  ASSUME Ready, Forest, Does("parse"), NEW at, StationsFit(at), NEW old, old = at[Top],
         NEW rule, NEW field, NEW own \in BOOLEAN, NEW begin,
         rule = Step.rule, field = Step.field, own = Step.own,
         begin = IF own THEN index ELSE Frame.start,
         NEW waiting, waiting = Station(After, {}, 0, PlaceWaiting(old.place, own),
                                        HeldWaiting(old.held, field)),
         NEW place, place = ChildPlace(old.place, own, field),
         NEW frame, frame = [Frame EXCEPT !.todo = After]
  PROVE  /\ Begins(rule, field, begin, old.next, place)
         /\ Stands(frame, waiting) /\ (Strict(waiting) <=> Strict(old))
         /\ \A above, first : (Strict(first) <=> place # "free") /\ above.field = field
                                /\ above.start = begin => Awaits(frame, waiting, above, first)
<1>1. /\ Step.op = "parse" /\ Frame \in FrameRecord /\ index \in Nat
      /\ old \in Stations /\ old.todo # <<>>
      /\ Head(old.todo) = Step /\ Tail(old.todo) = After
      /\ NextStations(old) \subseteq Stations /\ Safe(old)
      /\ Stands(Frame, old) /\ Goes(Frame, old) /\ After \in Seq(Code)
  BY StationDoes, TokensThere
<1>2. PICK kids \in Seq(Kid), start \in Int : kids = Frame.kids /\ start = Frame.start
  BY <1>1, FrameFacts
<1>3. /\ frame.kids = kids /\ frame.start = start /\ frame.todo = After
      /\ frame.end = Frame.end /\ frame.field = Frame.field
  BY <1>1, <1>2 DEF FrameRecord
<1>4. waiting \in Stations /\ StationsIn(rule, old.next, place) \subseteq Stations
  <2>1. /\ waiting \in NextStations(old)
        /\ StationsIn(rule, old.next, place) \subseteq NextStations(old)
    BY <1>1, StationCalled
  <2>. QED  BY <1>1, <2>1
<1>5. PICK here, held : here = PlaceWaiting(old.place, own) /\ held = HeldWaiting(old.held, field)
  OBVIOUS
<1>6. /\ waiting.todo = After /\ waiting.next = {} /\ waiting.read = 0
      /\ waiting.place = here /\ waiting.held = held
  BY <1>5, StationParts
<1>7. here \in {"free", "good", "bad"} /\ (here # "free" <=> old.place # "free")
  BY <1>5 DEF PlaceWaiting
<1>8. Strict(waiting) <=> Strict(old)
  BY <1>6, <1>7 DEF Strict
<1>9. field = Else => old.read = 2 /\ old.held # "moved" /\ own
  BY <1>1 DEF Safe
<1>10. place \in {"free", "open"} /\ (place # "free" => own)
       /\ (place # "free" => old.read = 2 \/ old.place = "open")
       /\ (field = Else => place = "open") /\ (old.place = "open" /\ own => place = "open")
  BY <1>9 DEF ChildPlace
<1>11. ASSUME place # "free"
       PROVE  begin = index /\ BehindElse(index) /\ AllBefore(kids, index) /\ start <= index
  <2>1. begin = index /\ start <= index
    BY <1>1, <1>2, <1>10, <1>11 DEF Stands
  <2>2. CASE old.read = 2
    <3>1. HasRead(2) /\ AllBefore(kids, index)
      BY <1>1, <1>2, <2>2 DEF Goes
    <3>. QED  BY <1>1, <2>1, <3>1, BehindRead
  <2>3. CASE old.place = "open"
    <3>1. kids = <<>> /\ OnlyOpened(start) /\ BehindElse(start)
      BY <1>1, <1>2, <2>3 DEF Goes, Stands, Strict
    <3>2. Len(<<>>) = 0
      BY EmptySeq
    <3>3. AllBefore(kids, index)
      BY <3>1, <3>2 DEF AllBefore
    <3>. QED  BY <1>1, <2>1, <3>1, <3>3, BehindOpened
  <2>. QED  BY <1>10, <1>11, <2>2, <2>3
<1>12. Begins(rule, field, begin, old.next, place)
  <2>1. begin <= index
    BY <1>1 DEF Stands
  <2>2. place = "open" => OnlyOpened(begin)
    <3>1. \A token \in index..(index - 1) : FALSE
      BY <1>1
    <3>. QED  BY <1>11, <3>1 DEF OnlyOpened
  <2>. QED  BY <1>1, <1>4, <1>10, <1>11, <2>1, <2>2 DEF Begins, Goes
<1>13. held # "moved" => old.held # "moved"
  BY <1>5, <1>9 DEF HeldWaiting
<1>14. here = "good" => old.place = "good" \/ (old.place = "open" /\ own)
  BY <1>5 DEF PlaceWaiting
<1>15. KidsStand(kids, start, waiting)
  <2>1. Holding(old) => Holding(waiting)
    BY <1>5, <1>6 DEF Holding, HeldWaiting
  <2>2. waiting.place = "good" /\ kids # <<>> => old.place = "good"
    BY <1>1, <1>2, <1>6, <1>14 DEF Goes
  <2>. QED  BY <1>1, <1>2, <2>1, <2>2 DEF Stands, KidsStand
<1>16. Stands(frame, waiting)
  BY <1>1, <1>2, <1>3, <1>4, <1>6, <1>8, <1>13, <1>15 DEF Stands
<1>17. held = "new" <=> field = Else
  BY <1>5 DEF HeldWaiting
<1>18. here = "good" /\ kids = <<>> => place # "free"
  BY <1>1, <1>2, <1>10, <1>14 DEF Goes
<1>19. ASSUME NEW above, NEW first, Strict(first) <=> place # "free", above.field = field,
              above.start = begin
       PROVE  Awaits(frame, waiting, above, first)
  BY <1>3, <1>6, <1>7, <1>11, <1>17, <1>18, <1>19 DEF Awaits
<1>. QED  BY <1>8, <1>12, <1>16, <1>19

LEMMA CallStations == ASSUME Ready, Forest, StationInv, Call PROVE StationInv'
<1>1. PICK at : StationsFit(at)
  BY DEF StationInv
<1>2. /\ outcome = "running" /\ Step \in Code /\ Step.op = "parse" /\ After \in Seq(Code)
      /\ Top \in 1..Top /\ Frame = stack[Top] /\ Frame \in FrameRecord /\ Does("parse")
      /\ Frame.kids \in Seq(Kid) /\ KidIds(Frame.kids) \subseteq DOMAIN nodes
      /\ tokens' = tokens /\ nodes' = nodes /\ index' = index
  BY <1>1, StationDoes DEF Call, Output
<1>3. PICK rule \in Rules, field \in Fields, own \in BOOLEAN :
        rule = Step.rule /\ field = Step.field /\ own = Step.own
  BY <1>2, CodeAssumption
<1>4. PICK old : old = at[Top]
  OBVIOUS
<1>5. NodesGrow /\ index' \in Nat /\ index <= index' /\ index \in Nat
  BY <1>2, TokensThere DEF NodesGrow
<1>6. PICK t \in Nat \ {0} : t = Top /\ t = Len(stack) /\ stack \in Seq(FrameRecord)
  BY <1>2, CallFacts
<1>7. PICK begin \in Int : begin = IF own THEN index ELSE Frame.start
  <2>1. index \in Int /\ Frame.start \in Int
    BY <1>2, FrameFacts, TokensThere
  <2>. QED  BY <2>1
<1>8. PICK frame : frame = [Frame EXCEPT !.todo = After]
  OBVIOUS
<1>9. /\ frame \in FrameRecord /\ frame.kids = Frame.kids /\ frame.start = Frame.start
      /\ frame.field = Frame.field
  BY <1>2, <1>8 DEF FrameRecord
<1>10. PICK base : base = [stack EXCEPT ![t] = frame]
  OBVIOUS
<1>11. /\ base \in Seq(FrameRecord) /\ Len(base) = t /\ base[t] = frame
       /\ \A k \in 1..(t - 1) : base[k] = stack[k]
  BY <1>6, <1>9, <1>10, ExceptSeq
<1>12. PICK calls : calls = Calls(rule, field, begin, own)
  OBVIOUS
<1>13. Pushed(base, t, calls, rule, begin)'
  <2>1. stack' = base \o calls
    BY <1>3, <1>6, <1>7, <1>8, <1>10, <1>12 DEF Call, Frame
  <2>. QED  BY <1>11, <1>12, <2>1, CallsPushedNext DEF AllPushed
<1>14. \A i \in 1..Len(calls) :
         calls[i].field = IF i = 1 THEN field ELSE Opening[rule][i].field
  BY <1>12, FieldsCalled
<1>15. PICK first : first = calls[1]
  OBVIOUS
<1>16. /\ \A k \in 1..(t - 1) : stack'[k] = stack[k]
       /\ stack'[t] = frame /\ stack'[t + 1] = first
       /\ first.start = begin /\ first.field = field
  <2>1. 1 \in 1..Len(calls) /\ t \in 1..t /\ \A k \in 1..(t - 1) : k \in 1..t
    BY <1>13 DEF Pushed
  <2>. QED  BY <1>11, <1>13, <1>14, <1>15, <2>1 DEF Pushed
<1>17. PICK waiting : waiting = Station(After, {}, 0, PlaceWaiting(old.place, own),
                                        HeldWaiting(old.held, field))
  OBVIOUS
<1>18. PICK place, next : place = ChildPlace(old.place, own, field) /\ next = old.next
  OBVIOUS
<1>19. /\ Begins(rule, field, begin, next, place)
       /\ Stands(frame, waiting) /\ (Strict(waiting) <=> Strict(old))
       /\ \A above, over : (Strict(over) <=> place # "free") /\ above.field = field
                             /\ above.start = begin => Awaits(frame, waiting, above, over)
  BY <1>1, <1>2, <1>3, <1>4, <1>7, <1>8, <1>17, <1>18, CallFits
<1>20. PICK below : below = [k \in 1..t |-> IF k = t THEN waiting ELSE at[k]]
  OBVIOUS
<1>21. /\ below \in [1..t -> Stations] /\ below[t] = waiting
       /\ \A k \in 1..(t - 1) : below[k] = at[k]
  <2>1. at \in [1..t -> Stations] /\ t \in 1..t /\ waiting \in Stations
    BY <1>1, <1>6, <1>19 DEF StationsFit, Stands
  <2>. QED  BY <1>20, <2>1
<1>22. /\ \A k \in 1..(t - 1) : Stands(stack[k], at[k])'
       /\ \A k \in 1..((t - 1) - 1) : Awaits(stack[k], at[k], stack[k + 1], at[k + 1])'
  <2>1. t - 1 \in Nat /\ t - 1 <= Top
    BY <1>6
  <2>. QED  BY <1>1, <1>5, <1>16, <2>1, LowerStay
<1>23. Stands(frame, waiting)'
  BY <1>2, <1>5, <1>9, <1>19, StandsKept
<1>24. \A k \in 1..t : Stands(stack[k], below[k])'
  <2>1. \A k \in 1..t : k = t \/ k \in 1..(t - 1)
    OBVIOUS
  <2>. QED  BY <1>16, <1>21, <1>22, <1>23, <2>1
<1>25. ASSUME NEW k \in 1..(t - 1)
       PROVE  Awaits(stack[k], below[k], stack[k + 1], below[k + 1])'
  <2>1. k \in 1..Top /\ k \in 1..(Top - 1) /\ k + 1 \in 1..t
    BY <1>6
  <2>2. CASE k + 1 \in 1..(t - 1)
    <3>1. k \in 1..((t - 1) - 1)
      BY <2>2
    <3>2. below[k] = at[k] /\ below[k + 1] = at[k + 1]
      BY <1>21, <2>2
    <3>. QED  BY <1>22, <3>1, <3>2
  <2>3. CASE k + 1 = t
    <3>1. PICK called \in FrameRecord : called = stack[k]
      BY <2>1, CallFacts
    <3>2. PICK station : station = at[k]
      OBVIOUS
    <3>3. stack'[k] = called /\ below[k] = station /\ KidIds(called.kids) \subseteq DOMAIN nodes
      BY <1>16, <1>21, <2>1, <3>1, <3>2, CallFacts
    <3>4. PICK top : top = Frame
      OBVIOUS
    <3>5. Awaits(called, station, top, old)
      BY <1>1, <1>2, <1>4, <1>6, <2>1, <2>3, <3>1, <3>2, <3>4 DEF StationsFit
    <3>6. Awaits(called, station, frame, waiting)'
      BY <1>5, <1>9, <1>19, <3>3, <3>4, <3>5, AwaitsKept
    <3>. QED  BY <1>16, <1>21, <2>3, <3>3, <3>6
  <2>. QED  BY <2>1, <2>2, <2>3
<1>26. ASSUME NEW over \in Stations, Strict(over) <=> place # "free"
       PROVE  Awaits(frame, waiting, first, over)'
  <2>1. Awaits(frame, waiting, first, over)
    BY <1>16, <1>19, <1>26
  <2>. QED  BY <1>2, <1>5, <1>9, <2>1, AwaitsKept
<1>27. Begins(rule, field, begin, next, place)'
  BY <1>2, <1>19, BeginsKept
<1>28. PICK strict : strict = (place # "free")
  OBVIOUS
<1>29. Beneath(t, below, strict)'
  <2>1. \A over \in Stations : (Strict(over) <=> strict) =>
          Awaits(stack[t], below[t], stack[t + 1], over)'
    BY <1>16, <1>21, <1>26, <1>28
  <2>. QED  BY <1>21, <1>24, <1>25, <2>1 DEF Beneath
<1>. QED
  BY <1>2, <1>5, <1>13, <1>14, <1>27, <1>28, <1>29, CallsStationedNext DEF AllStationed

LEMMA BecomeStations ==
  ASSUME Ready, Forest, outcome = "running", tokens' = tokens, nodes' = nodes, index' = index,
         NEW at, StationsFit(at), NEW old, old = at[Top], NEW rule \in Rules, Become(rule),
         Stands(Frame, old), Goes(Frame, old),
         NEW next, next # {} => Peek(0) \in next,
         StationsIn(rule, next, Begun(old.place)) \subseteq Stations
  PROVE  StationInv'
<1>1. /\ stack \in Seq(FrameRecord) /\ Top \in Nat \ {0} /\ Top = Len(stack)
      /\ Frame = stack[Top] /\ Frame \in FrameRecord /\ Frame.start \in Int
      /\ Frame.field \in Fields /\ Frame.exact \in BOOLEAN
  BY CallFacts, TopFrame DEF Frame, FrameRecord
<1>2. PICK b \in Nat : b = Top - 1 /\ Top = b + 1
  BY <1>1
<1>3. PICK start \in Int, field \in Fields, exact \in BOOLEAN :
        start = Frame.start /\ field = Frame.field /\ exact = Frame.exact
  BY <1>1
<1>4. PICK base : base = SubSeq(stack, 1, b)
  OBVIOUS
<1>5. base \in Seq(FrameRecord) /\ Len(base) = b /\ \A k \in 1..b : base[k] = stack[k]
  BY <1>1, <1>2, <1>4, SubSeqProperties
<1>6. PICK calls : calls = Calls(rule, field, start, exact)
  OBVIOUS
<1>7. Pushed(base, b, calls, rule, start)'
  <2>1. stack' = base \o calls
    BY <1>2, <1>3, <1>4, <1>6 DEF Become
  <2>. QED  BY <1>5, <1>6, <2>1, CallsPushedNext DEF AllPushed
<1>8. \A i \in 1..Len(calls) :
        calls[i].field = IF i = 1 THEN field ELSE Opening[rule][i].field
  BY <1>6, FieldsCalled
<1>9. PICK above : above = calls[1]
  OBVIOUS
<1>10. /\ \A k \in 1..b : stack'[k] = stack[k]
       /\ stack'[b + 1] = above /\ above.start = start /\ above.field = field
  <2>1. 1 \in 1..Len(calls)
    BY <1>7 DEF Pushed
  <2>. QED  BY <1>5, <1>7, <1>8, <1>9, <2>1 DEF Pushed
<1>11. PICK below : below = [k \in 1..b |-> at[k]]
  OBVIOUS
<1>12. below \in [1..b -> Stations] /\ \A k \in 1..b : below[k] = at[k]
  BY <1>1, <1>2, <1>11 DEF StationsFit
<1>13. NodesGrow /\ index' \in Nat /\ index <= index'
  BY TokensThere DEF NodesGrow
<1>14. /\ \A k \in 1..b : Stands(stack[k], at[k])'
       /\ \A k \in 1..(b - 1) : Awaits(stack[k], at[k], stack[k + 1], at[k + 1])'
  <2>1. b <= Top
    BY <1>2
  <2>. QED  BY <1>10, <1>13, <2>1, LowerStay
<1>15. PICK place : place = Begun(old.place)
  OBVIOUS
<1>16. /\ place \in {"free", "open", "past"} /\ (place # "free" <=> Strict(old))
       /\ place = "open" => old.place = "open"
  BY <1>15 DEF Begun, Strict
<1>17. Begins(rule, field, start, next, place)
  BY <1>3, <1>15, <1>16 DEF Begins, Stands, Goes
<1>18. Begins(rule, field, start, next, place)'
  BY <1>17, BeginsKept
<1>19. PICK strict : strict = (place # "free")
  OBVIOUS
<1>20. ASSUME b > 0, NEW first \in Stations, Strict(first) <=> strict
       PROVE  Awaits(stack[b], below[b], stack[b + 1], first)'
  <2>1. b \in 1..Top /\ b \in 1..(Top - 1) /\ b \in 1..b /\ Top = b + 1
    BY <1>2, <1>20
  <2>2. PICK called \in FrameRecord : called = stack[b]
    BY <2>1, CallFacts
  <2>3. PICK station : station = at[b]
    OBVIOUS
  <2>4. PICK top : top = Frame
    OBVIOUS
  <2>5. Awaits(called, station, top, old)
    BY <1>1, <2>1, <2>2, <2>3, <2>4 DEF StationsFit
  <2>6. KidIds(called.kids) \subseteq DOMAIN nodes
    BY <2>1, <2>2, CallFacts
  <2>7. Awaits(called, station, above, first)'
    BY <1>3, <1>10, <1>13, <1>16, <1>19, <1>20, <2>4, <2>5, <2>6, AwaitsKept
  <2>. QED  BY <1>10, <1>12, <2>1, <2>2, <2>3, <2>7
<1>21. Beneath(b, below, strict)'
  <2>1. \A k \in 1..b : Stands(stack[k], below[k])'
    BY <1>12, <1>14
  <2>2. ASSUME NEW k \in 1..(b - 1)
        PROVE  Awaits(stack[k], below[k], stack[k + 1], below[k + 1])'
    <3>1. k \in 1..b /\ k + 1 \in 1..b
      OBVIOUS
    <3>. QED  BY <1>12, <1>14, <3>1
  <2>. QED  BY <1>12, <1>20, <2>1, <2>2 DEF Beneath
<1>. QED
  BY <1>7, <1>8, <1>13, <1>18, <1>19, <1>21, CallsStationedNext DEF AllStationed

LEMMA TailCallStations == ASSUME Ready, Forest, StationInv, TailCall PROVE StationInv'
<1>1. PICK at : StationsFit(at)
  BY DEF StationInv
<1>2. /\ outcome = "running" /\ Step \in Code /\ Step.op = "goto" /\ Does("goto")
      /\ tokens' = tokens /\ nodes' = nodes /\ index' = index
  BY TopStep DEF TailCall, Output
<1>3. PICK old \in Stations : /\ old = at[Top] /\ old.todo # <<>> /\ Head(old.todo) = Step
                              /\ NextStations(old) \subseteq Stations
                              /\ Stands(Frame, old) /\ Goes(Frame, old)
  BY <1>1, <1>2, StationDoes
<1>4. PICK rule \in Rules : rule = Step.rule
  BY <1>2, CodeAssumption
<1>5. Become(rule)
  BY <1>4 DEF TailCall
<1>6. PICK next : next = old.next
  OBVIOUS
<1>7. StationsIn(rule, next, Begun(old.place)) \subseteq Stations
  BY <1>2, <1>3, <1>4, <1>6, StationGone
<1>8. next # {} => Peek(0) \in next
  BY <1>3, <1>6 DEF Goes
<1>. QED  BY <1>1, <1>2, <1>3, <1>5, <1>7, <1>8, BecomeStations

LEMMA DispatchStations == ASSUME Ready, Forest, StationInv, Dispatch PROVE StationInv'
<1>1. PICK at : StationsFit(at)
  BY DEF StationInv
<1>2. /\ outcome = "running" /\ Step \in Code /\ Step.op = "switch" /\ Does("switch")
      /\ After \in Seq(Code) /\ UNCHANGED <<Output, index>>
      /\ tokens' = tokens /\ nodes' = nodes /\ index' = index
  BY TopStep DEF Dispatch, Output
<1>3. PICK old \in Stations : /\ old = at[Top] /\ old.todo # <<>>
                              /\ Head(old.todo) = Step /\ Tail(old.todo) = After
                              /\ NextStations(old) \subseteq Stations
                              /\ Stands(Frame, old) /\ Goes(Frame, old)
  BY <1>1, <1>2, StationDoes
<1>4. ASSUME NEW row \in Switches[Step.table], Applies(row), Become(row.rule) PROVE StationInv'
  <2>1. PICK rule \in Rules : rule = row.rule
    BY <1>2, <1>4, CodeAssumption, GrammarAssumption, Zenon
  <2>2. PICK next : next = NextOf(row.on, old.next)
    OBVIOUS
  <2>3. StationsIn(rule, next, Begun(old.place)) \subseteq Stations
    BY <1>2, <1>3, <1>4, <2>1, <2>2, StationSwitched
  <2>4. next # {} => Peek(0) \in next
    <3>1. CASE 1 \in DOMAIN row.on
      <4>1. Peek(1 - 1) \in row.on[1]
        BY <1>4, <3>1 DEF Applies
      <4>. QED  BY <2>2, <3>1, <4>1 DEF NextOf
    <3>2. CASE 1 \notin DOMAIN row.on
      BY <1>3, <2>2, <3>2 DEF NextOf, Goes
    <3>. QED  BY <3>1, <3>2
  <2>5. Become(rule)
    BY <1>4, <2>1
  <2>. QED  BY <1>1, <1>2, <1>3, <2>3, <2>4, <2>5, BecomeStations
<1>5. ASSUME Continue(After) PROVE StationInv'
  <2>1. PICK ahead : ahead = old.next
    OBVIOUS
  <2>2. Station(After, ahead, old.read, old.place, old.held) \in Stations
    BY <1>2, <1>3, <2>1, StationOn
  <2>3. ahead # {} => Peek(0) \in ahead
    BY <1>3, <2>1 DEF Goes
  <2>. QED  BY <1>1, <1>2, <1>3, <1>5, <2>2, <2>3, TopOnlyProceeds
<1>. QED  BY <1>4, <1>5 DEF Dispatch

LEMMA StationsStart == Init => StationInv
<1> SUFFICES ASSUME Init PROVE StationInv
  OBVIOUS
<1>1. PICK calls : calls = Calls("module", "", 0, TRUE)
  OBVIOUS
<1>2. "module" \in Rules /\ "" \in Fields
  BY GrammarAssumption, Zenon
<1>3. PICK rule \in Rules, field \in Fields : rule = "module" /\ field = ""
  BY <1>2
<1>4. PICK start \in Int : start = 0
  OBVIOUS
<1>5. PICK base \in Seq(FrameRecord) : base = <<>> /\ Len(base) = 0
  BY EmptySeq
<1>0. PICK exact \in BOOLEAN : exact = TRUE
  OBVIOUS
<1>6. calls = Calls(rule, field, start, exact)
  BY <1>0, <1>1, <1>3, <1>4
<1>7. stack = base \o calls
  <2>1. calls \in Seq(FrameRecord)
    BY <1>6, CallsAreFrames
  <2>2. <<>> \o calls = calls
    BY <2>1, ConcatProperties
  <2>. QED  BY <1>1, <1>5, <2>2, Zenon DEF Init
<1>8. Pushed(base, 0, calls, rule, start)
  BY <1>5, <1>6, <1>7, CallsPushed
<1>9. \A i \in 1..Len(calls) :
        calls[i].field = IF i = 1 THEN field ELSE Opening[rule][i].field
  BY <1>6, FieldsCalled
<1>10. PICK below : below = [k \in 1..0 |-> 0]
  OBVIOUS
<1>11. Beneath(0, below, FALSE)
  BY <1>10 DEF Beneath
<1>12. index = 0
  BY DEF Init
<1>13. Begins(rule, field, start, {}, "free")
  <2>1. StationsIn(rule, {}, "free") \subseteq Stations
    BY <1>3, StationsClosed
  <2>2. field # Else
    BY <1>3 DEF Else
  <2>3. start <= index
    BY <1>4, <1>12
  <2>. QED  BY <2>1, <2>2, <2>3 DEF Begins
<1>. QED  BY <1>8, <1>9, <1>11, <1>12, <1>13, CallsStationed

-----------------------------------------------------------------------------
(* Results                                                                 *)

\* A call that passes on what it is given: it starts where that call's result has to.
LEMMA PassesOnWell ==
  ASSUME Ready, Forest, NEW at, StationsFit(at), NEW j \in 1..(Top - 1), PassesOn(stack[j])
  PROVE  /\ stack[j].kids = <<>>
         /\ Strict(at[j]) => Strict(at[j + 1]) /\ stack[j].start <= stack[j + 1].start
<1>1. j \in 1..Top
  BY CallFacts
<1>2. PICK station \in Stations, frame \in FrameRecord : station = at[j] /\ frame = stack[j]
  BY <1>1, CallFacts DEF StationsFit
<1>3. PICK above, over : above = stack[j + 1] /\ over = at[j + 1]
  OBVIOUS
<1>4. Stands(frame, station) /\ Awaits(frame, station, above, over)
  BY <1>1, <1>2, <1>3 DEF StationsFit
<1>5. PICK todo \in Seq(Code) : todo = frame.todo
  BY FrameFacts
<1>6. /\ Len(todo) = 2 /\ frame.kids = <<>>
      /\ todo[1].op = "while" /\ todo[2].op = "return"
  BY <1>2, <1>5 DEF PassesOn
<1>7. /\ todo # <<>> /\ Head(todo) = todo[1] /\ Tail(todo) # <<>>
      /\ Head(Tail(todo)) = todo[2]
  BY <1>6, TwoSteps
<1>8. station.todo = todo
  BY <1>4, <1>5 DEF Stands
<1>9. PICK next : next = Station(Tail(todo), station.next, station.read, station.place, station.held)
  OBVIOUS
<1>10. next \in Stations
  BY <1>6, <1>7, <1>8, <1>9, StationOn, StationsClosed
<1>11. next.todo = Tail(todo) /\ next.place = station.place
  <2>1. PICK rest, ahead, read, place, held :
          /\ rest = Tail(todo) /\ ahead = station.next /\ read = station.read
          /\ place = station.place /\ held = station.held
    OBVIOUS
  <2>2. next = Station(rest, ahead, read, place, held)
    BY <1>9, <2>1
  <2>3. next.todo = rest /\ next.place = place
    BY <2>2 DEF Station
  <2>. QED  BY <2>1, <2>3
<1>12. station.place \in {"free", "open", "past", "good"}
  BY <1>6, <1>7, <1>10, <1>11, StationsClosed DEF Safe
<1>13. Strict(station) => Strict(over) /\ frame.start <= above.start
  BY <1>4, <1>6, <1>12 DEF Awaits, Strict
<1>. QED  BY <1>2, <1>3, <1>6, <1>13

LEMMA PassedOnWell ==
  ASSUME Ready, Forest, NEW at, StationsFit(at), NEW k \in 1..(Top - 1),
         \A j \in (k + 1)..(Top - 1) : PassesOn(stack[j]),
         NEW from \in Int, Strict(at[Top]) => stack[Top].start <= from
  PROVE  Strict(at[k + 1]) => Strict(at[Top]) /\ stack[k + 1].start <= from
<1> DEFINE Well(j) == Strict(at[j]) => Strict(at[Top]) /\ stack[j].start <= from
           Bad == {d \in Nat : Top - d \in (k + 1)..Top /\ ~Well(Top - d)}
<1>1. Top \in Nat
  BY CallFacts
<1>2. SUFFICES ASSUME ~Well(k + 1) PROVE FALSE
  OBVIOUS
<1>3. Bad # {}
  <2>1. PICK d \in Nat : d = Top - (k + 1)
    BY <1>1
  <2>2. Top - d = k + 1 /\ Top - d \in (k + 1)..Top
    BY <1>1, <2>1
  <2>3. d \in Bad
    BY <1>2, <2>2
  <2>. QED  BY <2>3
<1>4. PICK d \in Bad : \A e \in Bad : d <= e
  <2>1. Bad \subseteq Nat
    OBVIOUS
  <2> HIDE DEF Bad
  <2>. QED  BY <1>3, <2>1, Least
<1>5. d \in Nat /\ Top - d \in (k + 1)..Top /\ ~Well(Top - d)
  BY <1>4
<1>6. PICK j \in (k + 1)..Top : j = Top - d
  BY <1>5
<1>7. j # Top
  BY <1>5, <1>6
<1>8. PICK e \in Nat : e = d - 1 /\ Top - e = j + 1
  BY <1>1, <1>5, <1>6, <1>7
<1>9. e \notin Bad
  BY <1>4, <1>5, <1>8
<1>10. Well(j + 1)
  <2>1. Top - e \in (k + 1)..Top
    BY <1>1, <1>6, <1>7, <1>8
  <2>2. Well(Top - e)
    BY <1>9, <2>1
  <2>. QED  BY <1>8, <2>2
<1>11. j \in 1..(Top - 1) /\ PassesOn(stack[j]) /\ j \in 1..Top /\ j + 1 \in 1..Top
  BY <1>1, <1>6, <1>7
<1>12. Strict(at[j]) => Strict(at[j + 1]) /\ stack[j].start <= stack[j + 1].start
  BY <1>11, PassesOnWell
<1>13. PICK start \in Int, above \in Int : start = stack[j].start /\ above = stack[j + 1].start
  BY <1>11, CallFacts, FrameFacts
<1>14. Well(j)
  BY <1>10, <1>12, <1>13
<1>. QED  BY <1>5, <1>6, <1>14

\* The call that waited has one child more.
LEMMA ReceivedStands ==
  ASSUME Ready, Forest, NodesGrow, index' = index,
         NEW frame \in FrameRecord, KidIds(frame.kids) \subseteq DOMAIN nodes,
         NEW station, NEW above, NEW over, Stands(frame, station),
         Awaits(frame, station, above, over), above.field = Else => Strict(over),
         NEW waited \in Int, waited = above.start,
         NEW id \in DOMAIN nodes', NEW from \in Int, from = nodes'[id].start,
         Strict(over) => IsElseBranch(id)' /\ waited <= from,
         NEW kid \in Kid, kid.id = id, kid.field = above.field,
         NEW more, more = Append(frame.kids, kid),
         NEW next, next = [frame EXCEPT !.kids = more]
  PROVE  next \in FrameRecord /\ Stands(next, station)' /\ Goes(next, station)'
<1>1. PICK kids \in Seq(Kid), start \in Int : kids = frame.kids /\ start = frame.start
  BY FrameFacts
<1>2. PICK n \in Nat : n = Len(kids)
  BY LenProperties
<1>3. /\ more \in Seq(Kid) /\ Len(more) = n + 1
      /\ \A i \in 1..n : more[i] = kids[i]
      /\ more[n + 1] = kid
  BY <1>1, <1>2, OneMoreChild DEF WithOneMore
<1>4. /\ next \in FrameRecord /\ next.kids = more /\ next.todo = frame.todo
      /\ next.start = start /\ next.end = frame.end /\ next.field = frame.field
  BY <1>1, <1>3 DEF FrameRecord
<1>5. Stands(frame, station)'
  <2>1. index \in Nat
    BY TokensThere
  <2>. QED  BY <2>1, StandsKept
<1>6. KidsStand(kids, start, station)'
  BY <1>1, <1>5 DEF Stands
<1>7. Strict(over) => StartsIn(id, start)'
  <2>1. Strict(over) => start <= waited
    BY <1>1 DEF Awaits
  <2>2. Strict(over) => start <= from
    BY <2>1
  <2>. QED  BY <2>2 DEF StartsIn
<1>8. Holding(station) \/ NoElse(more)
  <2>1. ASSUME ~Holding(station) PROVE NoElse(more)
    <3>1. NoElse(kids) /\ kid.field # Else
      BY <1>6, <2>1 DEF KidsStand, Awaits, Holding
    <3>2. \A i \in 1..(n + 1) : i = n + 1 \/ i \in 1..n
      OBVIOUS
    <3>. QED  BY <1>2, <1>3, <3>1, <3>2 DEF NoElse
  <2>. QED  BY <2>1
<1>9. Branches(more, start)'
  <2>1. ASSUME NEW i \in 1..Len(more), more[i].field = Else
        PROVE  /\ StartsIn(more[i].id, start)'
               /\ \A j \in 1..(i - 1) : Before(more[j].id, nodes[more[i].id].start)'
    <3>1. CASE i \in 1..n
      <4>1. /\ StartsIn(kids[i].id, start)'
            /\ \A j \in 1..(i - 1) : Before(kids[j].id, nodes[kids[i].id].start)'
        BY <1>2, <1>3, <1>6, <2>1, <3>1 DEF KidsStand, Branches
      <4>2. \A j \in 1..(i - 1) : j \in 1..n
        BY <3>1
      <4>. QED  BY <1>3, <3>1, <4>1, <4>2
    <3>2. CASE i = n + 1
      <4>1. more[i] = kid /\ Strict(over)
        BY <1>3, <2>1, <3>2
      <4>2. StartsIn(id, start)' /\ waited <= from
        BY <1>7, <4>1
      <4>3. AllBefore(kids, waited)'
        <5>1. AllBefore(kids, waited)
          BY <1>1, <4>1 DEF Awaits
        <5>. QED  BY <1>1, <5>1, AllBeforeKept
      <4>4. ASSUME NEW j \in 1..n PROVE Before(kids[j].id, from)'
        <5>1. PICK kept \in DOMAIN nodes : kept = kids[j].id
          BY <1>1, <1>2, KidsThere
        <5>2. PICK begin \in Int, end \in Int : begin = nodes[kept].start /\ end = nodes[kept].end
          BY Numbers
        <5>3. nodes'[kept] = nodes[kept]
          BY DEF NodesGrow
        <5>4. begin < waited /\ end < waited
          BY <1>2, <4>3, <5>1, <5>2, <5>3 DEF AllBefore, Before
        <5>5. begin < from /\ end < from
          BY <4>2, <5>4
        <5>. QED  BY <5>1, <5>2, <5>3, <5>5 DEF Before
      <4>5. \A j \in 1..(i - 1) : j \in 1..n
        BY <3>2
      <4>. QED  BY <1>3, <4>1, <4>2, <4>4, <4>5
    <3>. QED  BY <1>3, <3>1, <3>2
  <2>. QED  BY <2>1 DEF Branches
<1>10. ASSUME station.place = "good" PROVE StartsIn(more[1].id, start)'
  <2>1. CASE kids = <<>>
    <3>1. Strict(over) /\ more[1] = kid
      BY <1>1, <1>2, <1>3, <1>10, <2>1 DEF Awaits
    <3>. QED  BY <1>7, <3>1
  <2>2. CASE kids # <<>>
    <3>1. more[1] = kids[1]
      BY <1>2, <1>3, <2>2, EmptySeq
    <3>. QED  BY <1>6, <1>10, <2>2, <3>1 DEF KidsStand
  <2>. QED  BY <2>1, <2>2
<1>11. KidsStand(more, start, station)'
  BY <1>8, <1>9, <1>10 DEF KidsStand
<1>12. Stands(next, station)'
  BY <1>1, <1>4, <1>5, <1>11 DEF Stands
<1>13. more # <<>> /\ more[Len(more)] = kid
  BY <1>2, <1>3, EmptySeq
<1>14. Goes(next, station)'
  BY <1>4, <1>13 DEF Goes, Awaits, HasRead
<1>. QED  BY <1>4, <1>12, <1>14

LEMMA ResultStations ==
  ASSUME Ready, Forest, outcome = "running", NodesGrow, index' = index,
         NEW at, StationsFit(at), NEW id \in DOMAIN nodes', id \in Nat,
         NEW from \in Int, from = nodes'[id].start,
         Strict(at[Top]) => IsElseBranch(id)' /\ stack[Top].start <= from, Deliver(id)
  PROVE  StationInv'
<1>1. PICK k \in 1..(Top - 1) :
        /\ Receives(k)
        /\ stack' = [SubSeq(stack, 1, k) EXCEPT ![k].kids =
                       Append(@, [field |-> stack[k + 1].field, id |-> id])]
  BY DEF Deliver
<1>2. /\ stack \in Seq(FrameRecord) /\ Len(stack) = Top /\ Top \in Nat
      /\ k \in 1..Top /\ k + 1 \in 1..Top /\ k < Top
  BY CallFacts
<1>3. PICK called \in FrameRecord, above \in FrameRecord :
        called = stack[k] /\ above = stack[k + 1]
  BY <1>2, CallFacts
<1>4. PICK kids \in Seq(Kid) : kids = called.kids
  BY <1>3, FrameFacts
<1>5. PICK field \in Fields, waited \in Int : field = above.field /\ waited = above.start
  BY <1>3, FrameFacts
<1>6. PICK kid : kid = [field |-> field, id |-> id]
  OBVIOUS
<1>7. kid \in Kid /\ kid.id = id /\ kid.field = field
  BY <1>6 DEF Kid
<1>8. PICK more : more = Append(kids, kid)
  OBVIOUS
<1>9. PICK frame : frame = [called EXCEPT !.kids = more]
  OBVIOUS
<1>10. PICK station, over : station = at[k] /\ over = at[k + 1]
  OBVIOUS
<1>11. /\ Stands(called, station) /\ Stands(above, over)
       /\ Awaits(called, station, above, over) /\ KidIds(called.kids) \subseteq DOMAIN nodes
  BY <1>2, <1>3, <1>10, CallFacts DEF StationsFit
<1>12. Strict(over) => IsElseBranch(id)' /\ waited <= from
  <2>1. \A j \in (k + 1)..(Top - 1) : PassesOn(stack[j])
    BY <1>1 DEF Receives
  <2>2. Strict(at[Top]) => stack[Top].start <= from
    OBVIOUS
  <2>3. Strict(at[k + 1]) => Strict(at[Top]) /\ stack[k + 1].start <= from
    BY <2>1, <2>2, PassedOnWell
  <2>. QED  BY <1>3, <1>5, <1>10, <2>3
<1>13. above.field = Else => Strict(over)
  BY <1>11 DEF Stands
<1>14. frame \in FrameRecord /\ Stands(frame, station)' /\ Goes(frame, station)'
  BY <1>4, <1>5, <1>7, <1>8, <1>9, <1>11, <1>12, <1>13, ReceivedStands
<1>15. PICK base : base = SubSeq(stack, 1, k)
  OBVIOUS
<1>16. base \in Seq(FrameRecord) /\ Len(base) = k /\ \A j \in 1..k : base[j] = stack[j]
  BY <1>2, <1>15, SubSeqProperties
<1>17. stack' = [base EXCEPT ![k] = frame]
  <2>1. k \in 1..k /\ base[k] = called
    BY <1>2, <1>3, <1>16
  <2>. QED  BY <1>1, <1>3, <1>4, <1>5, <1>6, <1>8, <1>9, <1>15, <2>1
<1>18. /\ stack' \in Seq(FrameRecord) /\ Len(stack') = k
       /\ \A j \in 1..k : stack'[j] = IF j = k THEN frame ELSE stack[j]
  <2>1. k \in 1..Len(base)
    BY <1>2, <1>16
  <2>2. /\ stack' \in Seq(FrameRecord) /\ Len(stack') = Len(base)
        /\ \A j \in 1..Len(base) : stack'[j] = IF j = k THEN frame ELSE base[j]
    BY <1>14, <1>16, <1>17, <2>1, ExceptSeq
  <2>. QED  BY <1>16, <2>2
<1>19. Top' = k /\ k \in 1..k /\ stack'[k] = frame
       /\ \A j \in 1..(k - 1) : stack'[j] = stack[j]
  <2>1. Top' = k
    BY <1>18 DEF Top
  <2>2. k \in 1..k /\ \A j \in 1..(k - 1) : j \in 1..k /\ j # k
    BY <1>2
  <2>. QED  BY <1>18, <2>1, <2>2
<1>20. index' \in Nat /\ index <= index'
  BY TokensThere
<1>21. /\ \A j \in 1..(k - 1) : Stands(stack[j], at[j])'
       /\ \A j \in 1..((k - 1) - 1) : Awaits(stack[j], at[j], stack[j + 1], at[j + 1])'
  <2>1. k - 1 \in Nat /\ k - 1 <= Top
    BY <1>2
  <2>. QED  BY <1>19, <1>20, <2>1, LowerStay
<1>22. PICK now : now = [j \in 1..k |-> at[j]]
  OBVIOUS
<1>23. now \in [1..k -> Stations] /\ \A j \in 1..k : now[j] = at[j]
  <2>1. \A j \in 1..k : j \in 1..Top
    BY <1>2
  <2>. QED  BY <1>22, <2>1 DEF StationsFit
<1>24. \A j \in 1..k : Stands(stack[j], now[j])'
  <2>1. \A j \in 1..k : j = k \/ j \in 1..(k - 1)
    BY <1>2
  <2>. QED  BY <1>10, <1>14, <1>19, <1>21, <1>23, <2>1
<1>25. Goes(stack[k], now[k])'
  BY <1>10, <1>14, <1>19, <1>23
<1>26. ASSUME NEW j \in 1..(k - 1)
       PROVE  Awaits(stack[j], now[j], stack[j + 1], now[j + 1])'
  <2>1. j \in 1..Top /\ j \in 1..(Top - 1) /\ j \in 1..k /\ j + 1 \in 1..k
    BY <1>2
  <2>2. CASE j + 1 \in 1..(k - 1)
    <3>1. j \in 1..((k - 1) - 1)
      BY <2>2
    <3>2. now[j] = at[j] /\ now[j + 1] = at[j + 1]
      BY <1>23, <2>1
    <3>. QED  BY <1>21, <3>1, <3>2
  <2>3. CASE j + 1 = k
    <3>1. PICK below \in FrameRecord : below = stack[j]
      BY <2>1, CallFacts
    <3>2. PICK here : here = at[j]
      OBVIOUS
    <3>3. stack'[j] = below /\ now[j] = here /\ KidIds(below.kids) \subseteq DOMAIN nodes
      BY <1>19, <1>23, <2>1, <3>1, <3>2, CallFacts
    <3>4. Awaits(below, here, called, station)
      BY <1>3, <1>10, <2>1, <2>3, <3>1, <3>2 DEF StationsFit
    <3>5. frame.field = called.field /\ frame.start = called.start
      BY <1>3, <1>9 DEF FrameRecord
    <3>6. Awaits(below, here, frame, station)'
      BY <3>3, <3>4, <3>5, AwaitsKept
    <3>. QED  BY <1>10, <1>19, <1>23, <2>1, <2>3, <3>3, <3>6
  <2>. QED  BY <2>1, <2>2, <2>3
<1>27. StationsFit(now)'
  BY <1>19, <1>23, <1>24, <1>25, <1>26 DEF StationsFit
<1>. QED  BY <1>27 DEF StationInv

LEMMA MakeNodeStations == ASSUME Ready, Forest, StationInv, MakeNode PROVE StationInv'
<1>1. PICK at : StationsFit(at)
  BY DEF StationInv
<1>2. /\ outcome = "running" /\ Step \in Code /\ Step.op = "make"
      /\ tokens' = tokens /\ index' = index
      /\ Top \in 1..Top /\ Frame = stack[Top] /\ Frame \in FrameRecord
      /\ Frame.kids \in Seq(Kid)
  BY <1>1, StationDoes DEF MakeNode
<1>3. PICK old : old = at[Top] /\ Stands(Frame, old)
  BY <1>1, StationDoes DEF MakeNode
<1>4. PICK type \in NodeTypes : type = Step.type
  BY <1>2, CodeAssumption
<1>5. PICK kids \in Seq(Kid), start \in Int : kids = Frame.kids /\ start = Frame.start
  BY <1>2, FrameFacts
<1>6. PICK node : node = NodeOf(type, kids)
  OBVIOUS
<1>7. node \in NodeRecord /\ nodes' = Append(nodes, node) /\ node.start = start
  <2>1. KidIds(kids) = Owned(Top) /\ (Increasing(Frame.kids) => Increasing(kids))
    BY <1>2, <1>5 DEF Owned
  <2>2. node \in NodeRecord
    BY <1>2, <1>5, <1>6, <2>1, MadeNode
  <2>. QED  BY <1>4, <1>5, <1>6, <2>2 DEF MakeNode, NodeOf
<1>8. /\ NodesGrow /\ NewId \in Nat /\ NewId \in DOMAIN nodes' /\ nodes'[NewId] = node
  BY <1>2, <1>7, NodeAdded
<1>9. PICK id \in Nat : id = NewId
  BY <1>8
<1>10. id \in DOMAIN nodes' /\ start = nodes'[id].start /\ Deliver(id)
  BY <1>7, <1>8, <1>9 DEF MakeNode
<1>11. Strict(old) => IsElseBranch(id)'
  <2>1. Strict(old) => BehindElse(start)
    BY <1>3, <1>5 DEF Stands
  <2>2. Strict(old) => BehindElse(start)'
    BY <1>2, <2>1, BehindKept
  <2>. QED  BY <1>10, <2>2 DEF IsElseBranch
<1>12. Strict(at[Top]) => IsElseBranch(id)' /\ stack[Top].start <= start
  BY <1>2, <1>3, <1>5, <1>11
<1>. QED  BY <1>1, <1>2, <1>8, <1>10, <1>12, ResultStations

LEMMA MakeModuleNodeStations == ASSUME MakeModuleNode PROVE StationInv'
<1>1. Top' = 0
  BY DEF MakeModuleNode, Top
<1>2. PICK none : none = [k \in 1..0 |-> 0]
  OBVIOUS
<1>3. none \in [1..0 -> Stations] /\ \A k \in 1..0 : FALSE
  BY <1>2
<1>4. StationsFit(none)'
  BY <1>1, <1>3 DEF StationsFit
<1>. QED  BY <1>4 DEF StationInv

LEMMA HandOnStations == ASSUME Ready, Forest, StationInv, HandOn PROVE StationInv'
<1>1. PICK at : StationsFit(at)
  BY DEF StationInv
<1>2. /\ outcome = "running" /\ Step.op = "return"
      /\ tokens' = tokens /\ nodes' = nodes /\ index' = index
      /\ Top \in 1..Top /\ Frame = stack[Top] /\ Frame \in FrameRecord
      /\ Frame.kids \in Seq(Kid) /\ KidIds(Frame.kids) \subseteq DOMAIN nodes
  BY <1>1, StationDoes DEF HandOn, Output
<1>3. PICK old \in Stations : /\ old = at[Top] /\ old.todo # <<>> /\ Head(old.todo) = Step
                              /\ Safe(old) /\ Stands(Frame, old) /\ Goes(Frame, old)
  BY <1>1, StationDoes DEF HandOn
<1>4. PICK kids \in Seq(Kid), start \in Int : kids = Frame.kids /\ start = Frame.start
  BY <1>2, FrameFacts
<1>5. Len(kids) = 1 /\ kids # <<>> /\ kids[1] \in Kid
  BY <1>4 DEF HandOn
<1>6. PICK id \in Nat : id = kids[1].id
  BY <1>5 DEF Kid
<1>7. id \in DOMAIN nodes
  BY <1>2, <1>4, <1>5, <1>6, KidsThere
<1>8. PICK from \in Int : from = nodes[id].start
  BY <1>7, Numbers
<1>9. Strict(old) => IsElseBranch(id) /\ start <= from
  <2>1. old.place \in {"free", "open", "past", "good"}
    BY <1>2, <1>3 DEF Safe
  <2>2. Strict(old) => old.place = "good"
    BY <1>3, <1>4, <1>5, <2>1 DEF Goes, Strict
  <2>3. old.place = "good" => StartsIn(id, start)
    BY <1>3, <1>4, <1>5, <1>6 DEF Stands, KidsStand
  <2>. QED  BY <1>8, <2>2, <2>3 DEF StartsIn
<1>10. NodesGrow
  BY <1>2 DEF NodesGrow
<1>11. /\ id \in DOMAIN nodes' /\ from = nodes'[id].start /\ Deliver(id)
       /\ IsElseBranch(id)' <=> IsElseBranch(id)
  BY <1>2, <1>4, <1>6, <1>7, <1>8, <1>10, NodeKept DEF HandOn
<1>12. Strict(at[Top]) => IsElseBranch(id)' /\ stack[Top].start <= from
  BY <1>2, <1>3, <1>4, <1>9, <1>11
<1>. QED  BY <1>1, <1>2, <1>10, <1>11, <1>12, ResultStations

LEMMA StationsNext == ASSUME Ready, Forest, StationInv, NodesRead, Next PROVE StationInv'
  BY ReadAnyStations, ReadTypeStations, CheckStations, BranchStations, LoopStations,
     CallStations, TailCallStations, DispatchStations, MakeOperandStations, MakeNodeStations,
     MakeModuleNodeStations, HandOnStations, FixEndStations, FixStartStations, RenameStations,
     ReassignStations, StartSubmodulesStations, ReadLiteralStations DEF Next

-----------------------------------------------------------------------------
(* Where the nodes are                                                     *)

LEMMA NoElseLosesNothing ==
  ASSUME NEW kids, NoElse(kids), NEW id, NEW start
  PROVE  ~Loses(id, kids, start)
  BY DEF NoElse, Loses

LEMMA LosesKept ==
  ASSUME NodesGrow, NEW id \in DOMAIN nodes, NEW start,
         NEW kids \in Seq(Kid), KidIds(kids) \subseteq DOMAIN nodes, Loses(id, kids, start)
  PROVE  Loses(id, kids, start)'
<1>1. PICK i \in 1..Len(kids) : /\ kids[i].field = Else /\ start <= nodes[id].start
                                /\ nodes[id].end < nodes[kids[i].id].start
  BY DEF Loses
<1>2. PICK other \in DOMAIN nodes : other = kids[i].id
  BY KidsThere
<1>3. nodes'[id] = nodes[id] /\ nodes'[other] = nodes[other] /\ IsElseBranch(id)'
  BY NodeKept DEF Loses
<1>. QED  BY <1>1, <1>2, <1>3 DEF Loses

LEMMA InNodeKept ==
  ASSUME Ready, Forest, NodesGrow, NEW id \in DOMAIN nodes, NEW w \in DOMAIN nodes,
         InNodeOf(id, w)
  PROVE  w \in DOMAIN nodes' /\ InNodeOf(id, w)'
<1>1. w \in DOMAIN nodes' /\ nodes'[w] = nodes[w] /\ nodes'[id] = nodes[id]
  BY DEF NodesGrow
<1>2. PICK kids, start : kids = nodes[w].kids /\ start = nodes[w].start
  OBVIOUS
<1>3. kids \in Seq(Kid)
  <2>1. DOMAIN nodes = 1..Len(nodes) /\ nodes \in Seq(NodeRecord)
    BY NodeNumbers DEF Ready, TypeOK
  <2>2. nodes[w] \in NodeRecord
    BY <2>1, ElementOfSeq
  <2>. QED  BY <1>2, <2>2 DEF NodeRecord
<1>4. KidIds(kids) \subseteq DOMAIN nodes
  <2>1. DOMAIN nodes = 1..Len(nodes) /\ Len(nodes) \in Nat
    BY NodeNumbers
  <2>2. KidIds(nodes[w].kids) \subseteq 1..(w - 1)
    BY DEF Forest, NodesForest
  <2>3. 1..(w - 1) \subseteq 1..Len(nodes)
    BY <2>1
  <2>. QED  BY <1>2, <2>1, <2>2, <2>3, Zenon
<1>5. Loses(id, kids, start) => Loses(id, kids, start)'
  BY <1>3, <1>4, LosesKept
<1>. QED  BY <1>1, <1>2, <1>5 DEF InNodeOf

\* Enough to say what becomes of a new node and of what the calls have.
LEMMA Carries ==
  ASSUME Ready, Forest, outcome = "running", NodesGrow, Accounted,
         \A id \in DOMAIN nodes' \ DOMAIN nodes : Lies(id)',
         \A id \in DOMAIN nodes : \A k \in 1..Top : InCall(id, k) => Lies(id)'
  PROVE  Accounted'
<1>1. ASSUME NEW id \in DOMAIN nodes PROVE Lies(id)'
  <2>1. \/ \E k \in 1..Top : InCall(id, k)
        \/ \E w \in DOMAIN nodes : InNodeOf(id, w)
    BY <1>1 DEF Accounted, Lies
  <2>2. ASSUME NEW w \in DOMAIN nodes, InNodeOf(id, w) PROVE Lies(id)'
    <3>1. w \in DOMAIN nodes' /\ InNodeOf(id, w)'
      BY <2>2, InNodeKept
    <3>. QED  BY <3>1 DEF Lies
  <2>. QED  BY <2>1, <2>2
<1>. QED  BY <1>1 DEF Accounted

\* The call keeps what it has, or has nothing.
Retains(k) ==
  \/ stack[k].kids = <<>>
  \/ /\ k \in 1..Top' /\ Owned(k) \subseteq OwnedNext(k)
     /\ \/ NoElse(stack[k].kids)
        \/ stack'[k].kids = stack[k].kids /\ stack'[k].start = stack[k].start
LEMMA CallRetains ==
  ASSUME Ready, Forest, NodesGrow, NEW id \in DOMAIN nodes, NEW k \in 1..Top,
         InCall(id, k), Retains(k)
  PROVE  k \in 1..Top' /\ InCall(id, k)'
<1>1. PICK kids, start : kids \in Seq(Kid) /\ kids = stack[k].kids /\ start = stack[k].start
  BY CallFacts
<1>2. KidIds(kids) \subseteq DOMAIN nodes
  BY <1>1, CallFacts
<1>3. kids # <<>>
  <2>1. kids = <<>> => NoElse(kids) /\ KidIds(kids) = {}
    BY EmptySeq DEF NoElse, KidIds
  <2>. QED  BY <1>1, <2>1, NoElseLosesNothing DEF InCall, Owned
<1>4. k \in 1..Top' /\ Owned(k) \subseteq OwnedNext(k)
  BY <1>1, <1>3 DEF Retains
<1>5. CASE id \in Owned(k)
  BY <1>4, <1>5 DEF InCall, OwnedNext, Owned
<1>6. CASE Loses(id, kids, start)
  <2>1. stack'[k].kids = kids /\ stack'[k].start = start
    BY <1>1, <1>3, <1>6, NoElseLosesNothing DEF Retains
  <2>2. Loses(id, kids, start)'
    BY <1>1, <1>2, <1>6, LosesKept
  <2>. QED  BY <1>4, <2>1, <2>2 DEF InCall
<1>. QED  BY <1>1, <1>5, <1>6 DEF InCall

LEMMA CallsCarry ==
  ASSUME Ready, Forest, outcome = "running", tokens' = tokens, nodes' = nodes, Accounted,
         \A k \in 1..Top : Retains(k)
  PROVE  Accounted'
<1>1. NodesGrow
  BY DEF NodesGrow
<1>2. ASSUME NEW id \in DOMAIN nodes, NEW k \in 1..Top, InCall(id, k) PROVE Lies(id)'
  BY <1>1, <1>2, CallRetains DEF Lies
<1>. QED  BY <1>1, <1>2, Carries

\* The innermost call alone changes.
LEMMA TopCarries ==
  ASSUME Ready, Forest, outcome = "running", tokens' = tokens, nodes' = nodes, Accounted,
         NEW frame \in FrameRecord, stack' = [stack EXCEPT ![Top] = frame],
         \/ frame.kids = Frame.kids /\ frame.start = Frame.start
         \/ NoElse(Frame.kids) /\ KidIds(Frame.kids) \subseteq KidIds(frame.kids)
  PROVE  Accounted'
<1>1. /\ stack' \in Seq(FrameRecord) /\ Len(stack') = Top /\ stack'[Top] = frame
      /\ \A k \in 1..(Top - 1) : stack'[k] = stack[k]
  BY ReplaceTop
<1>2. Top' = Top /\ Top \in Nat \ {0}
  BY <1>1, TopFrame DEF Top
<1>3. ASSUME NEW k \in 1..Top PROVE Retains(k)
  <2>1. CASE k = Top
    BY <1>1, <1>2, <1>3, <2>1 DEF Retains, Owned, OwnedNext, Frame
  <2>2. CASE k # Top
    <3>1. k \in 1..(Top - 1)
      BY <1>2, <2>2
    <3>2. stack'[k] = stack[k]
      BY <1>1, <3>1
    <3>. QED  BY <1>2, <3>2 DEF Retains, Owned, OwnedNext
  <2>. QED  BY <2>1, <2>2
<1>. QED  BY <1>3, CallsCarry

LEMMA ContinueCarries ==
  ASSUME Ready, Forest, outcome = "running", tokens' = tokens, nodes' = nodes, Accounted,
         NEW todo \in Seq(Code), Continue(todo)
  PROVE  Accounted'
<1>1. PICK frame : frame = [Frame EXCEPT !.todo = todo]
  OBVIOUS
<1>2. frame \in FrameRecord /\ stack' = [stack EXCEPT ![Top] = frame]
  BY <1>1, ContinueTop
<1>3. frame.kids = Frame.kids /\ frame.start = Frame.start
  BY <1>1, TopFrame DEF FrameRecord
<1>. QED  BY <1>2, <1>3, TopCarries

LEMMA SameCarries ==
  ASSUME Ready, Forest, outcome = "running", tokens' = tokens, nodes' = nodes, stack' = stack,
         Accounted
  PROVE  Accounted'
<1>1. \A k \in 1..Top : Retains(k)
  BY DEF Retains, Owned, OwnedNext, Top
<1>. QED  BY <1>1, CallsCarry

LEMMA ReadAnyCarries == ASSUME Ready, Forest, Accounted, ReadAny PROVE Accounted'
  BY TopStep, ContinueCarries DEF ReadAny, Output

LEMMA RefuseCarries ==
  ASSUME Ready, Forest, Accounted, outcome = "running", Refuse PROVE Accounted'
  BY SameCarries DEF Refuse

LEMMA ReadTypeCarries == ASSUME Ready, Forest, Accounted, ReadType PROVE Accounted'
  BY TopStep, ContinueCarries, RefuseCarries DEF ReadType, Output

LEMMA CheckCarries == ASSUME Ready, Forest, Accounted, Check PROVE Accounted'
  BY TopStep, ContinueCarries, RefuseCarries DEF Check, Output

LEMMA BranchCarries == ASSUME Ready, Forest, Accounted, Branch PROVE Accounted'
<1>1. /\ outcome = "running" /\ Step \in Code /\ Step.op = "choose" /\ After \in Seq(Code)
      /\ tokens' = tokens /\ nodes' = nodes
  BY TopStep DEF Branch, Output
<1>2. ASSUME NEW i \in DOMAIN Step.cases, Continue(Step.cases[i].code \o After)
      PROVE  Accounted'
  <2>1. Step.cases[i].code \in Seq(Code)
    BY <1>1, CodeAssumption
  <2>2. Step.cases[i].code \o After \in Seq(Code)
    BY <1>1, <2>1, ConcatProperties
  <2>. QED  BY <1>1, <1>2, <2>2, ContinueCarries
<1>3. ASSUME Continue(After) PROVE Accounted'
  BY <1>1, <1>3, ContinueCarries
<1>. QED  BY <1>2, <1>3 DEF Branch

LEMMA LoopCarries == ASSUME Ready, Forest, Accounted, Loop PROVE Accounted'
<1>1. /\ outcome = "running" /\ Step \in Code /\ Step.op = "while" /\ After \in Seq(Code)
      /\ tokens' = tokens /\ nodes' = nodes
  BY TopStep DEF Loop, Output
<1>2. Step.code \in Seq(Code) /\ Frame.todo \in Seq(Code)
  BY <1>1, TopFrame, FrameFacts, CodeAssumption
<1>3. Step.code \o Frame.todo \in Seq(Code)
  BY <1>2, ConcatProperties
<1>4. PICK todo \in Seq(Code) : Continue(todo)
  BY <1>1, <1>3 DEF Loop
<1>. QED  BY <1>1, <1>4, ContinueCarries

LEMMA ReadLiteralCarries == ASSUME Ready, Forest, Accounted, ReadLiteral PROVE Accounted'
  BY TopStep, ContinueCarries, SameCarries DEF ReadLiteral, Output

LEMMA FixEndCarries == ASSUME Ready, Forest, Accounted, FixEnd PROVE Accounted'
<1>1. outcome = "running" /\ After \in Seq(Code) /\ tokens' = tokens /\ nodes' = nodes
  BY TopStep DEF FixEnd, Output
<1>2. PICK end \in {NoToken, index} :
        stack' = [stack EXCEPT ![Top] = [@ EXCEPT !.todo = After, !.end = end]]
  BY DEF FixEnd
<1>3. PICK frame : frame = [Frame EXCEPT !.todo = After, !.end = end]
  OBVIOUS
<1>4. end \in Int
  BY TokensThere DEF NoToken
<1>5. frame \in FrameRecord /\ frame.kids = Frame.kids /\ frame.start = Frame.start
  BY <1>1, <1>3, <1>4, TopFrame DEF FrameRecord
<1>6. stack' = [stack EXCEPT ![Top] = frame]
  BY <1>2, <1>3 DEF Frame
<1>. QED  BY <1>1, <1>5, <1>6, TopCarries

LEMMA StartSubmodulesCarries ==
  ASSUME Ready, Forest, Accounted, StartSubmodules PROVE Accounted'
<1>1. outcome = "running" /\ After \in Seq(Code) /\ tokens' = tokens /\ nodes' = nodes
  BY TopStep DEF StartSubmodules
<1>2. PICK frame : frame = [Frame EXCEPT !.todo = After, !.saved = submodules]
  OBVIOUS
<1>3. frame \in FrameRecord /\ frame.kids = Frame.kids /\ frame.start = Frame.start
  BY <1>1, <1>2, TopFrame DEF FrameRecord, Ready, TypeOK
<1>4. stack' = [stack EXCEPT ![Top] = frame]
  BY <1>2 DEF StartSubmodules, Frame
<1>. QED  BY <1>1, <1>3, <1>4, TopCarries

\* At these steps there is no else branch among the children.
LEMMA NoElseThere ==
  ASSUME Ready, Forest, StationInv, NEW op \in {"start", "relabel", "wrap", "early", "return"},
         Does(op)
  PROVE  NoElse(Frame.kids)
<1>1. PICK at : StationsFit(at)
  BY DEF StationInv
<1>2. PICK old \in Stations : /\ old.todo # <<>> /\ Head(old.todo) = Step /\ Step.op = op
                              /\ Safe(old) /\ Stands(Frame, old)
  BY <1>1, StationDoes
<1>3. ~Holding(old)
  BY <1>2 DEF Safe
<1>. QED  BY <1>2, <1>3 DEF Stands, KidsStand

LEMMA FixStartCarries ==
  ASSUME Ready, Forest, StationInv, Accounted, FixStart PROVE Accounted'
<1>1. /\ outcome = "running" /\ Step \in Code /\ Step.op = "start" /\ After \in Seq(Code)
      /\ tokens' = tokens /\ nodes' = nodes
  BY TopStep DEF FixStart, Output
<1>2. NoElse(Frame.kids)
  BY NoElseThere DEF FixStart
<1>3. PICK start \in Int : start = index - Step.back
  <2>1. Step.back \in Nat
    BY <1>1, CodeAssumption
  <2>. QED  BY <2>1, TokensThere
<1>4. PICK exact \in BOOLEAN : exact = (Step.back = 0 /\ Frame.kids = <<>>)
  OBVIOUS
<1>5. PICK frame : frame = [Frame EXCEPT !.todo = After, !.start = start, !.exact = exact]
  OBVIOUS
<1>6. frame \in FrameRecord /\ frame.kids = Frame.kids
  BY <1>1, <1>5, TopFrame DEF FrameRecord
<1>7. stack' = [stack EXCEPT ![Top] = frame]
  BY <1>3, <1>4, <1>5 DEF FixStart, Frame
<1>. QED  BY <1>1, <1>2, <1>6, <1>7, TopCarries

LEMMA RenameCarries ==
  ASSUME Ready, Forest, StationInv, Accounted, Rename PROVE Accounted'
<1>1. /\ outcome = "running" /\ Step \in Code /\ Step.op = "relabel" /\ After \in Seq(Code)
      /\ tokens' = tokens /\ nodes' = nodes
  BY TopStep DEF Rename, Output
<1>2. NoElse(Frame.kids)
  BY NoElseThere DEF Rename
<1>3. PICK kids \in Seq(Kid) : kids = Frame.kids /\ kids # <<>>
  BY <1>1, TopFrame, FrameFacts DEF Rename
<1>4. PICK n \in 1..Len(kids) : n = Len(kids)
  BY <1>3, EmptySeq, LenProperties
<1>5. PICK field \in Fields : field = Step.field
  BY <1>1, CodeAssumption
<1>6. PICK kid : kid = [kids[n] EXCEPT !.field = field]
  OBVIOUS
<1>7. kids[n] \in Kid /\ kid \in Kid /\ kid.id = kids[n].id
  <2>1. kids[n] \in Kid
    BY <1>3, <1>4, ElementOfSeq
  <2>. QED  BY <1>5, <1>6, <2>1 DEF Kid
<1>8. PICK renamed : renamed = [kids EXCEPT ![n] = kid]
  OBVIOUS
<1>9. renamed \in Seq(Kid) /\ KidIds(renamed) = KidIds(kids)
  <2>1. /\ renamed \in Seq(Kid) /\ Len(renamed) = Len(kids)
        /\ \A j \in 1..Len(kids) : renamed[j] = IF j = n THEN kid ELSE kids[j]
    BY <1>4, <1>7, <1>8, ExceptSeq
  <2>2. \A j \in 1..Len(kids) : renamed[j].id = kids[j].id
    BY <1>7, <2>1
  <2>. QED  BY <2>1, <2>2, SameIds
<1>10. PICK frame : frame = [Frame EXCEPT !.todo = After, !.kids = renamed]
  OBVIOUS
<1>11. frame \in FrameRecord /\ frame.kids = renamed
  BY <1>1, <1>9, <1>10, TopFrame DEF FrameRecord
<1>12. stack' = [stack EXCEPT ![Top] = frame]
  BY <1>3, <1>4, <1>5, <1>6, <1>8, <1>10 DEF Rename, Frame
<1>13. KidIds(Frame.kids) \subseteq KidIds(frame.kids)
  BY <1>3, <1>9, <1>11
<1>. QED  BY <1>1, <1>2, <1>11, <1>12, <1>13, TopCarries

LEMMA CallCarries == ASSUME Ready, Forest, Accounted, Call PROVE Accounted'
<1>1. /\ outcome = "running" /\ Step \in Code /\ Step.op = "parse" /\ After \in Seq(Code)
      /\ tokens' = tokens /\ nodes' = nodes
  BY TopStep DEF Call, Output
<1>2. PICK rule \in Rules, field \in Fields, own \in BOOLEAN :
        rule = Step.rule /\ field = Step.field /\ own = Step.own
  BY <1>1, CodeAssumption
<1>3. PICK t \in Nat \ {0} : t = Top /\ t = Len(stack) /\ stack \in Seq(FrameRecord)
  BY <1>1, CallFacts, TopFrame
<1>4. PICK begin \in Int : begin = IF own THEN index ELSE Frame.start
  <2>1. index \in Int /\ Frame.start \in Int
    BY <1>1, TopFrame, FrameFacts, TokensThere
  <2>. QED  BY <2>1
<1>5. PICK frame : frame = [Frame EXCEPT !.todo = After]
  OBVIOUS
<1>6. frame \in FrameRecord /\ frame.kids = Frame.kids /\ frame.start = Frame.start
  BY <1>1, <1>5, TopFrame DEF FrameRecord
<1>7. PICK base : base = [stack EXCEPT ![t] = frame]
  OBVIOUS
<1>8. /\ base \in Seq(FrameRecord) /\ Len(base) = t /\ base[t] = frame
      /\ \A k \in 1..(t - 1) : base[k] = stack[k]
  BY <1>3, <1>6, <1>7, ExceptSeq
<1>9. PICK calls : calls = Calls(rule, field, begin, own)
  OBVIOUS
<1>10. Pushed(base, t, calls, rule, begin)'
  <2>1. stack' = base \o calls
    BY <1>2, <1>3, <1>4, <1>5, <1>7, <1>9 DEF Call, Frame
  <2>. QED  BY <1>8, <1>9, <2>1, CallsPushedNext DEF AllPushed
<1>11. /\ Top' \in Nat /\ Top' >= t /\ \A k \in 1..(t - 1) : stack'[k] = stack[k]
       /\ stack'[t] = frame
  <2>1. t \in 1..t /\ \A k \in 1..(t - 1) : k \in 1..t
    BY <1>3
  <2>. QED  BY <1>8, <1>10, <2>1 DEF Pushed
<1>12. ASSUME NEW k \in 1..Top PROVE Retains(k)
  <2>0. k \in 1..Top'
    BY <1>3, <1>11
  <2>1. CASE k = t
    BY <1>3, <1>6, <1>11, <2>0, <2>1 DEF Retains, Owned, OwnedNext, Frame
  <2>2. CASE k # t
    <3>1. k \in 1..(t - 1)
      BY <1>3, <2>2
    <3>2. stack'[k] = stack[k]
      BY <1>11, <3>1
    <3>. QED  BY <2>0, <3>2 DEF Retains, Owned, OwnedNext
  <2>. QED  BY <2>1, <2>2
<1>. QED  BY <1>1, <1>12, CallsCarry

LEMMA BecomeCarries ==
  ASSUME Ready, Forest, outcome = "running", tokens' = tokens, nodes' = nodes, Accounted,
         Frame.kids = <<>>, NEW rule \in Rules, Become(rule)
  PROVE  Accounted'
<1>1. PICK t \in Nat : t = Top - 1 /\ Top = Len(stack) /\ stack \in Seq(FrameRecord)
  BY CallFacts, TopFrame
<1>2. PICK base : base = SubSeq(stack, 1, t)
  OBVIOUS
<1>3. base \in Seq(FrameRecord) /\ Len(base) = t /\ \A k \in 1..t : base[k] = stack[k]
  BY <1>1, <1>2, SubSeqProperties
<1>4. PICK field \in Fields, start \in Int, exact \in BOOLEAN :
        field = Frame.field /\ start = Frame.start /\ exact = Frame.exact
  BY TopFrame DEF FrameRecord
<1>5. PICK calls : calls = Calls(rule, field, start, exact)
  OBVIOUS
<1>6. Pushed(base, t, calls, rule, start)'
  <2>1. stack' = base \o calls
    BY <1>1, <1>2, <1>4, <1>5 DEF Become
  <2>. QED  BY <1>3, <1>5, <2>1, CallsPushedNext DEF AllPushed
<1>7. Top' \in Nat /\ Top' >= t /\ \A k \in 1..t : stack'[k] = stack[k]
  BY <1>1, <1>3, <1>6 DEF Pushed
<1>8. ASSUME NEW k \in 1..Top PROVE Retains(k)
  <2>1. CASE k = Top
    BY <2>1 DEF Retains, Frame
  <2>2. CASE k # Top
    <3>1. k \in 1..t
      BY <1>1, <2>2
    <3>2. stack'[k] = stack[k] /\ k \in 1..Top'
      BY <1>1, <1>7, <3>1
    <3>. QED  BY <3>2 DEF Retains, Owned, OwnedNext
  <2>. QED  BY <2>1, <2>2
<1>. QED  BY <1>8, CallsCarry

LEMMA TailCallCarries == ASSUME Ready, Forest, Accounted, TailCall PROVE Accounted'
<1>1. /\ outcome = "running" /\ Step \in Code /\ Step.op = "goto"
      /\ tokens' = tokens /\ nodes' = nodes /\ Frame.kids = <<>> /\ Become(Step.rule)
  BY TopStep DEF TailCall, Output
<1>2. Step.rule \in Rules
  BY <1>1, CodeAssumption
<1>. QED  BY <1>1, <1>2, BecomeCarries

LEMMA DispatchCarries == ASSUME Ready, Forest, Accounted, Dispatch PROVE Accounted'
<1>1. /\ outcome = "running" /\ Step \in Code /\ Step.op = "switch" /\ After \in Seq(Code)
      /\ tokens' = tokens /\ nodes' = nodes /\ Frame.kids = <<>>
  BY TopStep DEF Dispatch, Output
<1>2. ASSUME NEW row \in Switches[Step.table], Become(row.rule) PROVE Accounted'
  <2>1. PICK rule \in Rules : rule = row.rule
    BY <1>1, <1>2, CodeAssumption, GrammarAssumption, Zenon
  <2>. QED  BY <1>1, <1>2, <2>1, BecomeCarries
<1>3. ASSUME Continue(After) PROVE Accounted'
  BY <1>1, <1>3, ContinueCarries
<1>. QED  BY <1>2, <1>3 DEF Dispatch

\* The result of the innermost call goes to a call below it.
LEMMA ResultCarries ==
  ASSUME Ready, Forest, outcome = "running", NodesGrow, Accounted,
         NEW id \in Nat, DOMAIN nodes' \subseteq DOMAIN nodes \cup {id}, Deliver(id),
         \A old \in DOMAIN nodes : InCall(old, Top) =>
           old = id \/ \E w \in DOMAIN nodes' : InNodeOf(old, w)'
  PROVE  Accounted'
<1>1. PICK k \in 1..(Top - 1) :
        /\ Receives(k)
        /\ stack' = [SubSeq(stack, 1, k) EXCEPT ![k].kids =
                       Append(@, [field |-> stack[k + 1].field, id |-> id])]
  BY DEF Deliver
<1>2. /\ stack \in Seq(FrameRecord) /\ Len(stack) = Top /\ Top \in Nat
      /\ k \in 1..Top /\ k + 1 \in 1..Top /\ k < Top
  BY CallFacts
<1>3. PICK called \in FrameRecord, above \in FrameRecord :
        called = stack[k] /\ above = stack[k + 1]
  BY <1>2, CallFacts
<1>4. PICK kids \in Seq(Kid) : kids = called.kids
  BY <1>3, FrameFacts
<1>5. PICK kid : kid = [field |-> above.field, id |-> id]
  OBVIOUS
<1>6. kid \in Kid /\ kid.id = id
  BY <1>3, <1>5, FrameFacts DEF Kid
<1>7. PICK more : more = Append(kids, kid)
  OBVIOUS
<1>8. /\ more \in Seq(Kid) /\ Len(kids) \in Nat /\ Len(more) = Len(kids) + 1
      /\ \A i \in 1..Len(kids) : more[i] = kids[i]
      /\ more[Len(kids) + 1] = kid
  BY <1>6, <1>7, OneMoreChild DEF WithOneMore
<1>9. PICK frame : frame = [called EXCEPT !.kids = more]
  OBVIOUS
<1>10. frame \in FrameRecord /\ frame.kids = more /\ frame.start = called.start
  BY <1>3, <1>8, <1>9 DEF FrameRecord
<1>11. PICK base : base = SubSeq(stack, 1, k)
  OBVIOUS
<1>12. base \in Seq(FrameRecord) /\ Len(base) = k /\ \A j \in 1..k : base[j] = stack[j]
  BY <1>2, <1>11, SubSeqProperties
<1>13. stack' = [base EXCEPT ![k] = frame]
  <2>1. k \in 1..k /\ base[k] = called
    BY <1>2, <1>3, <1>12
  <2>. QED  BY <1>1, <1>3, <1>4, <1>5, <1>7, <1>9, <1>11, <2>1
<1>14. /\ stack' \in Seq(FrameRecord) /\ Len(stack') = k
       /\ \A j \in 1..k : stack'[j] = IF j = k THEN frame ELSE stack[j]
  <2>1. k \in 1..Len(base)
    BY <1>2, <1>12
  <2>2. /\ stack' \in Seq(FrameRecord) /\ Len(stack') = Len(base)
        /\ \A j \in 1..Len(base) : stack'[j] = IF j = k THEN frame ELSE base[j]
    BY <1>10, <1>12, <1>13, <2>1, ExceptSeq
  <2>. QED  BY <1>12, <2>2
<1>15. Top' = k /\ k \in 1..k /\ stack'[k] = frame
       /\ \A j \in 1..(k - 1) : stack'[j] = stack[j]
  <2>1. Top' = k
    BY <1>14 DEF Top
  <2>2. k \in 1..k /\ \A j \in 1..(k - 1) : j \in 1..k /\ j # k
    BY <1>2
  <2>. QED  BY <1>14, <2>1, <2>2
<1>16. KidIds(kids) \cup {id} \subseteq KidIds(more)
  <2>1. DOMAIN kids = 1..Len(kids) /\ DOMAIN more = 1..Len(more)
    BY <1>4, <1>8, LenProperties
  <2>2. \A i \in 1..Len(kids) : i \in 1..Len(more)
    BY <1>8
  <2>3. Len(kids) + 1 \in 1..Len(more)
    BY <1>8
  <2>. QED  BY <1>6, <1>8, <2>1, <2>2, <2>3 DEF KidIds
<1>17. Lies(id)'
  <2>1. id \in KidIds(stack[k].kids)'
    BY <1>10, <1>15, <1>16 DEF KidIds
  <2>. QED  BY <1>15, <2>1 DEF Lies, InCall, Owned
<1>18. ASSUME NEW old \in DOMAIN nodes, NEW j \in 1..Top, InCall(old, j) PROVE Lies(old)'
  <2>1. CASE j \in 1..(k - 1)
    <3>1. Retains(j)
      <4>1. stack'[j] = stack[j] /\ j \in 1..Top'
        BY <1>15, <2>1
      <4>. QED  BY <4>1 DEF Retains, Owned, OwnedNext
    <3>2. j \in 1..Top' /\ InCall(old, j)'
      BY <1>18, <3>1, CallRetains
    <3>. QED  BY <3>2 DEF Lies
  <2>2. CASE j = k
    <3>1. k \in 1..Top'
      BY <1>15
    <3>2. CASE old \in KidIds(kids)
      <4>1. old \in KidIds(stack[k].kids)'
        BY <1>10, <1>15, <1>16, <3>2 DEF KidIds
      <4>. QED  BY <3>1, <4>1 DEF Lies, InCall, Owned
    <3>3. PICK start : start = called.start
      OBVIOUS
    <3>4. CASE Loses(old, kids, start)
      <4>1. KidIds(kids) \subseteq DOMAIN nodes
        BY <1>2, <1>3, <1>4, CallFacts
      <4>2. Loses(old, kids, start)'
        BY <1>4, <3>4, <4>1, LosesKept
      <4>3. Loses(old, more, start)'
        <5>1. \A i \in 1..Len(kids) : i \in 1..Len(more) /\ more[i] = kids[i]
          BY <1>8
        <5>. QED  BY <4>2, <5>1 DEF Loses
      <4>4. stack'[k].kids = more /\ stack'[k].start = start
        BY <1>10, <1>15, <3>3
      <4>. QED  BY <3>1, <4>3, <4>4 DEF Lies, InCall
    <3>. QED  BY <1>3, <1>4, <1>18, <2>2, <3>2, <3>3, <3>4 DEF InCall, Owned
  <2>3. CASE j \in (k + 1)..(Top - 1)
    <3>1. Retains(j)
      BY <1>1, <2>3 DEF Receives, PassesOn, Retains
    <3>2. j \in 1..Top' /\ InCall(old, j)'
      BY <1>18, <3>1, CallRetains
    <3>. QED  BY <3>2 DEF Lies
  <2>4. CASE j = Top
    BY <1>17, <1>18, <2>4 DEF Lies
  <2>. QED  BY <1>2, <2>1, <2>2, <2>3, <2>4
<1>. QED  BY <1>17, <1>18, Carries

\* What the innermost call has goes into the node it makes: if there is an else branch
\* then the node ends with the token that was read last.
LEMMA NodeHolds ==
  ASSUME Ready, Forest, StationInv, NodesRead, outcome = "running", NodesGrow,
         NEW type, NEW w \in DOMAIN nodes', nodes'[w] = NodeOf(type, Frame.kids),
         NEW id \in DOMAIN nodes, InCall(id, Top)
  PROVE  InNodeOf(id, w)'
<1>1. PICK at : StationsFit(at)
  BY DEF StationInv
<1>2. PICK kids \in Seq(Kid), start \in Int : kids = Frame.kids /\ start = Frame.start
  BY TopFrame, FrameFacts
<1>3. nodes'[w].kids = kids /\ nodes'[w].start = start
  BY <1>2 DEF NodeOf
<1>4. CASE id \in KidIds(kids)
  BY <1>3, <1>4 DEF InNodeOf, KidIds
<1>5. CASE Loses(id, kids, start)
  <2>1. Top \in 1..Top /\ KidIds(kids) \subseteq DOMAIN nodes
    BY <1>2, TopFrame, CallFacts DEF Frame
  <2>2. Loses(id, kids, start)'
    BY <1>5, <2>1, LosesKept
  <2>3. PICK station : station = at[Top] /\ Stands(Frame, station)
    BY <1>1, <2>1 DEF StationsFit, Frame
  <2>4. ~NoElse(kids)
    BY <1>5, NoElseLosesNothing
  <2>5. Holding(station)
    BY <1>2, <2>3, <2>4 DEF Stands, KidsStand
  <2>6. Frame.end = NoToken
    BY <2>3, <2>5 DEF Stands, Holding
  <2>7. nodes'[w].end = index
    BY <2>6 DEF NodeOf
  <2>8. nodes'[id].end <= index
    BY DEF NodesRead, NodesGrow
  <2>. QED  BY <1>3, <2>2, <2>7, <2>8 DEF InNodeOf
<1>. QED  BY <1>2, <1>4, <1>5 DEF InCall, Owned, Frame

LEMMA MakeNodeCarries ==
  ASSUME Ready, Forest, StationInv, NodesRead, Accounted, MakeNode PROVE Accounted'
<1>1. outcome = "running" /\ Step \in Code /\ Step.op = "make" /\ tokens' = tokens
  BY TopStep DEF MakeNode
<1>2. PICK type \in NodeTypes : type = Step.type
  BY <1>1, CodeAssumption
<1>3. PICK node : node = NodeOf(type, Frame.kids)
  OBVIOUS
<1>4. node \in NodeRecord /\ nodes' = Append(nodes, node)
  <2>1. Frame.kids \in Seq(Kid)
    BY <1>1, TopFrame, FrameFacts
  <2>2. node \in NodeRecord
    BY <1>1, <1>3, <2>1, MadeNode DEF Owned, Frame
  <2>. QED  BY <1>2, <1>3, <2>2 DEF MakeNode
<1>5. /\ NodesGrow /\ NewId \in Nat /\ NewId \in DOMAIN nodes' /\ nodes'[NewId] = node
      /\ DOMAIN nodes' = DOMAIN nodes \cup {NewId}
  BY <1>1, <1>4, NodeAdded
<1>6. PICK id \in Nat : id = NewId
  BY <1>5
<1>7. \A old \in DOMAIN nodes : InCall(old, Top) => InNodeOf(old, id)'
  BY <1>1, <1>3, <1>5, <1>6, NodeHolds
<1>8. Deliver(id)
  BY <1>6 DEF MakeNode
<1>. QED  BY <1>1, <1>5, <1>6, <1>7, <1>8, ResultCarries

LEMMA MakeModuleNodeCarries ==
  ASSUME Ready, Forest, StationInv, NodesRead, Accounted, MakeModuleNode PROVE Accounted'
<1>1. outcome = "running" /\ Step \in Code /\ Step.op = "make_root" /\ tokens' = tokens
  BY TopStep DEF MakeModuleNode
<1>2. PICK type \in NodeTypes : type = Step.type
  BY <1>1, CodeAssumption
<1>3. PICK node : node = NodeOf(type, Frame.kids)
  OBVIOUS
<1>4. node \in NodeRecord /\ nodes' = Append(nodes, node)
  <2>1. Frame.kids \in Seq(Kid)
    BY <1>1, TopFrame, FrameFacts
  <2>2. node \in NodeRecord
    BY <1>1, <1>3, <2>1, MadeNode DEF Owned, Frame
  <2>. QED  BY <1>2, <1>3, <2>2 DEF MakeModuleNode
<1>5. /\ NodesGrow /\ NewId \in DOMAIN nodes' /\ nodes'[NewId] = node
      /\ DOMAIN nodes' = DOMAIN nodes \cup {NewId}
  BY <1>1, <1>4, NodeAdded
<1>6. PICK id \in Nat : id = NewId
  BY NodesAndIds
<1>7. Len(nodes') = id
  <2>1. nodes \in Seq(NodeRecord)
    BY DEF Ready, TypeOK
  <2>. QED  BY <1>4, <1>6, <2>1, AppendProperties DEF NewId
<1>8. Lies(id)'
  BY <1>7 DEF Lies, MakeModuleNode
<1>9. Top = 1
  BY DEF MakeModuleNode
<1>10. ASSUME NEW old \in DOMAIN nodes, NEW k \in 1..Top, InCall(old, k) PROVE Lies(old)'
  <2>1. InNodeOf(old, id)'
    <3>1. InCall(old, Top)
      BY <1>9, <1>10
    <3>. QED  BY <1>1, <1>3, <1>5, <1>6, <3>1, NodeHolds
  <2>. QED  BY <1>5, <1>6, <2>1 DEF Lies
<1>. QED  BY <1>1, <1>5, <1>6, <1>8, <1>10, Carries

LEMMA HandOnCarries ==
  ASSUME Ready, Forest, StationInv, Accounted, HandOn PROVE Accounted'
<1>1. outcome = "running" /\ Step.op = "return" /\ tokens' = tokens /\ nodes' = nodes
  BY TopStep DEF HandOn, Output
<1>2. PICK kids \in Seq(Kid) : kids = Frame.kids /\ Len(kids) = 1
  BY <1>1, TopFrame, FrameFacts DEF HandOn
<1>3. NoElse(kids)
  BY <1>2, NoElseThere DEF HandOn
<1>4. DOMAIN kids = 1..1 /\ kids[1] \in Kid
  BY <1>2, LenProperties, ElementOfSeq
<1>5. PICK id \in Nat : id = kids[1].id
  BY <1>4 DEF Kid
<1>6. NodesGrow
  BY <1>1 DEF NodesGrow
<1>7. Deliver(id)
  BY <1>2, <1>5 DEF HandOn
<1>8. ASSUME NEW old \in DOMAIN nodes, InCall(old, Top) PROVE old = id
  <2>1. old \in KidIds(kids)
    BY <1>2, <1>3, <1>8, NoElseLosesNothing DEF InCall, Owned, Frame
  <2>. QED  BY <1>4, <1>5, <2>1 DEF KidIds
<1>. QED  BY <1>1, <1>6, <1>7, <1>8, ResultCarries

\* The node becomes the only child of its call.
LEMMA MakeOperandCarries ==
  ASSUME Ready, Forest, StationInv, Accounted, MakeOperand PROVE Accounted'
<1>1. /\ outcome = "running" /\ Step \in Code /\ Step.op = "wrap" /\ After \in Seq(Code)
      /\ tokens' = tokens
  BY TopStep DEF MakeOperand
<1>2. PICK kids \in Seq(Kid) : kids = Frame.kids /\ kids # <<>> /\ NoElse(kids)
  BY <1>1, TopFrame, FrameFacts, NoElseThere DEF MakeOperand
<1>3. PICK type \in NodeTypes, field \in Fields : type = Step.type /\ field = Step.first
  BY <1>1, CodeAssumption
<1>4. 1 \in 1..Len(kids) /\ kids[1] \in Kid
  BY <1>2, EmptySeq
<1>5. PICK kid : kid = [kids[1] EXCEPT !.field = field]
  OBVIOUS
<1>6. PICK renamed : renamed = [kids EXCEPT ![1] = kid]
  OBVIOUS
<1>7. renamed \in Seq(Kid) /\ KidIds(renamed) = KidIds(kids)
      /\ (Increasing(kids) => Increasing(renamed))
  <2>1. kid \in Kid /\ kid.id = kids[1].id
    BY <1>3, <1>4, <1>5 DEF Kid
  <2>2. /\ renamed \in Seq(Kid) /\ Len(renamed) = Len(kids)
        /\ \A j \in 1..Len(kids) : renamed[j] = IF j = 1 THEN kid ELSE kids[j]
    BY <1>4, <1>6, <2>1, ExceptSeq
  <2>3. \A j \in 1..Len(kids) : renamed[j].id = kids[j].id
    BY <2>1, <2>2
  <2>. QED  BY <2>2, <2>3, SameIds
<1>8. PICK node : node = NodeOf(type, renamed)
  OBVIOUS
<1>9. node \in NodeRecord /\ nodes' = Append(nodes, node) /\ node.kids = renamed
  <2>1. KidIds(renamed) = Owned(Top) /\ (Increasing(Frame.kids) => Increasing(renamed))
    BY <1>2, <1>7 DEF Owned, Frame
  <2>2. node \in NodeRecord /\ node.kids = renamed
    BY <1>1, <1>7, <1>8, <2>1, MadeNode DEF NodeOf
  <2>. QED  BY <1>2, <1>3, <1>5, <1>6, <1>8, <2>2 DEF MakeOperand
<1>10. PICK id \in Nat : id = NewId
  BY NodesAndIds
<1>11. /\ NodesGrow /\ id \in DOMAIN nodes' /\ nodes'[id] = node
       /\ DOMAIN nodes' = DOMAIN nodes \cup {id}
  BY <1>1, <1>9, <1>10, NodeAdded
<1>12. PICK left : left = [field |-> kids[1].field, id |-> id]
  OBVIOUS
<1>13. left \in Kid /\ left.id = id
  BY <1>4, <1>10, <1>12 DEF Kid
<1>14. PICK only \in Seq(Kid) : only = <<left>> /\ DOMAIN only = 1..1 /\ only[1] = left
  <2>1. <<left>> \in Seq(Kid) /\ DOMAIN <<left>> = 1..1
    BY <1>13
  <2>. QED  BY <2>1
<1>15. PICK frame : frame = [Frame EXCEPT !.todo = After, !.end = NoToken, !.kids = only]
  OBVIOUS
<1>16. frame \in FrameRecord /\ frame.kids = only
  <2>1. NoToken \in Int
    BY DEF NoToken
  <2>. QED  BY <1>1, <1>14, <1>15, <2>1, TopFrame DEF FrameRecord
<1>17. stack' = [stack EXCEPT ![Top] = frame]
  BY <1>2, <1>10, <1>12, <1>14, <1>15 DEF MakeOperand, Frame
<1>18. /\ stack' \in Seq(FrameRecord) /\ Len(stack') = Top /\ stack'[Top] = frame
       /\ \A k \in 1..(Top - 1) : stack'[k] = stack[k]
  BY <1>1, <1>16, <1>17, ReplaceTop
<1>19. Top' = Top /\ Top \in Nat \ {0} /\ Top \in 1..Top
  BY <1>1, <1>18, TopFrame DEF Top
<1>20. Lies(id)'
  <2>1. 1 \in DOMAIN only /\ only[1].id = id
    BY <1>13, <1>14
  <2>2. id \in KidIds(only)
    BY <2>1 DEF KidIds
  <2>3. stack'[Top].kids = only
    BY <1>16, <1>18
  <2>4. PICK t : t = Top /\ t \in 1..Top' /\ stack'[t].kids = only
    BY <1>19, <2>3
  <2>5. InCall(id, t)'
    BY <2>2, <2>4 DEF InCall, Owned, KidIds
  <2>. QED  BY <2>4, <2>5 DEF Lies
<1>21. ASSUME NEW old \in DOMAIN nodes, NEW k \in 1..Top, InCall(old, k) PROVE Lies(old)'
  <2>1. CASE k = Top
    <3>1. old \in KidIds(kids)
      BY <1>2, <1>21, <2>1, NoElseLosesNothing DEF InCall, Owned, Frame
    <3>2. old \in KidIds(nodes'[id].kids)
      BY <1>7, <1>9, <1>11, <3>1
    <3>3. InNodeOf(old, id)'
      BY <3>2 DEF InNodeOf, KidIds
    <3>. QED  BY <1>11, <3>3 DEF Lies
  <2>2. CASE k # Top
    <3>1. k \in 1..(Top - 1)
      BY <1>19, <2>2
    <3>2. stack'[k] = stack[k] /\ k \in 1..Top'
      BY <1>18, <1>19, <3>1
    <3>3. Retains(k)
      BY <3>2 DEF Retains, Owned, OwnedNext
    <3>4. k \in 1..Top' /\ InCall(old, k)'
      BY <1>11, <1>21, <3>3, CallRetains
    <3>. QED  BY <3>4 DEF Lies
  <2>. QED  BY <2>1, <2>2
<1>. QED  BY <1>1, <1>11, <1>20, <1>21, Carries

\* The else branch that is removed is lost behind the last child, which is one as well.
LEMMA ReassignCarries ==
  ASSUME Ready, Forest, StationInv, Accounted, Reassign PROVE Accounted'
<1>1. /\ outcome = "running" /\ Step \in Code /\ Step.op = "overwrite" /\ After \in Seq(Code)
      /\ tokens' = tokens /\ nodes' = nodes /\ Does("overwrite")
  BY TopStep DEF Reassign, Output
<1>2. ASSUME Continue(After) PROVE Accounted'
  BY <1>1, <1>2, ContinueCarries
<1>3. PICK kids \in Seq(Kid), start \in Int : kids = Frame.kids /\ start = Frame.start
  BY <1>1, TopFrame, FrameFacts
<1>4. PICK n \in Nat : n = Len(kids) /\ DOMAIN kids = 1..n
  BY <1>3, LenProperties
<1>5. /\ Branches(kids, start) /\ Step.field = Else /\ kids # <<>> /\ kids[n].field = Else
      /\ KidIds(kids) \subseteq DOMAIN nodes
  <2>1. PICK at : StationsFit(at)
    BY DEF StationInv
  <2>2. PICK old \in Stations : /\ old.todo # <<>> /\ Head(old.todo) = Step
                                /\ Safe(old) /\ Stands(Frame, old) /\ Goes(Frame, old)
    BY <1>1, <2>1, StationDoes
  <2>3. old.held = "new" /\ Step.field = Else
    BY <1>1, <2>2 DEF Safe
  <2>4. KidIds(Frame.kids) \subseteq DOMAIN nodes
    BY <1>1, <2>1, StationDoes
  <2>. QED  BY <1>3, <1>4, <2>2, <2>3, <2>4 DEF Stands, KidsStand, Goes
<1>6. ASSUME NEW i \in 1..(n - 1), kids[i].field = Else,
             stack' = [stack EXCEPT ![Top] =
                         [@ EXCEPT !.todo = After, !.kids = RemoveAt(kids, i)]]
      PROVE  Accounted'
  <2>1. PICK less : less = RemoveAt(kids, i)
    OBVIOUS
  <2>2. i \in 1..Len(kids) /\ i \in 1..n /\ n \in 1..n /\ n - 1 \in 1..(n - 1)
    BY <1>4, <1>6
  <2>3. /\ less \in Seq(Kid) /\ Len(less) = n - 1
        /\ \A j \in 1..(n - 1) : less[j] = IF j < i THEN kids[j] ELSE kids[j + 1]
    BY <1>4, <2>1, <2>2, KidsLeft
  <2>4. DOMAIN less = 1..(n - 1)
    BY <2>3, LenProperties
  <2>5. PICK frame : frame = [Frame EXCEPT !.todo = After, !.kids = less]
    OBVIOUS
  <2>6. frame \in FrameRecord /\ frame.kids = less /\ frame.start = start
    BY <1>1, <1>3, <2>3, <2>5, TopFrame DEF FrameRecord
  <2>7. stack' = [stack EXCEPT ![Top] = frame]
    BY <1>6, <2>1, <2>5 DEF Frame
  <2>8. /\ stack' \in Seq(FrameRecord) /\ Len(stack') = Top /\ stack'[Top] = frame
        /\ \A k \in 1..(Top - 1) : stack'[k] = stack[k]
    BY <1>1, <2>6, <2>7, ReplaceTop
  <2>9. PICK t \in Nat \ {0} : t = Top /\ Top' = t /\ t \in 1..t
    BY <1>1, <2>8, TopFrame DEF Top
  <2>10. \A j \in 1..n : j # i => \E l \in 1..(n - 1) : less[l] = kids[j]
    <3> SUFFICES ASSUME NEW j \in 1..n, j # i PROVE \E l \in 1..(n - 1) : less[l] = kids[j]
      OBVIOUS
    <3>1. CASE j < i
      <4>1. j \in 1..(n - 1)
        BY <1>6, <3>1
      <4>. QED  BY <2>3, <3>1, <4>1
    <3>2. CASE j > i
      <4>1. j - 1 \in 1..(n - 1) /\ ~(j - 1 < i) /\ (j - 1) + 1 = j
        BY <1>6, <3>2
      <4>. QED  BY <2>3, <4>1
    <3>. QED  BY <3>1, <3>2
  <2>11. \A j \in 1..n : kids[j].id \in DOMAIN nodes
    BY <1>4, <1>5 DEF KidIds
  <2>12. PICK gone \in DOMAIN nodes, last \in DOMAIN nodes : gone = kids[i].id /\ last = kids[n].id
    BY <2>2, <2>11
  <2>13. PICK from \in Int, first \in Int, end \in Int :
           from = nodes[last].start /\ first = nodes[gone].start /\ end = nodes[gone].end
    BY Numbers
  <2>14. IsElseBranch(gone) /\ start <= first /\ first < from /\ end < from
    <3>1. StartsIn(gone, start)
      BY <1>4, <1>5, <1>6, <2>2, <2>12 DEF Branches
    <3>2. Before(gone, from)
      BY <1>4, <1>5, <1>6, <2>2, <2>12, <2>13 DEF Branches
    <3>. QED  BY <2>13, <3>1, <3>2 DEF StartsIn, Before
  <2>15. PICK l \in 1..(n - 1) : less[l] = kids[n]
    <3>1. n # i
      BY <1>6
    <3>. QED  BY <2>2, <2>10, <3>1
  <2>16. ASSUME NEW old \in DOMAIN nodes,
                \/ old = gone
                \/ /\ IsElseBranch(old) /\ start <= nodes[old].start
                   /\ nodes[old].end < first
         PROVE  Loses(old, less, start)
    <3>1. nodes[old].end \in Int /\ nodes[old].start \in Int
      BY Numbers
    <3>2. IsElseBranch(old) /\ start <= nodes[old].start /\ nodes[old].end < from
      BY <2>13, <2>14, <2>16, <3>1
    <3>3. l \in 1..Len(less) /\ less[l].field = Else /\ nodes[less[l].id].start = from
      BY <1>5, <2>3, <2>12, <2>13, <2>15
    <3>. QED  BY <3>2, <3>3 DEF Loses
  <2>17. ASSUME NEW old \in DOMAIN nodes, Loses(old, less, start) PROVE Lies(old)'
    <3>1. Loses(old, less, start)'
      <4>1. NodesGrow
        BY <1>1 DEF NodesGrow
      <4>2. KidIds(less) \subseteq DOMAIN nodes
        BY <1>5, <2>1, <2>2, OneKidLess
      <4>. QED  BY <2>3, <2>17, <4>1, <4>2, LosesKept
    <3>2. stack'[t].kids = less /\ stack'[t].start = start /\ t \in 1..Top'
      BY <2>6, <2>8, <2>9
    <3>3. InCall(old, t)'
      BY <3>1, <3>2 DEF InCall
    <3>. QED  BY <3>2, <3>3 DEF Lies
  <2>18. ASSUME NEW old \in DOMAIN nodes, InCall(old, Top) PROVE Lies(old)'
    <3>1. CASE old \in KidIds(kids)
      <4>1. PICK j \in 1..n : old = kids[j].id
        BY <1>4, <3>1 DEF KidIds
      <4>2. CASE j = i
        BY <2>12, <2>16, <2>17, <4>1, <4>2
      <4>3. CASE j # i
        <5>1. PICK m \in 1..(n - 1) : less[m] = kids[j]
          BY <2>10, <4>3
        <5>2. old \in KidIds(less)
          BY <2>4, <4>1, <5>1 DEF KidIds
        <5>3. stack'[t].kids = less /\ t \in 1..Top'
          BY <2>6, <2>8, <2>9
        <5>4. InCall(old, t)'
          BY <5>2, <5>3 DEF InCall, Owned, KidIds
        <5>. QED  BY <5>3, <5>4 DEF Lies
      <4>. QED  BY <4>2, <4>3
    <3>2. CASE Loses(old, kids, start)
      <4>1. PICK j \in 1..n : /\ IsElseBranch(old) /\ kids[j].field = Else
                              /\ start <= nodes[old].start
                              /\ nodes[old].end < nodes[kids[j].id].start
        BY <1>4, <3>2 DEF Loses
      <4>2. CASE j = i
        BY <2>12, <2>13, <2>16, <2>17, <4>1, <4>2
      <4>3. CASE j # i
        <5>1. PICK m \in 1..(n - 1) : less[m] = kids[j]
          BY <2>10, <4>3
        <5>2. Loses(old, less, start)
          BY <2>3, <4>1, <5>1 DEF Loses
        <5>. QED  BY <2>17, <5>2
      <4>. QED  BY <4>2, <4>3
    <3>. QED  BY <1>3, <2>18, <3>1, <3>2 DEF InCall, Owned, Frame
  <2>19. ASSUME NEW old \in DOMAIN nodes, NEW k \in 1..Top, InCall(old, k) PROVE Lies(old)'
    <3>1. CASE k = t
      BY <2>9, <2>18, <2>19, <3>1
    <3>2. CASE k # t
      <4>1. k \in 1..(Top - 1)
        BY <2>9, <3>2
      <4>2. stack'[k] = stack[k] /\ k \in 1..Top'
        BY <2>8, <2>9, <4>1
      <4>3. Retains(k)
        BY <4>2 DEF Retains, Owned, OwnedNext
      <4>4. NodesGrow
        BY <1>1 DEF NodesGrow
      <4>5. k \in 1..Top' /\ InCall(old, k)'
        BY <2>19, <4>3, <4>4, CallRetains
      <4>. QED  BY <4>5 DEF Lies
    <3>. QED  BY <3>1, <3>2
  <2>20. NodesGrow
    BY <1>1 DEF NodesGrow
  <2>. QED  BY <1>1, <2>19, <2>20, Carries
<1>. QED  BY <1>2, <1>3, <1>4, <1>5, <1>6 DEF Reassign

LEMMA AccountedNext ==
  ASSUME Ready, Forest, StationInv, NodesRead, Accounted, Next PROVE Accounted'
  BY ReadAnyCarries, ReadTypeCarries, CheckCarries, BranchCarries, LoopCarries, CallCarries,
     TailCallCarries, DispatchCarries, MakeOperandCarries, MakeNodeCarries,
     MakeModuleNodeCarries, HandOnCarries, FixEndCarries, FixStartCarries, RenameCarries,
     ReassignCarries, StartSubmodulesCarries, ReadLiteralCarries DEF Next

\* No node has a token that has not been read.
LEMMA StaysRead ==
  ASSUME Ready, Forest, NodesRead, nodes' = nodes, index' \in Nat, index <= index'
  PROVE  NodesRead'
<1>1. ASSUME NEW id \in DOMAIN nodes PROVE nodes[id].start <= index' /\ nodes[id].end <= index'
  <2>1. nodes[id].start \in Int /\ nodes[id].end \in Int /\ index \in Nat
    BY Numbers, TokensThere
  <2>2. nodes[id].start <= index /\ nodes[id].end <= index
    BY DEF NodesRead
  <2>. QED  BY <2>1, <2>2
<1>. QED  BY <1>1 DEF NodesRead

LEMMA NewIsRead ==
  ASSUME Ready, Forest, StationInv, NodesRead, outcome = "running", tokens' = tokens,
         index' = index, NEW type \in NodeTypes, NEW kids \in Seq(Kid), KidIds(kids) = Owned(Top),
         Increasing(Frame.kids) => Increasing(kids), nodes' = Append(nodes, NodeOf(type, kids))
  PROVE  NodesRead'
<1>1. PICK at : StationsFit(at)
  BY DEF StationInv
<1>2. Top \in 1..Top
  BY TopFrame
<1>3. Frame.start <= index /\ Frame.end <= index
  BY <1>1, <1>2 DEF StationsFit, Stands, Frame
<1>4. PICK node : node = NodeOf(type, kids)
  OBVIOUS
<1>5. node \in NodeRecord
  BY <1>4, MadeNode
<1>6. /\ NewId \in DOMAIN nodes' /\ nodes'[NewId] = node
      /\ DOMAIN nodes' = DOMAIN nodes \cup {NewId}
      /\ \A id \in DOMAIN nodes : nodes'[id] = nodes[id]
  BY <1>4, <1>5, NodeAdded
<1>7. node.start <= index /\ node.end <= index
  <2>1. index <= index
    BY TokensThere
  <2>. QED  BY <1>3, <1>4, <2>1 DEF NodeOf
<1>8. ASSUME NEW id \in DOMAIN nodes' PROVE nodes'[id].start <= index /\ nodes'[id].end <= index
  BY <1>6, <1>7 DEF NodesRead
<1>. QED  BY <1>8 DEF NodesRead

LEMMA MakeOperandRead == ASSUME Ready, Forest, StationInv, NodesRead, MakeOperand PROVE NodesRead'
<1>1. /\ outcome = "running" /\ Step \in Code /\ Step.op = "wrap" /\ tokens' = tokens
      /\ index' = index
  BY TopStep DEF MakeOperand
<1>2. PICK kids \in Seq(Kid) : kids = Frame.kids /\ kids # <<>>
  BY <1>1, TopFrame, FrameFacts DEF MakeOperand
<1>3. PICK type \in NodeTypes, field \in Fields : type = Step.type /\ field = Step.first
  BY <1>1, CodeAssumption
<1>4. 1 \in 1..Len(kids) /\ kids[1] \in Kid
  BY <1>2, EmptySeq
<1>5. PICK kid : kid = [kids[1] EXCEPT !.field = field]
  OBVIOUS
<1>6. PICK renamed : renamed = [kids EXCEPT ![1] = kid]
  OBVIOUS
<1>7. renamed \in Seq(Kid) /\ KidIds(renamed) = KidIds(kids)
      /\ (Increasing(kids) => Increasing(renamed))
  <2>1. kid \in Kid /\ kid.id = kids[1].id
    BY <1>3, <1>4, <1>5 DEF Kid
  <2>2. /\ renamed \in Seq(Kid) /\ Len(renamed) = Len(kids)
        /\ \A j \in 1..Len(kids) : renamed[j] = IF j = 1 THEN kid ELSE kids[j]
    BY <1>4, <1>6, <2>1, ExceptSeq
  <2>3. \A j \in 1..Len(kids) : renamed[j].id = kids[j].id
    BY <2>1, <2>2
  <2>. QED  BY <2>2, <2>3, SameIds
<1>8. KidIds(renamed) = Owned(Top) /\ (Increasing(Frame.kids) => Increasing(renamed))
  BY <1>2, <1>7 DEF Owned, Frame
<1>9. nodes' = Append(nodes, NodeOf(type, renamed))
  BY <1>2, <1>3, <1>5, <1>6 DEF MakeOperand
<1>. QED  BY <1>1, <1>3, <1>7, <1>8, <1>9, NewIsRead

LEMMA MakeNodeRead ==
  ASSUME Ready, Forest, StationInv, NodesRead, MakeNode \/ MakeModuleNode PROVE NodesRead'
<1>1. /\ outcome = "running" /\ Step \in Code /\ Step.op \in {"make", "make_root"}
      /\ tokens' = tokens /\ index' = index
      /\ nodes' = Append(nodes, NodeOf(Step.type, Frame.kids))
  BY TopStep DEF MakeNode, MakeModuleNode
<1>2. PICK type \in NodeTypes : type = Step.type
  BY <1>1, CodeAssumption
<1>3. PICK kids \in Seq(Kid) : kids = Frame.kids /\ KidIds(kids) = Owned(Top)
  BY <1>1, TopFrame, FrameFacts DEF Owned, Frame
<1>. QED  BY <1>1, <1>2, <1>3, NewIsRead

LEMMA ReadNext == ASSUME Ready, Forest, StationInv, NodesRead, Next PROVE NodesRead'
<1>1. CASE MakeOperand
  BY <1>1, MakeOperandRead
<1>2. CASE MakeNode \/ MakeModuleNode
  BY <1>2, MakeNodeRead
<1>3. CASE ~(MakeOperand \/ MakeNode \/ MakeModuleNode)
  <2>1. nodes' = nodes
    BY <1>3 DEF Next, ReadAny, ReadType, Refuse, Check, Branch, Loop, Call, TailCall, Dispatch,
                HandOn, FixEnd, FixStart, Rename, Reassign, StartSubmodules, ReadLiteral, Output
  <2>2. index' = index \/ index' = index + 1
    BY <1>3 DEF Next, ReadAny, ReadType, Refuse, Check, Branch, Loop, Call, TailCall, Dispatch,
                HandOn, FixEnd, FixStart, Rename, Reassign, StartSubmodules, ReadLiteral, Output
  <2>3. index' \in Nat /\ index <= index'
    BY <2>2, TokensThere
  <2>. QED  BY <2>1, <2>3, StaysRead
<1>. QED  BY <1>1, <1>2, <1>3

\* In the end there is no call left.
LEMMA NoCallLeft == ASSUME Next PROVE outcome' = "done" => Top' = 0
<1>1. CASE MakeModuleNode
  BY <1>1 DEF MakeModuleNode, Top
<1>2. CASE ~MakeModuleNode
  <2>1. outcome = "running"
    BY Running
  <2>2. outcome' = outcome \/ outcome' \in {"ParserError", "RuntimeError", "LexerError"}
    BY <1>2 DEF Next, ReadAny, ReadType, Refuse, Check, Branch, Loop, Call, TailCall, Dispatch,
                MakeOperand, MakeNode, HandOn, FixEnd, FixStart, Rename, Reassign,
                StartSubmodules, ReadLiteral, Output
  <2>. QED  BY <2>1, <2>2
<1>. QED  BY <1>1, <1>2

LEMMA ElseStart == Init => ElseInv
<1> SUFFICES ASSUME Init PROVE ElseInv
  OBVIOUS
<1>1. nodes = <<>> /\ outcome = "running"
  BY DEF Init
<1>2. DOMAIN nodes = {}
  BY <1>1
<1>. QED  BY <1>1, <1>2, StationsStart DEF ElseInv, NodesRead, Accounted

LEMMA ElseStep == Ready /\ Forest /\ ElseInv /\ [Next]_vars => ElseInv'
<1>1. ASSUME Ready, Forest, ElseInv, Next PROVE ElseInv'
  BY <1>1, StationsNext, ReadNext, AccountedNext, NoCallLeft DEF ElseInv
<1>2. ASSUME Ready, ElseInv, UNCHANGED vars PROVE ElseInv'
  <2>1. tokens' = tokens /\ nodes' = nodes /\ index' = index /\ stack' = stack
        /\ outcome' = outcome /\ Top' = Top
    BY <1>2 DEF vars, Top
  <2>2. NodesRead'
    BY <1>2, <2>1 DEF ElseInv, NodesRead
  <2>3. Accounted'
    BY <1>2, <2>1 DEF ElseInv, Accounted, Lies, InCall, Owned, InNodeOf, Loses, IsElseBranch,
                      BehindElse, TokenType
  <2>4. StationInv'
    BY <1>2, <2>1, StationsStay DEF ElseInv
  <2>. QED  BY <1>2, <2>1, <2>2, <2>3, <2>4 DEF ElseInv
<1>. QED  BY <1>1, <1>2

LEMMA AccountedFor == Ready /\ ElseInv => OnlyElseIsLost
<1> SUFFICES ASSUME Ready, ElseInv, Parsed, NEW id \in 1..(Len(nodes) - 1)
             PROVE  \/ HasParent(id)
                    \/ /\ IsElseBranch(id)
                       /\ \E when \in NodeIds : \E i \in Held(nodes[when], "else_expr") :
                            Inside(id, when) /\ nodes[id].end < nodes[nodes[when].kids[i].id].start
  BY DEF OnlyElseIsLost
<1>1. id \in DOMAIN nodes /\ id # Len(nodes) /\ DOMAIN nodes = 1..Len(nodes) /\ Len(nodes) \in Nat
  <2>1. PICK n \in Nat : n = Len(nodes) /\ DOMAIN nodes = 1..n
    BY NodeNumbers
  <2>2. id \in 1..(n - 1)
    BY <2>1
  <2>3. id \in 1..n /\ id # n
    BY <2>2
  <2>. QED  BY <2>1, <2>3
<1>2. Top = 0
  BY DEF ElseInv, Parsed
<1>3. PICK w \in DOMAIN nodes : InNodeOf(id, w)
  <2>1. Lies(id)
    BY <1>1 DEF ElseInv, Accounted
  <2>. QED  BY <1>1, <1>2, <2>1 DEF Lies
<1>4. CASE id \in KidIds(nodes[w].kids)
  BY <1>4 DEF HasParent, NodeIds
<1>5. CASE Loses(id, nodes[w].kids, nodes[w].start) /\ nodes[id].end <= nodes[w].end
  <2>1. PICK i \in 1..Len(nodes[w].kids) :
          /\ nodes[w].kids[i].field = Else
          /\ nodes[w].start <= nodes[id].start /\ nodes[id].end < nodes[nodes[w].kids[i].id].start
    BY <1>5 DEF Loses
  <2>2. DOMAIN nodes[w].kids = 1..Len(nodes[w].kids)
    <3>1. nodes \in Seq(NodeRecord)
      BY DEF Ready, TypeOK
    <3>2. nodes[w] \in NodeRecord
      BY <1>1, <3>1, ElementOfSeq
    <3>3. nodes[w].kids \in Seq(Kid)
      BY <3>2 DEF NodeRecord
    <3>. QED  BY <3>3, LenProperties
  <2>3. i \in Held(nodes[w], "else_expr")
    BY <2>1, <2>2 DEF Held, Else
  <2>4. Inside(id, w) /\ IsElseBranch(id)
    BY <1>5, <2>1 DEF Inside, Loses
  <2>. QED  BY <2>1, <2>3, <2>4 DEF NodeIds
<1>. QED  BY <1>3, <1>4, <1>5 DEF InNodeOf

\* Whatever the file, no node made for it is missing in the tree of a file that is accepted,
\* but for the else branches of a `when' behind which there is another one: nothing else
\* that was parsed is thrown away.
THEOREM ElseOnlyLost == Spec => []OnlyElseIsLost
<1>1. Ready /\ ElseInv => OnlyElseIsLost
  BY AccountedFor
<1>. QED  BY <1>1, AlwaysForest, ElseStart, ElseStep, PTL DEF Spec

=============================================================================
