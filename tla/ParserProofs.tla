----------------------------- MODULE ParserProofs -----------------------------
(***************************************************************************)
(* Theorems about Parser, for every file and for every parser whose        *)
(* methods are made of the steps of ParserCode: the types, the forest of   *)
(* the nodes, and their tokens.                                            *)
(***************************************************************************)
EXTENDS Parser, SequenceTheorems, TLAPS

\* Part of the inductive invariant.  There is a call in progress until the end.
Busy == outcome = "running" => stack # <<>>

Ready == TypeOK /\ Busy

\* The children of a call in progress, before and after a step.
Owned(k)     == KidIds(stack[k].kids)
OwnedNext(k) == KidIds(stack'[k].kids)

-----------------------------------------------------------------------------
(* The kinds of steps                                                      *)

\* A call that is in progress before and after the step has no new children.
Same(k) ==
  /\ k \in DOMAIN stack
  /\ OwnedNext(k) \subseteq Owned(k)
  /\ Increasing(stack[k].kids) => Increasing(stack'[k].kids)
  /\ stack'[k].exact => stack[k].exact /\ stack'[k].start = stack[k].start

\* A call that begins with the step.
Fresh(k, start) ==
  /\ k >= Top /\ stack'[k].kids = <<>>
  /\ stack'[k].exact => stack'[k].start = start

\* No node is made or handed on.
Proceeds ==
  /\ nodes' = nodes /\ index' \in Nat /\ index <= index'
  /\ \E start :
       /\ \/ start = index'
          \/ Frame.exact /\ start = Frame.start /\ Frame.kids = <<>>
       /\ \A k \in DOMAIN stack' : Same(k) \/ Fresh(k, start)

\* `id' becomes the last child of call k, and the calls above it are over.
PassedTo(k, id) ==
  /\ Len(stack') = k
  /\ \A j \in 1..k : stack'[j].exact = stack[j].exact /\ stack'[j].start = stack[j].start
  /\ \A j \in 1..(k - 1) : stack'[j].kids = stack[j].kids
  /\ k \in 1..(Top - 1) =>
       /\ OwnedNext(k) = Owned(k) \cup {id}
       /\ Increasing(stack[k].kids) /\ (\A a \in Owned(k) : a < id)
            => Increasing(stack'[k].kids)
  /\ k > 0 /\ k = Top => OwnedNext(k) = {id} /\ Increasing(stack'[k].kids)
Passed(id) == \E k \in 0..Top : PassedTo(k, id)

HandsOn == nodes' = nodes /\ index' = index /\ \E id \in Owned(Top) : Passed(id)

\* The innermost call makes a node of its children.
Makes ==
  /\ \E node \in NodeRecord :
       /\ nodes' = Append(nodes, node)
       /\ KidIds(node.kids) = Owned(Top)
       /\ Increasing(Frame.kids) => Increasing(node.kids)
       /\ node.exact => Frame.exact /\ node.start = Frame.start /\ node.end = index
  /\ index' = index
  /\ Passed(NewId)

Kind == Proceeds \/ HandsOn \/ Makes

-----------------------------------------------------------------------------
(* Types                                                                   *)

LEMMA TopFrame ==
  ASSUME Ready, outcome = "running"
  PROVE  Top \in Nat \ {0} /\ Frame \in FrameRecord
  BY DEF Ready, TypeOK, Busy, Top, Frame

LEMMA TopStep ==
  ASSUME Ready, NEW op, Does(op)
  PROVE  /\ outcome = "running" /\ Step \in Code /\ Step.op = op
         /\ After \in Seq(Code)
<1>1. Frame \in FrameRecord /\ Frame.todo # <<>>
  BY TopFrame DEF Does
<1>2. Frame.todo \in Seq(Code)
  BY <1>1 DEF FrameRecord
<1>3. QED
  BY <1>1, <1>2, HeadTailProperties DEF Does, Step, After

LEMMA CallsAreFrames ==
  ASSUME NEW rule \in Rules, NEW field \in Fields, NEW start \in Int,
         NEW exact \in BOOLEAN,
         NEW calls, calls = Calls(rule, field, start, exact)
  PROVE  /\ calls \in Seq(FrameRecord) /\ Len(calls) > 0
         /\ \A i \in 1..Len(calls) :
              calls[i].kids = <<>> /\ calls[i].start = start /\ calls[i].exact = exact
<1> DEFINE opening == Opening[rule]
<1>0. opening \in Seq([todo : Seq(Code), field : Fields]) /\ Len(opening) > 0
  BY GrammarAssumption, Zenon
<1>1. Len(opening) \in Nat \ {0}
  BY <1>0, LenProperties
<1>2. calls = [i \in 1..Len(opening) |->
                 [todo |-> opening[i].todo, start |-> start, exact |-> exact,
                  field |-> IF i = 1 THEN field ELSE opening[i].field,
                  kids |-> <<>>, end |-> NoToken, saved |-> <<>>]]
  BY DEF Calls
<1> HIDE DEF opening
<1>3. ASSUME NEW i \in 1..Len(opening)
      PROVE  /\ calls[i] \in FrameRecord
             /\ calls[i].kids = <<>> /\ calls[i].start = start /\ calls[i].exact = exact
  <2>1. opening[i] \in [todo : Seq(Code), field : Fields]
    BY <1>0, ElementOfSeq, Zenon
  <2>2. opening[i].todo \in Seq(Code) /\ opening[i].field \in Fields
    BY <2>1
  <2>3. <<>> \in Seq(Kid) /\ <<>> \in Seq(Nat) /\ NoToken \in Int
    BY DEF NoToken
  <2>4. PICK f \in Fields : f = IF i = 1 THEN field ELSE opening[i].field
    BY <2>2
  <2>5. calls[i] = [todo |-> opening[i].todo, start |-> start, exact |-> exact,
                    field |-> f, kids |-> <<>>, end |-> NoToken, saved |-> <<>>]
    BY <1>2, <2>4
  <2>6. QED
    BY <2>2, <2>3, <2>5 DEF FrameRecord
<1>4. calls \in Seq(FrameRecord) /\ Len(calls) = Len(opening)
  <2>1. calls = [i \in 1..Len(opening) |-> calls[i]]
    BY <1>2
  <2>2. calls \in [1..Len(opening) -> FrameRecord]
    BY <1>3, <2>1
  <2>3. QED
    BY <1>1, <2>2
<1>5. QED
  BY <1>1, <1>3, <1>4

LEMMA ReplaceTop ==
  ASSUME Ready, outcome = "running", NEW frame \in FrameRecord,
         stack' = [stack EXCEPT ![Top] = frame]
  PROVE  /\ stack' \in Seq(FrameRecord) /\ stack' # <<>> /\ Len(stack') = Top
         /\ stack'[Top] = frame
         /\ \A k \in 1..(Top - 1) : stack'[k] = stack[k]
<1>1. Top \in 1..Len(stack) /\ stack \in Seq(FrameRecord) /\ Top = Len(stack) /\ Top \in Nat
  BY TopFrame DEF Ready, TypeOK, Top
<1>2. QED
  BY <1>1, ExceptSeq

\* The frame that a step leaves which only takes one step.
LEMMA ContinueTop ==
  ASSUME Ready, outcome = "running", NEW todo \in Seq(Code), Continue(todo)
  PROVE  /\ stack' = [stack EXCEPT ![Top] = [Frame EXCEPT !.todo = todo]]
         /\ [Frame EXCEPT !.todo = todo] \in FrameRecord
  BY TopFrame DEF Continue, Frame, FrameRecord

\* The calls are left alone, or the innermost one goes on.
LEMMA StackStays ==
  ASSUME Ready, stack' = stack, nodes' = nodes, index' \in Nat, index <= index'
  PROVE  Proceeds
  BY DEF Proceeds, Same, Owned, OwnedNext

LEMMA TopGoesOn ==
  ASSUME Ready, outcome = "running", NEW frame \in FrameRecord,
         stack' = [stack EXCEPT ![Top] = frame],
         nodes' = nodes, index' \in Nat, index <= index',
         KidIds(frame.kids) \subseteq KidIds(Frame.kids),
         Increasing(Frame.kids) => Increasing(frame.kids),
         \/ frame.exact => Frame.exact /\ frame.start = Frame.start
         \/ frame.kids = <<>> /\ frame.start = index'
  PROVE  Proceeds
<1>1. Len(stack') = Top /\ stack' \in Seq(FrameRecord) /\ stack'[Top] = frame
      /\ \A k \in 1..(Top - 1) : stack'[k] = stack[k]
  BY ReplaceTop
<1>2. DOMAIN stack = 1..Top /\ Top \in Nat \ {0}
  BY TopFrame, LenProperties DEF Ready, TypeOK, Top
<1>3. ASSUME NEW k \in 1..(Top - 1)
      PROVE  Same(k)
  <2>1. k \in DOMAIN stack /\ stack'[k] = stack[k]
    BY <1>1, <1>2
  <2>2. QED
    BY <2>1, Zenon DEF Same, Owned, OwnedNext
<1>4. Same(Top) \/ Fresh(Top, index')
  <2>1. Top \in DOMAIN stack /\ Top >= Top /\ stack[Top] = Frame
    BY <1>2 DEF Frame
  <2>2. QED
    BY <1>1, <2>1, Zenon DEF Same, Fresh, Owned, OwnedNext
<1>5. DOMAIN stack' = 1..Top
  BY <1>1, LenProperties
<1>6. QED
  BY <1>2, <1>3, <1>4, <1>5 DEF Proceeds

LEMMA Continues ==
  ASSUME Ready, outcome = "running", NEW todo \in Seq(Code), Continue(todo),
         nodes' = nodes, index' \in Nat, index <= index'
  PROVE  stack' \in Seq(FrameRecord) /\ stack' # <<>> /\ Proceeds
<1> DEFINE frame == [Frame EXCEPT !.todo = todo]
<1>1. frame \in FrameRecord /\ stack' = [stack EXCEPT ![Top] = frame]
  BY ContinueTop
<1>2. frame.kids = Frame.kids /\ frame.exact = Frame.exact /\ frame.start = Frame.start
  BY TopFrame DEF FrameRecord
<1> HIDE DEF frame
<1>3. QED
  BY <1>1, <1>2, ReplaceTop, TopGoesOn

\* Calls begin, on top of the others or in place of the innermost one.
LEMMA CallsBegin ==
  ASSUME Ready, outcome = "running", nodes' = nodes, index' \in Nat, index <= index',
         NEW base \in Seq(FrameRecord), Len(base) = Top \/ Len(base) = Top - 1,
         \A k \in 1..Len(base) : /\ base[k].kids = stack[k].kids
                                 /\ base[k].exact = stack[k].exact
                                 /\ base[k].start = stack[k].start,
         NEW calls \in Seq(FrameRecord), Len(calls) > 0, NEW start,
         \A i \in 1..Len(calls) : /\ calls[i].kids = <<>>
                                  /\ calls[i].exact => calls[i].start = start,
         start = index' \/ (Frame.exact /\ start = Frame.start /\ Frame.kids = <<>>),
         stack' = base \o calls
  PROVE  stack' \in Seq(FrameRecord) /\ stack' # <<>> /\ Proceeds
<1>1. DOMAIN stack = 1..Top /\ Top \in Nat \ {0}
  BY TopFrame, LenProperties DEF Ready, TypeOK, Top
<1>2. /\ stack' \in Seq(FrameRecord) /\ Len(stack') = Len(base) + Len(calls)
      /\ \A k \in 1..(Len(base) + Len(calls)) :
           stack'[k] = IF k <= Len(base) THEN base[k] ELSE calls[k - Len(base)]
  BY ConcatProperties
<1>3. Len(base) \in Nat /\ Len(calls) \in Nat /\ Len(base) >= Top - 1 /\ Len(base) <= Top
  BY <1>1, LenProperties
<1>4. DOMAIN stack' = 1..(Len(base) + Len(calls))
  BY <1>2, LenProperties
<1>5. ASSUME NEW k \in DOMAIN stack', k <= Len(base)
      PROVE  Same(k)
  <2>1. k \in 1..Len(base) /\ k \in DOMAIN stack /\ stack'[k] = base[k]
    BY <1>1, <1>2, <1>3, <1>4, <1>5
  <2>2. stack'[k].kids = stack[k].kids /\ stack'[k].exact = stack[k].exact
        /\ stack'[k].start = stack[k].start
    BY <2>1
  <2>3. QED
    BY <2>1, <2>2, Zenon DEF Same, Owned, OwnedNext
<1>6. ASSUME NEW k \in DOMAIN stack', ~(k <= Len(base))
      PROVE  Fresh(k, start)
  <2>1. k - Len(base) \in 1..Len(calls) /\ stack'[k] = calls[k - Len(base)] /\ k >= Top
    BY <1>1, <1>2, <1>3, <1>4, <1>6
  <2>2. QED
    BY <2>1 DEF Fresh
<1>7. Proceeds
  BY <1>5, <1>6, Zenon DEF Proceeds
<1>8. stack' # <<>>
  BY <1>2, <1>3
<1>9. QED
  BY <1>2, <1>7, <1>8

LEMMA OneMoreKid ==
  ASSUME NEW kids \in Seq(Kid), NEW kid \in Kid
  PROVE  /\ KidIds(Append(kids, kid)) = KidIds(kids) \cup {kid.id}
         /\ Increasing(kids) /\ (\A a \in KidIds(kids) : a < kid.id)
              => Increasing(Append(kids, kid))
<1> DEFINE more == Append(kids, kid)
<1>1. /\ Len(kids) \in Nat /\ DOMAIN kids = 1..Len(kids)
      /\ more \in Seq(Kid) /\ Len(more) = Len(kids) + 1
      /\ \A i \in 1..Len(kids) : more[i] = kids[i]
      /\ more[Len(kids) + 1] = kid
  BY AppendProperties, LenProperties
<1>2. DOMAIN more = 1..(Len(kids) + 1)
  BY <1>1, LenProperties
<1> HIDE DEF more
<1>3. DOMAIN more = DOMAIN kids \cup {Len(kids) + 1}
  BY <1>1, <1>2
<1>4. KidIds(more) = KidIds(kids) \cup {kid.id}
  BY <1>1, <1>3 DEF KidIds
<1>5. ASSUME Increasing(kids), \A a \in KidIds(kids) : a < kid.id
      PROVE  Increasing(more)
  <2>1. \A i \in 1..Len(kids) : kids[i].id \in KidIds(kids)
    BY <1>1 DEF KidIds
  <2>2. ASSUME NEW i \in DOMAIN more, NEW j \in DOMAIN more, i < j
        PROVE  more[i].id < more[j].id
    <3>1. i \in DOMAIN kids /\ i \in 1..Len(kids) /\ more[i] = kids[i]
      BY <1>1, <1>2, <2>2
    <3>2. CASE j \in DOMAIN kids
      BY <1>1, <1>5, <2>2, <3>1, <3>2 DEF Increasing
    <3>3. CASE j = Len(kids) + 1
      BY <1>1, <1>5, <2>1, <3>1, <3>3
    <3>4. QED
      BY <1>3, <3>2, <3>3
  <2>3. QED
    BY <2>2 DEF Increasing
<1>6. QED
  BY <1>4, <1>5 DEF more

LEMMA Delivered ==
  ASSUME Ready, outcome = "running", NEW id \in Nat, Deliver(id)
  PROVE  stack' \in Seq(FrameRecord) /\ stack' # <<>> /\ Passed(id)
<1>1. stack \in Seq(FrameRecord) /\ Len(stack) = Top /\ Top \in Nat \ {0}
  BY TopFrame DEF Ready, TypeOK, Top
<1>2. PICK k \in 1..(Top - 1) :
        stack' = [SubSeq(stack, 1, k) EXCEPT ![k].kids =
                    Append(@, [field |-> stack[k + 1].field, id |-> id])]
  BY DEF Deliver
<1> DEFINE base == SubSeq(stack, 1, k)
           kid  == [field |-> stack[k + 1].field, id |-> id]
           frame == [stack[k] EXCEPT !.kids = Append(stack[k].kids, kid)]
<1>3. base \in Seq(FrameRecord) /\ Len(base) = k /\ \A j \in 1..k : base[j] = stack[j]
  BY <1>1, SubSeqProperties
<1>4. stack[k] \in FrameRecord /\ stack[k + 1] \in FrameRecord
  BY <1>1
<1>5. kid \in Kid /\ kid.id = id
  BY <1>4 DEF FrameRecord, Kid
<1>6. stack[k].kids \in Seq(Kid)
  BY <1>4 DEF FrameRecord
<1> HIDE DEF kid
<1>7. Append(stack[k].kids, kid) \in Seq(Kid)
  BY <1>5, <1>6, AppendProperties
<1>8. /\ frame \in FrameRecord /\ frame.kids = Append(stack[k].kids, kid)
      /\ frame.exact = stack[k].exact /\ frame.start = stack[k].start
  BY <1>4, <1>7 DEF FrameRecord
<1>9. stack' = [base EXCEPT ![k] = frame]
  <2>1. k \in 1..k /\ base[k] = stack[k]
    BY <1>3
  <2>2. QED
    BY <1>2, <2>1 DEF kid
<1> HIDE DEF frame, base
<1>10. /\ stack' \in Seq(FrameRecord) /\ Len(stack') = k
       /\ \A j \in 1..k : stack'[j] = IF j = k THEN frame ELSE stack[j]
  BY <1>3, <1>8, <1>9, ExceptSeq
<1>11. stack' # <<>>
  BY <1>10
<1>12. stack'[k] = frame /\ \A j \in 1..(k - 1) : stack'[j] = stack[j]
  BY <1>10
<1>13. OwnedNext(k) = Owned(k) \cup {id}
       /\ (Increasing(stack[k].kids) /\ (\A a \in Owned(k) : a < id)
             => Increasing(stack'[k].kids))
  BY <1>5, <1>6, <1>8, <1>12, OneMoreKid DEF Owned, OwnedNext
<1>14. PassedTo(k, id)
  <2>1. k > 0 /\ k < Top /\ k # Top
    BY <1>1
  <2>2. \A j \in 1..k : stack'[j].exact = stack[j].exact /\ stack'[j].start = stack[j].start
    BY <1>8, <1>10
  <2>3. QED
    BY <1>10, <1>12, <1>13, <2>1, <2>2 DEF PassedTo
<1>15. k \in 0..Top
  BY <1>1
<1>16. QED
  BY <1>10, <1>11, <1>14, <1>15 DEF Passed

-----------------------------------------------------------------------------
(* Every step is of one of the kinds, and keeps the types                  *)

LEMMA TokensThere == ASSUME Ready PROVE Len(tokens) \in Nat /\ index \in Nat
<1>1. tokens \in Seq([type : STRING, line : Nat])
  BY TextsAssumption DEF Ready, TypeOK
<1>2. QED
  BY <1>1, LenProperties DEF Ready, TypeOK

LEMMA OnlyCalls ==
  ASSUME Ready, UNCHANGED Output, index' \in 0..Len(tokens),
         stack' \in Seq(FrameRecord), stack' # <<>>
  PROVE  Ready'
  BY DEF Ready, TypeOK, Busy, Output

\* What the steps have in common that only go on.
LEMMA GoesOnSame ==
  ASSUME Ready, outcome = "running", NEW todo \in Seq(Code), Continue(todo),
         UNCHANGED Output, index' \in 0..Len(tokens), index <= index'
  PROVE  Ready' /\ Proceeds
<1>1. nodes' = nodes /\ index' \in Nat
  BY TokensThere DEF Output
<1>2. QED
  BY <1>1, Continues, OnlyCalls

LEMMA RefuseKind == ASSUME Ready, Refuse PROVE Ready' /\ Proceeds
<1>1. stack' = stack /\ nodes' = nodes /\ index' = index
  BY DEF Refuse
<1>2. Proceeds
  BY <1>1, TokensThere, StackStays
<1>3. Ready'
  BY DEF Ready, TypeOK, Busy, Refuse
<1>4. QED
  BY <1>2, <1>3

LEMMA ReadAnyKind == ASSUME Ready, ReadAny PROVE Ready' /\ Proceeds
<1>1. outcome = "running" /\ After \in Seq(Code)
  BY TopStep DEF ReadAny
<1>2. index' \in 0..Len(tokens) /\ index <= index'
  BY TokensThere DEF ReadAny
<1>3. QED
  BY <1>1, <1>2, GoesOnSame DEF ReadAny

LEMMA ReadTypeKind == ASSUME Ready, ReadType PROVE Ready' /\ Proceeds
<1>1. outcome = "running" /\ After \in Seq(Code) /\ Step \in Code /\ Step.op = "take"
  BY TopStep DEF ReadType
<1>2. CASE Peek(0) \in Step.types /\ index' = index + 1 /\ Continue(After)
           /\ UNCHANGED Output
  <2>1. "past the end" \notin Step.types
    BY <1>1, CodeAssumption
  <2>2. index < Len(tokens)
    <3>1. SUFFICES ASSUME ~(index < Len(tokens))
                   PROVE  FALSE
      OBVIOUS
    <3>2. Peek(0) = "past the end"
      <4>1. ~(index + 0 < Len(tokens))
        BY <3>1, TokensThere
      <4>2. QED
        BY <4>1, Zenon DEF Peek
    <3>3. QED
      BY <1>2, <2>1, <3>2
  <2>3. index' \in 0..Len(tokens) /\ index <= index'
    BY <1>2, <2>2, TokensThere
  <2>4. QED
    BY <1>1, <1>2, <2>3, GoesOnSame
<1>3. QED
  BY <1>2, RefuseKind DEF ReadType

LEMMA CheckKind == ASSUME Ready, Check PROVE Ready' /\ Proceeds
<1>1. outcome = "running" /\ After \in Seq(Code)
  BY TopStep DEF Check
<1>2. CASE Continue(After) /\ UNCHANGED <<Output, index>>
  BY <1>1, <1>2, TokensThere, GoesOnSame DEF Ready, TypeOK
<1>3. QED
  BY <1>2, RefuseKind DEF Check

LEMMA BranchKind == ASSUME Ready, Branch PROVE Ready' /\ Proceeds
<1>1. /\ outcome = "running" /\ After \in Seq(Code)
      /\ Step \in Code /\ Step.op = "choose"
  BY TopStep DEF Branch
<1>2. \A i \in DOMAIN Step.cases : Step.cases[i].code \in Seq(Code)
  BY <1>1, CodeAssumption
<1>3. PICK todo \in Seq(Code) : Continue(todo)
  <2>1. CASE Continue(After)
    BY <1>1, <2>1
  <2>2. ASSUME NEW i \in DOMAIN Step.cases, Continue(Step.cases[i].code \o After)
        PROVE  \E todo \in Seq(Code) : Continue(todo)
    <3>1. Step.cases[i].code \o After \in Seq(Code)
      BY <1>1, <1>2, ConcatProperties
    <3>2. QED
      BY <2>2, <3>1
  <2>3. QED
    BY <2>1, <2>2 DEF Branch
<1>4. QED
  BY <1>1, <1>3, TokensThere, GoesOnSame DEF Ready, TypeOK, Branch

LEMMA LoopKind == ASSUME Ready, Loop PROVE Ready' /\ Proceeds
<1>1. /\ outcome = "running" /\ After \in Seq(Code)
      /\ Step \in Code /\ Step.op = "while"
  BY TopStep DEF Loop
<1>2. Step.code \in Seq(Code) /\ Frame.todo \in Seq(Code)
  BY <1>1, CodeAssumption, TopFrame DEF FrameRecord
<1>3. Step.code \o Frame.todo \in Seq(Code)
  BY <1>2, ConcatProperties
<1>4. PICK todo \in Seq(Code) : Continue(todo)
  BY <1>1, <1>3 DEF Loop
<1>5. QED
  BY <1>1, <1>4, TokensThere, GoesOnSame DEF Ready, TypeOK, Loop

LEMMA CallKind == ASSUME Ready, Call PROVE Ready' /\ Proceeds
<1>1. /\ outcome = "running" /\ After \in Seq(Code)
      /\ Step \in Code /\ Step.op = "parse"
  BY TopStep DEF Call
<1>2. Step.rule \in Rules /\ Step.field \in Fields /\ Step.own \in BOOLEAN
  BY <1>1, CodeAssumption
<1>3. Frame \in FrameRecord /\ Top \in Nat \ {0} /\ stack \in Seq(FrameRecord)
  BY <1>1, TopFrame DEF Ready, TypeOK
<1> DEFINE start == IF Step.own THEN index ELSE Frame.start
           frame == [Frame EXCEPT !.todo = After]
           base  == [stack EXCEPT ![Top] = frame]
           calls == Calls(Step.rule, Step.field, start, Step.own)
<1>4. start \in Int /\ (Step.own => start = index)
  <2>1. Frame.start \in Int /\ index \in Int
    BY <1>3, TokensThere DEF FrameRecord
  <2>2. start = Frame.start \/ start = index
    BY Zenon
  <2>3. Step.own => start = index
    BY Zenon
  <2>4. QED
    BY <2>1, <2>2, <2>3
<1>5. /\ frame \in FrameRecord /\ frame.kids = Frame.kids
      /\ frame.exact = Frame.exact /\ frame.start = Frame.start
  BY <1>1, <1>3 DEF FrameRecord
<1>6. stack' = base \o calls
  BY DEF Call, Frame
<1> HIDE DEF start, frame
<1>7. /\ calls \in Seq(FrameRecord) /\ Len(calls) > 0
      /\ \A i \in 1..Len(calls) : calls[i].kids = <<>> /\ calls[i].start = start
                                  /\ calls[i].exact = Step.own
  BY <1>2, <1>4, CallsAreFrames
<1>8. /\ base \in Seq(FrameRecord) /\ Len(base) = Top
      /\ \A k \in 1..Top : base[k] = IF k = Top THEN frame ELSE stack[k]
  <2>1. Top \in 1..Len(stack) /\ Top = Len(stack)
    BY <1>3 DEF Top
  <2>2. QED
    BY <1>3, <1>5, <2>1, ExceptSeq
<1> HIDE DEF base, calls
<1>9. \A k \in 1..Len(base) : /\ base[k].kids = stack[k].kids
                               /\ base[k].exact = stack[k].exact
                               /\ base[k].start = stack[k].start
  BY <1>3, <1>5, <1>8 DEF Frame
<1>10. \A i \in 1..Len(calls) : calls[i].kids = <<>>
                                /\ (calls[i].exact => calls[i].start = index')
  BY <1>4, <1>7 DEF Call
<1>11. /\ nodes' = nodes /\ index' \in Nat /\ index <= index' /\ UNCHANGED Output
       /\ index' \in 0..Len(tokens)
  BY TokensThere DEF Call, Output, Ready, TypeOK
<1>12. stack' \in Seq(FrameRecord) /\ stack' # <<>> /\ Proceeds
  BY <1>1, <1>6, <1>7, <1>8, <1>9, <1>10, <1>11, CallsBegin
<1>13. QED
  BY <1>11, <1>12, OnlyCalls

LEMMA BecomeKind ==
  ASSUME Ready, outcome = "running", Frame.kids = <<>>, NEW rule \in Rules,
         Become(rule), UNCHANGED <<Output, index>>
  PROVE  Ready' /\ Proceeds
<1>1. /\ Frame \in FrameRecord /\ Top \in Nat \ {0} /\ stack \in Seq(FrameRecord)
      /\ Top = Len(stack)
  BY TopFrame DEF Ready, TypeOK, Top
<1>2. Frame.field \in Fields /\ Frame.start \in Int /\ Frame.exact \in BOOLEAN
  BY <1>1 DEF FrameRecord
<1> DEFINE base  == SubSeq(stack, 1, Top - 1)
           calls == Calls(rule, Frame.field, Frame.start, Frame.exact)
           start == IF Frame.exact THEN Frame.start ELSE index
<1>3. stack' = base \o calls
  BY DEF Become
<1>4. /\ calls \in Seq(FrameRecord) /\ Len(calls) > 0
      /\ \A i \in 1..Len(calls) : calls[i].kids = <<>> /\ calls[i].start = Frame.start
                                  /\ calls[i].exact = Frame.exact
  BY <1>2, CallsAreFrames
<1>5. /\ base \in Seq(FrameRecord) /\ Len(base) = Top - 1
      /\ \A k \in 1..(Top - 1) : base[k] = stack[k]
  BY <1>1, SubSeqProperties
<1>6. start = index' \/ (Frame.exact /\ start = Frame.start /\ Frame.kids = <<>>)
  BY <1>2
<1>7. \A i \in 1..Len(calls) : calls[i].kids = <<>> /\ (calls[i].exact => calls[i].start = start)
  BY <1>4
<1> HIDE DEF base, calls, start
<1>8. \A k \in 1..Len(base) : /\ base[k].kids = stack[k].kids
                               /\ base[k].exact = stack[k].exact
                               /\ base[k].start = stack[k].start
  BY <1>5
<1>9. /\ nodes' = nodes /\ index' \in Nat /\ index <= index' /\ UNCHANGED Output
      /\ index' \in 0..Len(tokens)
  BY TokensThere DEF Output, Ready, TypeOK
<1>10. stack' \in Seq(FrameRecord) /\ stack' # <<>> /\ Proceeds
  BY <1>3, <1>4, <1>5, <1>6, <1>7, <1>8, <1>9, CallsBegin
<1>11. QED
  BY <1>9, <1>10, OnlyCalls

LEMMA TailCallKind == ASSUME Ready, TailCall PROVE Ready' /\ Proceeds
<1>1. outcome = "running" /\ Step \in Code /\ Step.op = "goto"
  BY TopStep DEF TailCall
<1>2. Step.rule \in Rules
  BY <1>1, CodeAssumption
<1>3. QED
  BY <1>1, <1>2, BecomeKind DEF TailCall

LEMMA DispatchKind == ASSUME Ready, Dispatch PROVE Ready' /\ Proceeds
<1>1. /\ outcome = "running" /\ After \in Seq(Code)
      /\ Step \in Code /\ Step.op = "switch"
  BY TopStep DEF Dispatch
<1>2. CASE Continue(After)
  BY <1>1, <1>2, TokensThere, GoesOnSame DEF Ready, TypeOK, Dispatch
<1>3. ASSUME NEW row \in Switches[Step.table], Become(row.rule)
      PROVE  Ready' /\ Proceeds
  <2>1. row.rule \in Rules
    BY <1>1, CodeAssumption, GrammarAssumption, Zenon
  <2>2. QED
    BY <1>1, <1>3, <2>1, BecomeKind DEF Dispatch
<1>4. QED
  BY <1>2, <1>3 DEF Dispatch

\* The node the innermost call makes, of children it may have renamed.
LEMMA MadeNode ==
  ASSUME Ready, outcome = "running", NEW type \in NodeTypes, NEW kids \in Seq(Kid),
         KidIds(kids) = Owned(Top), Increasing(Frame.kids) => Increasing(kids),
         NEW node, node = NodeOf(type, kids)
  PROVE  /\ node \in NodeRecord /\ KidIds(node.kids) = Owned(Top)
         /\ Increasing(Frame.kids) => Increasing(node.kids)
         /\ node.exact => Frame.exact /\ node.start = Frame.start /\ node.end = index
<1>1. Frame \in FrameRecord /\ index \in Int
  BY TopFrame, TokensThere
<1>2. Frame.start \in Int /\ Frame.end \in Int /\ Frame.exact \in BOOLEAN
  BY <1>1 DEF FrameRecord
<1>3. PICK end \in Int : end = IF Frame.end = NoToken THEN index ELSE Frame.end
  BY <1>1, <1>2
<1>4. PICK exact \in BOOLEAN : exact = (Frame.exact /\ Frame.end = NoToken)
  OBVIOUS
<1>5. node = [type |-> type, start |-> Frame.start, kids |-> kids, end |-> end,
              exact |-> exact]
  BY <1>3, <1>4, Zenon DEF NodeOf
<1>6. node \in NodeRecord
  BY <1>2, <1>5 DEF NodeRecord
<1>7. node.kids = kids /\ node.start = Frame.start /\ node.end = end /\ node.exact = exact
  BY <1>5
<1>8. node.exact => Frame.exact /\ node.end = index
  BY <1>3, <1>4, <1>7, Zenon
<1>9. QED
  BY <1>6, <1>7, <1>8

LEMMA NodesAndIds == ASSUME Ready PROVE Len(nodes) \in Nat /\ NewId \in Nat
  BY LenProperties DEF Ready, TypeOK, NewId

\* The last child, or the first, under another name.
LEMMA RenamedKid ==
  ASSUME NEW kids \in Seq(Kid), NEW i \in 1..Len(kids), NEW field \in Fields,
         NEW renamed, renamed = [kids EXCEPT ![i] = [kids[i] EXCEPT !.field = field]]
  PROVE  /\ renamed \in Seq(Kid) /\ KidIds(renamed) = KidIds(kids)
         /\ Increasing(kids) => Increasing(renamed)
<1>1. kids[i] \in Kid
  OBVIOUS
<1> DEFINE kid == [kids[i] EXCEPT !.field = field]
<1>2. kid \in Kid /\ kid.id = kids[i].id
  BY <1>1 DEF Kid
<1>3. renamed = [kids EXCEPT ![i] = kid]
  OBVIOUS
<1> HIDE DEF kid
<1>4. /\ renamed \in Seq(Kid) /\ Len(renamed) = Len(kids)
      /\ \A j \in 1..Len(kids) : renamed[j] = IF j = i THEN kid ELSE kids[j]
  BY <1>2, <1>3, ExceptSeq
<1>5. DOMAIN renamed = DOMAIN kids /\ DOMAIN kids = 1..Len(kids)
  BY <1>4, LenProperties
<1>6. \A j \in DOMAIN kids : renamed[j].id = kids[j].id
  BY <1>2, <1>4, <1>5
<1>7. KidIds(renamed) = KidIds(kids)
  BY <1>5, <1>6 DEF KidIds
<1>8. Increasing(kids) => Increasing(renamed)
  BY <1>5, <1>6 DEF Increasing
<1>9. QED
  BY <1>4, <1>7, <1>8

LEMMA MakeOperandKind == ASSUME Ready, MakeOperand PROVE Ready' /\ Makes
<1>1. /\ outcome = "running" /\ After \in Seq(Code)
      /\ Step \in Code /\ Step.op = "wrap"
  BY TopStep DEF MakeOperand
<1>2. Step.first \in Fields /\ Step.type \in NodeTypes
  BY <1>1, CodeAssumption
<1>3. /\ Frame \in FrameRecord /\ Frame.kids \in Seq(Kid) /\ Frame.kids # <<>>
      /\ Top \in Nat \ {0} /\ DOMAIN stack = 1..Top /\ stack \in Seq(FrameRecord)
      /\ Frame = stack[Top]
  BY <1>1, TopFrame, LenProperties
     DEF FrameRecord, MakeOperand, Ready, TypeOK, Top, Frame
<1>4. 1 \in 1..Len(Frame.kids)
  BY <1>3
<1> DEFINE kids  == [Frame.kids EXCEPT ![1].field = Step.first]
           node  == NodeOf(Step.type, kids)
           left  == [field |-> Frame.kids[1].field, id |-> NewId]
           frame == [Frame EXCEPT !.todo = After, !.end = NoToken, !.kids = <<left>>]
<1>5. /\ kids \in Seq(Kid) /\ KidIds(kids) = Owned(Top)
      /\ Increasing(Frame.kids) => Increasing(kids)
  <2>1. KidIds(Frame.kids) = Owned(Top)
    BY <1>3 DEF Owned
  <2>2. kids = [Frame.kids EXCEPT ![1] = [Frame.kids[1] EXCEPT !.field = Step.first]]
    OBVIOUS
  <2>3. Frame.kids \in Seq(Kid) /\ Step.first \in Fields
    BY <1>2, <1>3
  <2> HIDE DEF kids
  <2>4. kids \in Seq(Kid)
    BY <1>4, <2>2, <2>3, RenamedKid
  <2>5. KidIds(kids) = KidIds(Frame.kids)
    BY <1>4, <2>2, <2>3, RenamedKid
  <2>6. Increasing(Frame.kids) => Increasing(kids)
    BY <1>4, <2>2, <2>3, RenamedKid
  <2>7. QED
    BY <2>1, <2>4, <2>5, <2>6
<1>6. left \in Kid /\ left.id = NewId
  <2>1. Frame.kids[1] \in Kid
    BY <1>3, <1>4
  <2>2. QED
    BY <2>1, NodesAndIds DEF Kid
<1>7. nodes' = Append(nodes, node) /\ stack' = [stack EXCEPT ![Top] = frame]
  BY DEF MakeOperand, Frame
<1> HIDE DEF kids, left
<1>8. /\ node \in NodeRecord /\ KidIds(node.kids) = Owned(Top)
      /\ Increasing(Frame.kids) => Increasing(node.kids)
      /\ node.exact => Frame.exact /\ node.start = Frame.start /\ node.end = index
  BY <1>1, <1>2, <1>5, MadeNode
<1>9. /\ <<left>> \in Seq(Kid) /\ KidIds(<<left>>) = {NewId} /\ Increasing(<<left>>)
  BY <1>6 DEF KidIds, Increasing
<1>10. /\ frame \in FrameRecord /\ frame.kids = <<left>>
       /\ frame.exact = Frame.exact /\ frame.start = Frame.start
  <2>1. NoToken \in Int
    BY DEF NoToken
  <2> DEFINE kept == <<left>>
  <2>2. kept \in Seq(Kid)
    BY <1>9
  <2> HIDE DEF kept
  <2>3. [Frame EXCEPT !.todo = After, !.end = NoToken, !.kids = kept] \in FrameRecord
    BY <1>1, <1>3, <2>1, <2>2 DEF FrameRecord
  <2>4. LET f == [Frame EXCEPT !.todo = After, !.end = NoToken, !.kids = kept]
        IN f.kids = kept /\ f.exact = Frame.exact /\ f.start = Frame.start
    BY <1>3 DEF FrameRecord
  <2>5. QED
    BY <2>3, <2>4 DEF kept
<1> HIDE DEF node, frame
<1>11. /\ stack' \in Seq(FrameRecord) /\ stack' # <<>> /\ Len(stack') = Top
       /\ stack'[Top] = frame /\ \A k \in 1..(Top - 1) : stack'[k] = stack[k]
  BY <1>1, <1>7, <1>10, ReplaceTop
<1>12. nodes' \in Seq(NodeRecord)
  BY <1>7, <1>8, AppendProperties DEF Ready, TypeOK
<1>13. Ready'
  BY <1>11, <1>12 DEF MakeOperand, Ready, TypeOK, Busy
<1>14. \A j \in 1..Top : stack'[j].exact = stack[j].exact /\ stack'[j].start = stack[j].start
  BY <1>3, <1>10, <1>11
<1>15. OwnedNext(Top) = {NewId} /\ Increasing(stack'[Top].kids)
  BY <1>9, <1>10, <1>11 DEF OwnedNext
<1>16. PassedTo(Top, NewId)
  BY <1>3, <1>11, <1>14, <1>15 DEF PassedTo
<1>17. Passed(NewId)
  BY <1>3, <1>16 DEF Passed
<1>18. QED
  BY <1>7, <1>8, <1>13, <1>17 DEF Makes, MakeOperand

LEMMA MakeNodeKind == ASSUME Ready, MakeNode PROVE Ready' /\ Makes
<1>1. outcome = "running" /\ Step \in Code /\ Step.op = "make"
  BY TopStep DEF MakeNode
<1>2. Step.type \in NodeTypes
  BY <1>1, CodeAssumption
<1>3. Frame \in FrameRecord /\ Frame.kids \in Seq(Kid) /\ Frame.saved \in Seq(Nat)
  BY <1>1, TopFrame DEF FrameRecord
<1>4. KidIds(Frame.kids) = Owned(Top)
  BY DEF Owned, Frame
<1> DEFINE node == NodeOf(Step.type, Frame.kids)
<1>5. /\ node \in NodeRecord /\ KidIds(node.kids) = Owned(Top)
      /\ Increasing(Frame.kids) => Increasing(node.kids)
      /\ node.exact => Frame.exact /\ node.start = Frame.start /\ node.end = index
  BY <1>1, <1>2, <1>3, <1>4, MadeNode
<1>6. nodes' = Append(nodes, node)
  BY DEF MakeNode
<1> HIDE DEF node
<1>7. nodes' \in Seq(NodeRecord)
  BY <1>5, <1>6, AppendProperties DEF Ready, TypeOK
<1>8. stack' \in Seq(FrameRecord) /\ stack' # <<>> /\ Passed(NewId)
  BY <1>1, NodesAndIds, Delivered DEF MakeNode
<1>9. imports' \in Seq(Nat) /\ submodules' \in Seq(Nat)
  <2>1. Append(imports, NewId) \in Seq(Nat) /\ Append(Frame.saved, NewId) \in Seq(Nat)
    BY <1>3, NodesAndIds, AppendProperties DEF Ready, TypeOK
  <2>2. QED
    BY <2>1 DEF MakeNode, Ready, TypeOK
<1>10. lists' \in Seq([module : Nat, imports : Seq(Nat), submodules : Seq(Nat)])
  <2>1. [module |-> NewId, imports |-> <<>>, submodules |-> submodules]
          \in [module : Nat, imports : Seq(Nat), submodules : Seq(Nat)]
    BY NodesAndIds DEF Ready, TypeOK
  <2>2. Append(lists, [module |-> NewId, imports |-> <<>>, submodules |-> submodules])
          \in Seq([module : Nat, imports : Seq(Nat), submodules : Seq(Nat)])
    BY <2>1, AppendProperties DEF Ready, TypeOK
  <2>3. QED
    BY <2>2 DEF MakeNode, Ready, TypeOK
<1>11. Ready'
  BY <1>7, <1>8, <1>9, <1>10 DEF MakeNode, Ready, TypeOK, Busy
<1>12. QED
  BY <1>5, <1>6, <1>8, <1>11 DEF Makes, MakeNode

LEMMA MakeModuleNodeKind == ASSUME Ready, MakeModuleNode PROVE Ready' /\ Makes
<1>1. outcome = "running" /\ Step \in Code /\ Step.op = "make_root"
  BY TopStep DEF MakeModuleNode
<1>2. Step.type \in NodeTypes
  BY <1>1, CodeAssumption
<1>3. Frame \in FrameRecord /\ Frame.kids \in Seq(Kid) /\ Top \in Nat
  BY <1>1, TopFrame DEF FrameRecord
<1>4. KidIds(Frame.kids) = Owned(Top)
  BY DEF Owned, Frame
<1> DEFINE node == NodeOf(Step.type, Frame.kids)
           list == [module |-> NewId, imports |-> imports, submodules |-> submodules]
<1>5. /\ node \in NodeRecord /\ KidIds(node.kids) = Owned(Top)
      /\ Increasing(Frame.kids) => Increasing(node.kids)
      /\ node.exact => Frame.exact /\ node.start = Frame.start /\ node.end = index
  BY <1>1, <1>2, <1>3, <1>4, MadeNode
<1>6. nodes' = Append(nodes, node)
  BY DEF MakeModuleNode
<1> HIDE DEF node
<1>7. nodes' \in Seq(NodeRecord)
  BY <1>5, <1>6, AppendProperties DEF Ready, TypeOK
<1>8. list \in [module : Nat, imports : Seq(Nat), submodules : Seq(Nat)]
  BY NodesAndIds DEF Ready, TypeOK
<1>9. lists' \in Seq([module : Nat, imports : Seq(Nat), submodules : Seq(Nat)])
  <2>1. lists' = Append(lists, list)
    BY DEF MakeModuleNode
  <2>2. QED
    BY <1>8, <2>1, AppendProperties DEF Ready, TypeOK
<1>10. Ready'
  BY <1>7, <1>9 DEF MakeModuleNode, Ready, TypeOK, Busy
<1>11. PassedTo(0, NewId)
  BY DEF MakeModuleNode, PassedTo
<1>12. Passed(NewId)
  BY <1>3, <1>11 DEF Passed
<1>13. QED
  BY <1>5, <1>6, <1>10, <1>12 DEF Makes, MakeModuleNode

LEMMA HandOnKind == ASSUME Ready, HandOn PROVE Ready' /\ HandsOn
<1>1. outcome = "running"
  BY TopStep DEF HandOn
<1>2. Frame \in FrameRecord /\ Frame.kids \in Seq(Kid)
  BY <1>1, TopFrame DEF FrameRecord
<1>3. Frame.kids[1] \in Kid /\ 1 \in DOMAIN Frame.kids
  BY <1>2, LenProperties DEF HandOn
<1>4. Frame.kids[1].id \in Nat /\ Frame.kids[1].id \in Owned(Top)
  BY <1>3 DEF Kid, Owned, KidIds, Frame
<1>5. stack' \in Seq(FrameRecord) /\ stack' # <<>> /\ Passed(Frame.kids[1].id)
  BY <1>1, <1>4, Delivered DEF HandOn
<1>6. Ready'
  <2>1. UNCHANGED Output /\ index' \in 0..Len(tokens)
    BY DEF HandOn, Ready, TypeOK
  <2>2. QED
    BY <1>5, <2>1, OnlyCalls
<1>7. nodes' = nodes /\ index' = index
  BY DEF HandOn, Output
<1>8. QED
  BY <1>4, <1>5, <1>6, <1>7 DEF HandsOn

\* What the steps have in common that only change something of the innermost call.
LEMMA TopChanges ==
  ASSUME Ready, outcome = "running", NEW frame \in FrameRecord,
         stack' = [stack EXCEPT ![Top] = frame], UNCHANGED <<Output, index>>,
         KidIds(frame.kids) \subseteq KidIds(Frame.kids),
         Increasing(Frame.kids) => Increasing(frame.kids),
         \/ frame.exact => Frame.exact /\ frame.start = Frame.start
         \/ frame.kids = <<>> /\ frame.start = index
  PROVE  Ready' /\ Proceeds
<1>1. stack' \in Seq(FrameRecord) /\ stack' # <<>>
  BY ReplaceTop
<1>2. /\ nodes' = nodes /\ index' \in Nat /\ index <= index' /\ index' = index
      /\ index' \in 0..Len(tokens) /\ UNCHANGED Output
  BY TokensThere DEF Output, Ready, TypeOK
<1>3. Proceeds
  BY <1>2, TopGoesOn
<1>4. QED
  BY <1>1, <1>2, <1>3, OnlyCalls

LEMMA FixEndKind == ASSUME Ready, FixEnd PROVE Ready' /\ Proceeds
<1>1. outcome = "running" /\ After \in Seq(Code)
  BY TopStep DEF FixEnd
<1>2. Frame \in FrameRecord /\ NoToken \in Int /\ index \in Int
  BY <1>1, TopFrame, TokensThere DEF NoToken
<1>3. PICK end \in {NoToken, index} :
        stack' = [stack EXCEPT ![Top] = [Frame EXCEPT !.todo = After, !.end = end]]
  BY DEF FixEnd, Frame
<1> DEFINE frame == [Frame EXCEPT !.todo = After, !.end = end]
<1>4. /\ frame \in FrameRecord /\ frame.kids = Frame.kids
      /\ frame.exact = Frame.exact /\ frame.start = Frame.start
  BY <1>1, <1>2 DEF FrameRecord
<1>5. stack' = [stack EXCEPT ![Top] = frame]
  BY <1>3
<1> HIDE DEF frame
<1>6. QED
  BY <1>1, <1>4, <1>5, TopChanges DEF FixEnd

LEMMA FixStartKind == ASSUME Ready, FixStart PROVE Ready' /\ Proceeds
<1>1. /\ outcome = "running" /\ After \in Seq(Code)
      /\ Step \in Code /\ Step.op = "start"
  BY TopStep DEF FixStart
<1>2. Frame \in FrameRecord /\ index \in Nat /\ Step.back \in Nat
  BY <1>1, TopFrame, TokensThere, CodeAssumption
<1>3. PICK exact \in BOOLEAN : exact = (Step.back = 0 /\ Frame.kids = <<>>)
  OBVIOUS
<1>4. PICK start \in Int : start = index - Step.back
  BY <1>2
<1> DEFINE frame == [Frame EXCEPT !.todo = After, !.start = start, !.exact = exact]
<1>5. stack' = [stack EXCEPT ![Top] = frame]
  BY <1>3, <1>4 DEF FixStart, Frame
<1>6. /\ frame \in FrameRecord /\ frame.kids = Frame.kids
      /\ frame.exact = exact /\ frame.start = start
  BY <1>1, <1>2 DEF FrameRecord
<1> HIDE DEF frame
<1>7. frame.exact => frame.kids = <<>> /\ frame.start = index
  <2>1. frame.exact => Step.back = 0 /\ frame.kids = <<>>
    BY <1>3, <1>6, Zenon
  <2>2. Step.back = 0 => start = index
    BY <1>2, <1>4
  <2>3. QED
    BY <1>6, <2>1, <2>2, Zenon
<1>8. QED
  BY <1>1, <1>5, <1>6, <1>7, TopChanges DEF FixStart

LEMMA RenameKind == ASSUME Ready, Rename PROVE Ready' /\ Proceeds
<1>1. /\ outcome = "running" /\ After \in Seq(Code)
      /\ Step \in Code /\ Step.op = "relabel"
  BY TopStep DEF Rename
<1>2. Step.field \in Fields
  BY <1>1, CodeAssumption
<1>3. Frame \in FrameRecord /\ Frame.kids \in Seq(Kid) /\ Frame.kids # <<>>
  BY <1>1, TopFrame DEF FrameRecord, Rename
<1> DEFINE i     == Len(Frame.kids)
           kids  == [Frame.kids EXCEPT ![i] = [Frame.kids[i] EXCEPT !.field = Step.field]]
           frame == [Frame EXCEPT !.todo = After, !.kids = kids]
<1>4. i \in 1..Len(Frame.kids)
  BY <1>3
<1>5. stack' = [stack EXCEPT ![Top] = frame]
  BY DEF Rename, Frame
<1>6. kids = [Frame.kids EXCEPT ![i] = [Frame.kids[i] EXCEPT !.field = Step.field]]
  OBVIOUS
<1> HIDE DEF kids, i
<1>7. kids \in Seq(Kid)
  BY <1>2, <1>3, <1>4, <1>6, RenamedKid
<1>8. KidIds(kids) = KidIds(Frame.kids)
  BY <1>2, <1>3, <1>4, <1>6, RenamedKid
<1>9. Increasing(Frame.kids) => Increasing(kids)
  BY <1>2, <1>3, <1>4, <1>6, RenamedKid, SMTT(30)
<1>10. /\ frame \in FrameRecord /\ frame.kids = kids
       /\ frame.exact = Frame.exact /\ frame.start = Frame.start
  BY <1>1, <1>3, <1>7 DEF FrameRecord
<1> HIDE DEF frame
<1>11. QED
  BY <1>1, <1>5, <1>8, <1>9, <1>10, TopChanges DEF Rename

\* The children that are left when one is taken out.
LEMMA KidsLeft ==
  ASSUME NEW kids \in Seq(Kid), NEW i \in 1..Len(kids),
         NEW less, less = RemoveAt(kids, i)
  PROVE  /\ less \in Seq(Kid) /\ Len(less) = Len(kids) - 1
         /\ \A j \in 1..(Len(kids) - 1) :
              less[j] = IF j < i THEN kids[j] ELSE kids[j + 1]
<1> DEFINE left  == SubSeq(kids, 1, i - 1)
           right == SubSeq(kids, i + 1, Len(kids))
<1>1. Len(kids) \in Nat /\ DOMAIN kids = 1..Len(kids)
  BY LenProperties
<1>2. /\ left \in Seq(Kid) /\ Len(left) = i - 1
      /\ \A j \in 1..(i - 1) : left[j] = kids[j]
  BY <1>1, SubSeqProperties
<1>3. /\ right \in Seq(Kid) /\ Len(right) = Len(kids) - i
      /\ \A j \in 1..(Len(kids) - i) : right[j] = kids[j + i]
  <2>1. /\ right \in Seq(Kid)
        /\ \A j \in 1..(Len(kids) - (i + 1) + 1) : right[j] = kids[(i + 1) + j - 1]
    BY <1>1, SubSeqProperties
  <2>2. Len(right) = IF i + 1 <= Len(kids) THEN Len(kids) - (i + 1) + 1 ELSE 0
    <3>1. /\ i + 1 \in Int /\ Len(kids) \in Int
          /\ \A j \in i + 1..Len(kids) : kids[j] \in Kid
      BY <1>1, SMTT(30)
    <3>2. QED
      BY <3>1, SubSeqProperties
  <2> HIDE DEF left, right
  <2>3. PICK n \in Nat : n = Len(kids)
    BY <1>1
  <2>4. i \in 1..n
    BY <2>3
  <2>5. Len(right) = n - i
    BY <2>2, <2>3, <2>4
  <2>6. ASSUME NEW j \in 1..(n - i)
        PROVE  right[j] = kids[j + i]
    <3>1. j \in 1..(n - (i + 1) + 1) /\ (i + 1) + j - 1 = j + i
      BY <2>4
    <3>2. QED
      BY <2>1, <2>3, <3>1
  <2>7. QED
    BY <2>1, <2>3, <2>5, <2>6
<1>4. less = left \o right
  BY DEF RemoveAt
<1> HIDE DEF left, right
<1>5. /\ less \in Seq(Kid) /\ Len(less) = Len(kids) - 1
      /\ \A j \in 1..(Len(kids) - 1) :
           less[j] = IF j <= i - 1 THEN left[j] ELSE right[j - (i - 1)]
  <2>1. left \in Seq(Kid) /\ right \in Seq(Kid)
    BY <1>2, <1>3
  <2>2. /\ less \in Seq(Kid) /\ Len(less) = Len(left) + Len(right)
        /\ \A j \in 1..(Len(left) + Len(right)) :
             less[j] = IF j <= Len(left) THEN left[j] ELSE right[j - Len(left)]
    BY <1>4, <2>1, ConcatProperties
  <2>3. Len(left) = i - 1 /\ Len(left) + Len(right) = Len(kids) - 1
    BY <1>1, <1>2, <1>3
  <2>4. QED
    BY <2>2, <2>3
<1>6. DOMAIN less = 1..(Len(kids) - 1)
  BY <1>5, LenProperties
<1>7. ASSUME NEW j \in DOMAIN less
      PROVE  less[j] = IF j < i THEN kids[j] ELSE kids[j + 1]
  <2>0. j \in 1..(Len(kids) - 1) /\ j \in Int /\ i \in Int
    BY <1>1, <1>6
  <2>1. CASE j < i
    <3>1. j <= i - 1 /\ j \in 1..(i - 1) /\ j \in DOMAIN kids
      BY <1>1, <2>0, <2>1
    <3>2. less[j] = left[j]
      BY <1>5, <2>0, <3>1
    <3>3. QED
      BY <1>2, <2>1, <3>1, <3>2
  <2>2. CASE ~(j < i)
    <3>1. less[j] = right[j - (i - 1)] /\ j - (i - 1) \in 1..(Len(kids) - i)
      <4>1. ~(j <= i - 1) /\ j - (i - 1) \in 1..(Len(kids) - i)
        BY <1>1, <2>0, <2>2
      <4>2. QED
        BY <1>5, <2>0, <4>1
    <3>2. right[j - (i - 1)] = kids[(j - (i - 1)) + i] /\ (j - (i - 1)) + i = j + 1
      BY <1>1, <1>3, <1>6, <3>1
    <3>3. QED
      BY <1>1, <1>6, <2>2, <3>1, <3>2
  <2>3. QED
    BY <2>1, <2>2
<1>8. QED
  BY <1>5, <1>6, <1>7

LEMMA OneKidLess ==
  ASSUME NEW kids \in Seq(Kid), NEW i \in 1..Len(kids),
         NEW less, less = RemoveAt(kids, i)
  PROVE  /\ less \in Seq(Kid) /\ KidIds(less) \subseteq KidIds(kids)
         /\ Increasing(kids) => Increasing(less)
<1> DEFINE place(j) == IF j < i THEN j ELSE j + 1
<1>1. Len(kids) \in Nat /\ DOMAIN kids = 1..Len(kids)
  BY LenProperties
<1>2. /\ less \in Seq(Kid) /\ Len(less) = Len(kids) - 1
      /\ \A j \in 1..(Len(kids) - 1) :
           less[j] = IF j < i THEN kids[j] ELSE kids[j + 1]
  BY KidsLeft
<1>3. DOMAIN less = 1..(Len(kids) - 1)
  BY <1>2, LenProperties
<1>4. \A j \in DOMAIN less : place(j) \in DOMAIN kids /\ less[j] = kids[place(j)]
  BY <1>1, <1>2, <1>3
<1>5. \A j, k \in DOMAIN less : j < k => place(j) < place(k)
  BY <1>1, <1>3
<1> HIDE DEF place
<1>6. KidIds(less) \subseteq KidIds(kids)
  BY <1>4 DEF KidIds
<1>7. Increasing(kids) => Increasing(less)
  BY <1>4, <1>5 DEF Increasing
<1>8. QED
  BY <1>2, <1>6, <1>7

LEMMA ReassignKind == ASSUME Ready, Reassign PROVE Ready' /\ Proceeds
<1>1. outcome = "running" /\ After \in Seq(Code)
  BY TopStep DEF Reassign
<1>2. Frame \in FrameRecord /\ Frame.kids \in Seq(Kid)
  BY <1>1, TopFrame DEF FrameRecord
<1>3. CASE Continue(After)
  <2>1. UNCHANGED Output /\ index' = index
    BY DEF Reassign
  <2>2. index' \in 0..Len(tokens) /\ index <= index'
    BY <2>1, TokensThere DEF Ready, TypeOK
  <2>3. QED
    BY <1>1, <1>3, <2>1, <2>2, GoesOnSame
<1>4. ASSUME NEW i \in 1..(Len(Frame.kids) - 1),
             stack' = [stack EXCEPT ![Top] =
                         [@ EXCEPT !.todo = After, !.kids = RemoveAt(Frame.kids, i)]]
      PROVE  Ready' /\ Proceeds
  <2> DEFINE kids  == RemoveAt(Frame.kids, i)
             frame == [Frame EXCEPT !.todo = After, !.kids = kids]
  <2>1. i \in 1..Len(Frame.kids)
    BY <1>2, LenProperties
  <2>2. stack' = [stack EXCEPT ![Top] = frame]
    BY <1>4 DEF Frame
  <2>3. kids = RemoveAt(Frame.kids, i)
    OBVIOUS
  <2> HIDE DEF kids
  <2>4. /\ kids \in Seq(Kid) /\ KidIds(kids) \subseteq KidIds(Frame.kids)
        /\ Increasing(Frame.kids) => Increasing(kids)
    BY <1>2, <2>1, <2>3, OneKidLess
  <2>5. /\ frame \in FrameRecord /\ frame.kids = kids
        /\ frame.exact = Frame.exact /\ frame.start = Frame.start
    BY <1>1, <1>2, <2>4 DEF FrameRecord
  <2> HIDE DEF frame
  <2>6. QED
    BY <1>1, <2>2, <2>4, <2>5, TopChanges DEF Reassign
<1>5. QED
  BY <1>3, <1>4 DEF Reassign

LEMMA StartSubmodulesKind == ASSUME Ready, StartSubmodules PROVE Ready' /\ Proceeds
<1>1. outcome = "running" /\ After \in Seq(Code)
  BY TopStep DEF StartSubmodules
<1>2. Frame \in FrameRecord /\ submodules \in Seq(Nat)
  BY <1>1, TopFrame DEF Ready, TypeOK
<1> DEFINE frame == [Frame EXCEPT !.todo = After, !.saved = submodules]
<1>3. stack' = [stack EXCEPT ![Top] = frame]
  BY DEF StartSubmodules, Frame
<1>4. /\ frame \in FrameRecord /\ frame.kids = Frame.kids
      /\ frame.exact = Frame.exact /\ frame.start = Frame.start
  BY <1>1, <1>2 DEF FrameRecord
<1> HIDE DEF frame
<1>5. nodes' = nodes /\ index' = index /\ index' \in Nat /\ index <= index'
  BY TokensThere DEF StartSubmodules
<1>6. Proceeds
  BY <1>1, <1>3, <1>4, <1>5, TopGoesOn
<1>7. stack' \in Seq(FrameRecord) /\ stack' # <<>>
  BY <1>1, <1>3, <1>4, ReplaceTop
<1>8. Ready'
  BY <1>7 DEF StartSubmodules, Ready, TypeOK, Busy
<1>9. QED
  BY <1>6, <1>8

LEMMA ReadLiteralKind == ASSUME Ready, ReadLiteral PROVE Ready' /\ Proceeds
<1>1. outcome = "running" /\ After \in Seq(Code)
  BY TopStep DEF ReadLiteral
<1>2. CASE Continue(After) /\ UNCHANGED <<Output, index>>
  BY <1>1, <1>2, TokensThere, GoesOnSame DEF Ready, TypeOK
<1>3. CASE /\ outcome' = "LexerError"
           /\ UNCHANGED <<tokens, index, nodes, stack, imports, submodules, lists>>
  <2>1. Proceeds
    BY <1>3, TokensThere, StackStays
  <2>2. Ready'
    BY <1>3 DEF Ready, TypeOK, Busy
  <2>3. QED
    BY <2>1, <2>2
<1>4. QED
  BY <1>2, <1>3 DEF ReadLiteral

LEMMA StepKind == ASSUME Ready, Next PROVE Ready' /\ Kind
  BY ReadAnyKind, ReadTypeKind, CheckKind, BranchKind, LoopKind, CallKind,
     TailCallKind, DispatchKind, MakeOperandKind, MakeNodeKind,
     MakeModuleNodeKind, HandOnKind, FixEndKind, FixStartKind, RenameKind,
     ReassignKind, StartSubmodulesKind, ReadLiteralKind
  DEF Next, Kind

\* The first calls.
LEMMA StartedWith ==
  ASSUME Init
  PROVE  /\ stack \in Seq(FrameRecord) /\ Len(stack) > 0
         /\ \A k \in DOMAIN stack : stack[k].kids = <<>> /\ stack[k].start = 0
<1>1. stack = Calls("module", "", 0, TRUE)
  BY Zenon DEF Init
<1>2. \A rule \in Rules, field \in Fields, start \in Int, exact \in BOOLEAN :
        LET calls == Calls(rule, field, start, exact)
        IN /\ calls \in Seq(FrameRecord) /\ Len(calls) > 0
           /\ \A i \in 1..Len(calls) : calls[i].kids = <<>> /\ calls[i].start = start
  <2> TAKE rule \in Rules, field \in Fields, start \in Int, exact \in BOOLEAN
  <2> DEFINE calls == Calls(rule, field, start, exact)
  <2>1. calls = Calls(rule, field, start, exact)
    OBVIOUS
  <2> HIDE DEF calls
  <2>2. /\ calls \in Seq(FrameRecord) /\ Len(calls) > 0
        /\ \A i \in 1..Len(calls) : calls[i].kids = <<>> /\ calls[i].start = start
    BY <2>1, CallsAreFrames
  <2>3. QED
    BY <2>1, <2>2, Zenon
<1>3. "module" \in Rules /\ "" \in Fields
  BY GrammarAssumption, Zenon
<1>4. 0 \in Int /\ TRUE \in BOOLEAN
  OBVIOUS
<1>5. /\ stack \in Seq(FrameRecord) /\ Len(stack) > 0
      /\ \A i \in 1..Len(stack) : stack[i].kids = <<>> /\ stack[i].start = 0
  BY <1>1, <1>2, <1>3, <1>4, ZenonT(40)
<1>6. QED
  BY <1>5, LenProperties

LEMMA ReadyInit == Init => Ready
<1> SUFFICES ASSUME Init PROVE Ready
  OBVIOUS
<1>1. stack \in Seq(FrameRecord) /\ Len(stack) > 0
  BY StartedWith
<1>2. stack # <<>>
  BY <1>1
<1>3. tokens \in Texts
  BY Zenon DEF Init
<1>4. index \in 0..Len(tokens)
  <2>1. tokens \in Seq([type : STRING, line : Nat])
    BY <1>3, TextsAssumption
  <2>2. Len(tokens) \in Nat
    BY <2>1, LenProperties
  <2>3. index = 0
    BY Zenon DEF Init
  <2>4. QED
    BY <2>2, <2>3
<1>5. /\ nodes = <<>> /\ imports = <<>> /\ submodules = <<>> /\ lists = <<>>
      /\ outcome = "running"
  BY Zenon DEF Init
<1>6. /\ nodes \in Seq(NodeRecord) /\ imports \in Seq(Nat) /\ submodules \in Seq(Nat)
      /\ lists \in Seq([module : Nat, imports : Seq(Nat), submodules : Seq(Nat)])
  BY <1>5
<1>7. TypeOK
  BY <1>1, <1>3, <1>4, <1>5, <1>6 DEF TypeOK
<1>8. QED
  BY <1>2, <1>7 DEF Ready, Busy

LEMMA ReadyStep == Ready /\ [Next]_vars => Ready'
<1>1. ASSUME Ready, Next PROVE Ready'
  BY <1>1, StepKind
<1>2. ASSUME Ready, UNCHANGED vars PROVE Ready'
  BY <1>2 DEF vars, Ready, TypeOK, Busy
<1>3. QED
  BY <1>1, <1>2

LEMMA AlwaysReady == Spec => []Ready
  BY ReadyInit, ReadyStep, PTL DEF Spec

\* However a file is parsed, the state is one of ParserState's, and the parser never
\* reads past the end of the file.
THEOREM Types == Spec => []TypeOK
<1>1. Ready => TypeOK
  BY DEF Ready
<1>2. QED
  BY <1>1, AlwaysReady, PTL

-----------------------------------------------------------------------------
(* The forest                                                              *)

\* The inductive invariant: the conjuncts of OneParent, the one about two calls
\* strengthened.  What an outer call holds was made before what an inner one holds,
\* so a node that goes to an outer call comes after the children it has.
NodesForest ==
  /\ \A i \in DOMAIN nodes : /\ Increasing(nodes[i].kids)
                             /\ KidIds(nodes[i].kids) \subseteq 1..(i - 1)
  /\ \A i, j \in DOMAIN nodes : i < j =>
       KidIds(nodes[i].kids) \cap KidIds(nodes[j].kids) = {}
HoldsNodes ==
  \A k \in DOMAIN stack : /\ Increasing(stack[k].kids)
                          /\ Owned(k) \subseteq DOMAIN nodes
HoldsInOrder ==
  \A k, l \in DOMAIN stack : k < l => \A a \in Owned(k), b \in Owned(l) : a < b
HoldsRoots ==
  \A i \in DOMAIN nodes, k \in DOMAIN stack :
    KidIds(nodes[i].kids) \cap Owned(k) = {}
Forest == NodesForest /\ HoldsNodes /\ HoldsInOrder /\ HoldsRoots

LEMMA NodeNumbers ==
  ASSUME Ready
  PROVE  DOMAIN nodes = 1..Len(nodes) /\ DOMAIN stack = 1..Top /\ Top \in Nat
         /\ Len(nodes) \in Nat
  BY LenProperties DEF Ready, TypeOK, Top

LEMMA ForestProceeds == ASSUME Ready, Forest, Proceeds PROVE Forest'
<1>1. nodes' = nodes
  BY DEF Proceeds
<1>2. ASSUME NEW k \in DOMAIN stack'
      PROVE  /\ Increasing(stack'[k].kids)
             /\ \A a \in OwnedNext(k) : k \in DOMAIN stack /\ a \in Owned(k)
  <2>1. CASE Same(k)
    BY <2>1 DEF Same, Forest, HoldsNodes
  <2>2. CASE stack'[k].kids = <<>>
    <3>1. DOMAIN stack'[k].kids = {}
      BY <2>2
    <3>2. QED
      BY <3>1, Zenon DEF Increasing, OwnedNext, KidIds
  <2>3. QED
    BY <2>1, <2>2, Zenon DEF Proceeds, Fresh
<1>3. NodesForest'
  BY <1>1, Zenon DEF NodesForest, Forest
<1>4. HoldsNodes'
  BY <1>1, <1>2, Zenon DEF HoldsNodes, Forest, Owned, OwnedNext
<1>5. HoldsInOrder'
  BY <1>2, Zenon DEF HoldsInOrder, Forest, Owned, OwnedNext
<1>6. HoldsRoots'
  BY <1>1, <1>2 DEF HoldsRoots, Forest, Owned, OwnedNext
<1>7. QED
  BY <1>3, <1>4, <1>5, <1>6 DEF Forest

\* The calls after `id' has been passed on.
LEMMA PassedOn ==
  ASSUME Ready, Ready', Forest, NEW id \in Nat, Passed(id),
         \A j \in 1..(Top - 1) : \A a \in Owned(j) : a < id
  PROVE  /\ DOMAIN stack' \subseteq DOMAIN stack
         /\ \A j \in DOMAIN stack' :
              /\ stack'[j].exact = stack[j].exact /\ stack'[j].start = stack[j].start
              /\ Increasing(stack'[j].kids)
              /\ \A a \in OwnedNext(j) : a = id \/ (j < Top /\ a \in Owned(j))
         /\ HoldsInOrder'
<1>1. PICK k \in 0..Top : PassedTo(k, id)
  BY DEF Passed
<1>2. DOMAIN stack = 1..Top /\ Top \in Nat
  BY NodeNumbers
<1>3. DOMAIN stack' = 1..k
  <2>1. stack' \in Seq(FrameRecord) /\ Len(stack') = k
    BY <1>1 DEF PassedTo, Ready, TypeOK
  <2>2. QED
    BY <2>1, LenProperties
<1>4. ASSUME NEW j \in 1..k
      PROVE  stack'[j].exact = stack[j].exact /\ stack'[j].start = stack[j].start
  BY <1>1, <1>4 DEF PassedTo
<1>5. ASSUME NEW j \in 1..(k - 1)
      PROVE  OwnedNext(j) = Owned(j) /\ Increasing(stack'[j].kids) /\ j < Top
  <2>1. stack'[j].kids = stack[j].kids /\ j \in DOMAIN stack /\ j < Top
    BY <1>1, <1>2, <1>5 DEF PassedTo
  <2>2. QED
    BY <2>1 DEF Owned, OwnedNext, Forest, HoldsNodes
<1>6. ASSUME k > 0
      PROVE  /\ Increasing(stack'[k].kids) /\ id \in OwnedNext(k)
             /\ \A a \in OwnedNext(k) : a = id \/ (k < Top /\ a \in Owned(k))
  <2>1. CASE k = Top
    BY <1>1, <1>6, <2>1 DEF PassedTo
  <2>2. CASE k < Top
    <3>1. k \in 1..(Top - 1) /\ k \in DOMAIN stack
      BY <1>2, <1>6, <2>2
    <3>2. Increasing(stack[k].kids) /\ (\A a \in Owned(k) : a < id)
      BY <3>1 DEF Forest, HoldsNodes
    <3>3. QED
      BY <1>1, <2>2, <3>1, <3>2 DEF PassedTo
  <2>3. QED
    BY <1>2, <2>1, <2>2
<1>7. ASSUME NEW i \in 1..k, NEW j \in 1..k, i < j,
             NEW a \in OwnedNext(i), NEW b \in OwnedNext(j)
      PROVE  a < b
  <2>1. i \in 1..(k - 1) /\ i \in 1..(Top - 1) /\ i \in DOMAIN stack /\ a \in Owned(i)
    BY <1>2, <1>5, <1>7
  <2>2. CASE b = id
    BY <2>1, <2>2
  <2>3. CASE b # id
    <3>1. j \in DOMAIN stack /\ b \in Owned(j)
      <4>1. CASE j = k
        BY <1>2, <1>6, <1>7, <2>3, <4>1
      <4>2. CASE j # k
        BY <1>2, <1>5, <1>7, <4>2
      <4>3. QED
        BY <4>1, <4>2
    <3>2. QED
      BY <1>7, <2>1, <3>1 DEF Forest, HoldsInOrder
  <2>4. QED
    BY <2>2, <2>3
<1>8. HoldsInOrder'
  BY <1>3, <1>7, Zenon DEF HoldsInOrder, Owned, OwnedNext
<1>9. \A j \in 1..k : /\ Increasing(stack'[j].kids)
                      /\ \A a \in OwnedNext(j) : a = id \/ (j < Top /\ a \in Owned(j))
  <2>1. \A j \in 1..k : (j = k /\ k > 0) \/ j \in 1..(k - 1)
    OBVIOUS
  <2>2. QED
    BY <1>5, <1>6, <2>1, Zenon
<1>10. DOMAIN stack' \subseteq DOMAIN stack
  BY <1>2, <1>3
<1>11. QED
  BY <1>3, <1>4, <1>8, <1>9, <1>10, Zenon

LEMMA ForestHandsOn ==
  ASSUME Ready, Ready', Forest, outcome = "running", HandsOn PROVE Forest'
<1>1. PICK id \in Owned(Top) : Passed(id)
  BY DEF HandsOn
<1>2. Top \in DOMAIN stack /\ DOMAIN stack = 1..Top /\ Top \in Nat
  BY TopFrame, NodeNumbers
<1>3. id \in DOMAIN nodes /\ id \in Nat
  BY <1>1, <1>2, NodeNumbers DEF Forest, HoldsNodes
<1>4. ASSUME NEW j \in 1..(Top - 1), NEW a \in Owned(j)
      PROVE  a < id
  <2>1. j \in DOMAIN stack /\ j < Top
    BY <1>2
  <2>2. QED
    BY <1>1, <1>2, <2>1 DEF Forest, HoldsInOrder
<1>5. nodes' = nodes
  BY DEF HandsOn
<1>6. ASSUME NEW j \in DOMAIN stack', NEW a \in OwnedNext(j)
      PROVE  \E l \in DOMAIN stack : a \in Owned(l)
  <2>1. a = id \/ a \in Owned(j)
    BY <1>1, <1>3, <1>4, PassedOn
  <2>2. j \in DOMAIN stack
    BY <1>1, <1>3, <1>4, PassedOn
  <2>3. QED
    BY <1>1, <1>2, <2>1, <2>2
<1>7. NodesForest'
  BY <1>5, Zenon DEF NodesForest, Forest
<1>8. HoldsNodes'
  <2>1. \A j \in DOMAIN stack' : Increasing(stack'[j].kids)
    BY <1>1, <1>3, <1>4, PassedOn
  <2>2. \A j \in DOMAIN stack' : OwnedNext(j) \subseteq DOMAIN nodes
    BY <1>6 DEF Forest, HoldsNodes
  <2>3. QED
    BY <1>5, <2>1, <2>2, Zenon DEF HoldsNodes, Owned, OwnedNext
<1>9. HoldsInOrder'
  BY <1>1, <1>3, <1>4, PassedOn
<1>10. HoldsRoots'
  <2>1. \A i \in DOMAIN nodes, j \in DOMAIN stack' :
          KidIds(nodes[i].kids) \cap OwnedNext(j) = {}
    BY <1>6 DEF Forest, HoldsRoots
  <2>2. QED
    BY <1>5, <2>1, Zenon DEF HoldsRoots, Owned, OwnedNext
<1>11. QED
  BY <1>7, <1>8, <1>9, <1>10 DEF Forest

\* A new node, and the nodes there were.
LEMMA OneMoreNode ==
  ASSUME Ready, NEW node \in NodeRecord, nodes' = Append(nodes, node)
  PROVE  /\ NewId = Len(nodes) + 1 /\ Len(nodes) \in Nat
         /\ DOMAIN nodes' = 1..NewId /\ DOMAIN nodes = 1..(NewId - 1)
         /\ nodes'[NewId] = node
         /\ \A i \in DOMAIN nodes : nodes'[i] = nodes[i]
<1>1. nodes \in Seq(NodeRecord)
  BY DEF Ready, TypeOK
<1>2. nodes' \in Seq(NodeRecord) /\ Len(nodes') = Len(nodes) + 1
  BY <1>1, AppendProperties
<1>3. QED
  BY <1>1, <1>2, LenProperties, AppendProperties DEF NewId

LEMMA ForestMakes ==
  ASSUME Ready, Ready', Forest, outcome = "running", Makes PROVE Forest'
<1>1. PICK node \in NodeRecord :
        /\ nodes' = Append(nodes, node)
        /\ KidIds(node.kids) = Owned(Top)
        /\ Increasing(Frame.kids) => Increasing(node.kids)
  BY DEF Makes
<1>2. Passed(NewId) /\ NewId \in Nat
  BY NodesAndIds DEF Makes
<1>3. Top \in DOMAIN stack /\ DOMAIN stack = 1..Top /\ Top \in Nat
  BY TopFrame, NodeNumbers
<1>4. /\ NewId = Len(nodes) + 1 /\ Len(nodes) \in Nat
      /\ DOMAIN nodes' = 1..NewId /\ DOMAIN nodes = 1..(NewId - 1)
      /\ nodes'[NewId] = node
      /\ \A i \in DOMAIN nodes : nodes'[i] = nodes[i]
  BY <1>1, OneMoreNode
<1>5. \A j \in DOMAIN stack : Owned(j) \subseteq 1..(NewId - 1)
  BY <1>4 DEF Forest, HoldsNodes
<1>6. \A j \in 1..(Top - 1) : \A a \in Owned(j) : a < NewId
  <2>1. \A j \in 1..(Top - 1) : j \in DOMAIN stack
    BY <1>3
  <2>2. \A a \in 1..(NewId - 1) : a < NewId
    BY <1>4
  <2>3. QED
    BY <1>5, <2>1, <2>2
<1>7. Increasing(node.kids) /\ KidIds(node.kids) \subseteq 1..(NewId - 1)
  BY <1>1, <1>3, <1>5 DEF Frame, Forest, HoldsNodes
<1>8. ASSUME NEW i \in DOMAIN nodes'
      PROVE  (i \in DOMAIN nodes /\ nodes'[i] = nodes[i]) \/ (i = NewId /\ nodes'[i] = node)
  BY <1>4, <1>8
<1>9. \A i \in DOMAIN nodes : KidIds(nodes[i].kids) \cap KidIds(node.kids) = {}
  BY <1>1, <1>3 DEF Forest, HoldsRoots
<1>10. NodesForest'
  <2>1. \A i \in DOMAIN nodes' : /\ Increasing(nodes'[i].kids)
                                 /\ KidIds(nodes'[i].kids) \subseteq 1..(i - 1)
    BY <1>7, <1>8 DEF Forest, NodesForest
  <2>2. ASSUME NEW i \in DOMAIN nodes', NEW j \in DOMAIN nodes', i < j
        PROVE  KidIds(nodes'[i].kids) \cap KidIds(nodes'[j].kids) = {}
    <3>1. i \in DOMAIN nodes /\ nodes'[i] = nodes[i]
      BY <1>4, <1>8, <2>2
    <3>2. CASE j \in DOMAIN nodes /\ nodes'[j] = nodes[j]
      BY <2>2, <3>1, <3>2 DEF Forest, NodesForest
    <3>3. CASE nodes'[j] = node
      BY <1>9, <3>1, <3>3
    <3>4. QED
      BY <1>8, <3>2, <3>3
  <2>3. QED
    BY <2>1, <2>2, Zenon DEF NodesForest
<1>11. \A j \in DOMAIN stack' :
         /\ Increasing(stack'[j].kids)
         /\ \A a \in OwnedNext(j) : a = NewId \/ (j < Top /\ j \in DOMAIN stack /\ a \in Owned(j))
  <2>1. \A j \in DOMAIN stack' : Increasing(stack'[j].kids)
    BY <1>2, <1>6, PassedOn
  <2>2. \A j \in DOMAIN stack' : \A a \in OwnedNext(j) : a = NewId \/ (j < Top /\ a \in Owned(j))
    BY <1>2, <1>6, PassedOn
  <2>3. DOMAIN stack' \subseteq DOMAIN stack
    BY <1>2, <1>6, PassedOn
  <2>4. QED
    BY <2>1, <2>2, <2>3, Zenon
<1>12. HoldsNodes'
  <2>1. \A j \in DOMAIN stack' : OwnedNext(j) \subseteq DOMAIN nodes'
    BY <1>4, <1>5, <1>11
  <2>2. QED
    BY <1>11, <2>1, Zenon DEF HoldsNodes, Owned, OwnedNext
<1>13. HoldsInOrder'
  BY <1>2, <1>6, PassedOn
<1>14. HoldsRoots'
  <2>1. ASSUME NEW i \in DOMAIN nodes', NEW j \in DOMAIN stack',
               NEW a \in KidIds(nodes'[i].kids), a \in OwnedNext(j)
        PROVE  FALSE
    <3>1. a # NewId
      <4>1. a \in 1..(i - 1) /\ i \in 1..NewId
        BY <1>4, <1>10, <2>1 DEF NodesForest
      <4>2. QED
        BY <1>4, <4>1
    <3>2. j < Top /\ j \in DOMAIN stack /\ a \in Owned(j)
      BY <1>11, <2>1, <3>1
    <3>3. CASE i \in DOMAIN nodes /\ nodes'[i] = nodes[i]
      BY <2>1, <3>2, <3>3 DEF Forest, HoldsRoots
    <3>4. CASE nodes'[i] = node
      <4>1. a \in Owned(Top)
        BY <1>1, <2>1, <3>4
      <4>2. a < a
        BY <1>3, <3>2, <4>1 DEF Forest, HoldsInOrder
      <4>3. a \in 1..(NewId - 1)
        BY <1>5, <3>2
      <4>4. QED
        BY <4>2, <4>3
    <3>5. QED
      BY <1>8, <3>3, <3>4
  <2>2. \A i \in DOMAIN nodes', j \in DOMAIN stack' :
          KidIds(nodes'[i].kids) \cap OwnedNext(j) = {}
    BY <2>1
  <2>3. QED
    BY <2>2, Zenon DEF HoldsRoots, Owned, OwnedNext
<1>15. QED
  BY <1>10, <1>12, <1>13, <1>14 DEF Forest

LEMMA ForestInit == Init => Forest
<1> SUFFICES ASSUME Init PROVE Forest
  OBVIOUS
<1>1. nodes = <<>>
  BY Zenon DEF Init
<1>2. \A k \in DOMAIN stack : stack[k].kids = <<>>
  BY StartedWith
<1>3. \A k \in DOMAIN stack : Increasing(stack[k].kids) /\ Owned(k) = {}
  BY <1>2 DEF Increasing, Owned, KidIds
<1>4. DOMAIN nodes = {}
  <2>1. DOMAIN nodes = 1..0
    BY <1>1, SMTT(30)
  <2>2. QED
    BY <2>1
<1>5. QED
  BY <1>3, <1>4 DEF Forest, NodesForest, HoldsNodes, HoldsInOrder, HoldsRoots

LEMMA Running == ASSUME Next PROVE outcome = "running"
  BY DEF Next, ReadAny, ReadType, Check, Branch, Loop, Call, TailCall, Dispatch,
         MakeOperand, MakeNode, MakeModuleNode, HandOn, FixEnd, FixStart, Rename,
         Reassign, StartSubmodules, ReadLiteral, Does

LEMMA ForestStep == Ready /\ Forest /\ [Next]_vars => Forest'
<1>1. ASSUME Ready, Forest, Next PROVE Forest'
  <2>1. Ready' /\ Kind /\ outcome = "running"
    BY <1>1, StepKind, Running
  <2>2. QED
    BY <1>1, <2>1, ForestProceeds, ForestHandsOn, ForestMakes DEF Kind
<1>2. ASSUME Forest, UNCHANGED vars PROVE Forest'
  BY <1>2, Zenon DEF vars, Forest, NodesForest, HoldsNodes, HoldsInOrder, HoldsRoots, Owned
<1>3. QED
  BY <1>1, <1>2

LEMMA AlwaysForest == Spec => [](Ready /\ Forest)
  BY ReadyInit, ReadyStep, ForestInit, ForestStep, PTL DEF Spec

LEMMA ForestOneParent == Ready /\ Forest => OneParent
<1> SUFFICES ASSUME Ready, Forest PROVE OneParent
  OBVIOUS
<1>1. ASSUME NEW k \in DOMAIN stack, NEW l \in DOMAIN stack, k < l
      PROVE  Owned(k) \cap Owned(l) = {}
  <2>1. ASSUME NEW a \in Owned(k), a \in Owned(l)
        PROVE  FALSE
    <3>1. a < a /\ a \in DOMAIN nodes
      BY <1>1, <2>1 DEF Forest, HoldsInOrder, HoldsNodes
    <3>2. QED
      BY <3>1, NodeNumbers
  <2>2. QED
    BY <2>1
<1>2. QED
  BY <1>1 DEF OneParent, Forest, NodesForest, HoldsNodes, HoldsRoots, Owned

\* Whatever is parsed, no node gets a second parent and none is its own ancestor, in
\* the tree handed over and in the unfinished one an error leaves behind.
THEOREM TreeAlways == Spec => []OneParent
  BY AlwaysForest, ForestOneParent, PTL

-----------------------------------------------------------------------------
(* The tokens of the nodes                                                 *)

\* The inductive invariant of SpansNested.  A call that has read its start token
\* itself began after the calls around it and after the nodes they hold, and all
\* nodes held are followed by the tokens still to be read.
CallsStarted ==
  \A k \in DOMAIN stack : stack[k].exact => stack[k].start <= index
CallsInOrder ==
  \A k, l \in DOMAIN stack : k < l /\ stack[k].exact /\ stack[l].exact =>
    stack[k].start <= stack[l].start
HoldsWithin ==
  \A k, l \in DOMAIN stack : k <= l /\ stack[k].exact =>
    \A b \in Owned(l) : nodes[b].exact => stack[k].start <= nodes[b].start
HoldsBefore ==
  \A k, l \in DOMAIN stack : k < l /\ stack[l].exact =>
    \A a \in Owned(k) : nodes[a].exact => nodes[a].end <= stack[l].start
HoldsRead ==
  \A k \in DOMAIN stack : \A a \in Owned(k) : nodes[a].exact => nodes[a].end <= index
HoldsApart ==
  \A k, l \in DOMAIN stack : \A a \in Owned(k), b \in Owned(l) :
    a < b /\ nodes[a].exact /\ nodes[b].exact => nodes[a].end <= nodes[b].start
Spans == /\ CallsStarted /\ CallsInOrder /\ HoldsWithin /\ HoldsBefore
         /\ HoldsRead /\ HoldsApart /\ SpansNested

LEMMA Numbers ==
  ASSUME Ready, Forest
  PROVE  /\ \A k \in DOMAIN stack : stack[k].start \in Int
         /\ \A i \in DOMAIN nodes : nodes[i].start \in Int /\ nodes[i].end \in Int
         /\ \A k \in DOMAIN stack : \A a \in Owned(k) :
              a \in DOMAIN nodes /\ nodes[a].start \in Int /\ nodes[a].end \in Int
<1>1. stack \in Seq(FrameRecord) /\ nodes \in Seq(NodeRecord)
  BY DEF Ready, TypeOK
<1>2. \A k \in DOMAIN stack : stack[k].start \in Int
  <2>1. \A k \in DOMAIN stack : stack[k] \in FrameRecord
    BY <1>1
  <2>2. QED
    BY <2>1 DEF FrameRecord
<1>3. \A i \in DOMAIN nodes : nodes[i].start \in Int /\ nodes[i].end \in Int
  <2>1. \A i \in DOMAIN nodes : nodes[i] \in NodeRecord
    BY <1>1
  <2>2. QED
    BY <2>1 DEF NodeRecord
<1>4. QED
  BY <1>2, <1>3 DEF Forest, HoldsNodes

LEMMA SpansProceeds ==
  ASSUME Ready, Ready', Forest, Spans, outcome = "running", Proceeds PROVE Spans'
<1>1. /\ nodes' = nodes /\ index' \in Nat /\ index <= index' /\ index \in Nat
      /\ Top \in DOMAIN stack /\ DOMAIN stack = 1..Top /\ Top \in Nat
  BY TopFrame, NodeNumbers, TokensThere DEF Proceeds
<1>2. PICK start :
        /\ \/ start = index'
           \/ Frame.exact /\ start = Frame.start /\ Frame.kids = <<>>
        /\ \A k \in DOMAIN stack' : Same(k) \/ Fresh(k, start)
  BY DEF Proceeds
<1>3. start = index' \/ (stack[Top].exact /\ start = stack[Top].start /\ Owned(Top) = {})
  BY <1>2 DEF Frame, Owned, KidIds
<1>4. start \in Int /\ start <= index'
  BY <1>1, <1>3, Numbers DEF Spans, CallsStarted
<1>5. ASSUME NEW k \in DOMAIN stack'
      PROVE  \/ /\ k \in DOMAIN stack /\ OwnedNext(k) \subseteq Owned(k)
                /\ stack'[k].exact => stack[k].exact /\ stack'[k].start = stack[k].start
             \/ /\ k >= Top /\ OwnedNext(k) = {}
                /\ stack'[k].exact => stack'[k].start = start
  <2>1. CASE Same(k)
    BY <2>1 DEF Same
  <2>2. CASE Fresh(k, start)
    BY <2>2 DEF Fresh, OwnedNext, KidIds
  <2>3. QED
    BY <1>2, <2>1, <2>2
<1>6. DOMAIN stack' \subseteq Int
  <2>1. stack' \in Seq(FrameRecord)
    BY DEF Ready, TypeOK
  <2>2. QED
    BY <2>1, LenProperties
<1>7. CallsStarted'
  <2>1. \A k \in DOMAIN stack' : stack'[k].exact => stack'[k].start <= index'
    BY <1>1, <1>4, <1>5, Numbers DEF Spans, CallsStarted
  <2>2. QED
    BY <2>1, Zenon DEF CallsStarted
<1>8. CallsInOrder'
  <2>1. ASSUME NEW k \in DOMAIN stack', NEW l \in DOMAIN stack', k < l,
               stack'[k].exact, stack'[l].exact
        PROVE  stack'[k].start <= stack'[l].start
    <3>1. CASE k >= Top /\ stack'[k].start = start
      <4>1. stack'[l].start = start
        BY <1>1, <1>5, <1>6, <2>1, <3>1
      <4>2. QED
        BY <1>4, <3>1, <4>1
    <3>2. CASE k \in DOMAIN stack /\ stack[k].exact /\ stack'[k].start = stack[k].start
      <4>1. CASE l \in DOMAIN stack /\ stack[l].exact /\ stack'[l].start = stack[l].start
        BY <2>1, <3>2, <4>1 DEF Spans, CallsInOrder
      <4>2. CASE stack'[l].start = start
        <5>1. stack[k].start <= index /\ stack[k].start \in Int
          BY <3>2, Numbers DEF Spans, CallsStarted
        <5>2. CASE start = index'
          BY <1>1, <3>2, <4>2, <5>1, <5>2
        <5>3. CASE stack[Top].exact /\ start = stack[Top].start
          <6>1. k = Top \/ k < Top
            BY <1>1, <3>2
          <6>2. k < Top => stack[k].start <= stack[Top].start
            BY <1>1, <3>2, <5>3 DEF Spans, CallsInOrder
          <6>3. QED
            BY <1>4, <3>2, <4>2, <5>1, <5>3, <6>1, <6>2
        <5>4. QED
          BY <1>3, <5>2, <5>3
      <4>3. QED
        BY <1>5, <2>1, <4>1, <4>2
    <3>3. QED
      BY <1>5, <2>1, <3>1, <3>2
  <2>2. QED
    BY <2>1, Zenon DEF CallsInOrder
<1>9. ASSUME NEW k \in DOMAIN stack', NEW a \in OwnedNext(k)
      PROVE  k \in DOMAIN stack /\ a \in Owned(k)
  BY <1>5
<1>10. HoldsWithin'
  <2>1. ASSUME NEW k \in DOMAIN stack', NEW l \in DOMAIN stack', k <= l,
               stack'[k].exact, NEW b \in OwnedNext(l), nodes[b].exact
        PROVE  stack'[k].start <= nodes[b].start
    <3>1. l \in DOMAIN stack /\ b \in Owned(l) /\ l <= Top
      BY <1>1, <1>9
    <3>2. k \in DOMAIN stack /\ stack[k].exact /\ stack'[k].start = stack[k].start
      BY <1>1, <1>5, <1>6, <2>1, <3>1
    <3>3. QED
      BY <2>1, <3>1, <3>2 DEF Spans, HoldsWithin
  <2>2. QED
    BY <1>1, <2>1, Zenon DEF HoldsWithin, Owned, OwnedNext
<1>11. HoldsBefore'
  <2>1. ASSUME NEW k \in DOMAIN stack', NEW l \in DOMAIN stack', k < l,
               stack'[l].exact, NEW a \in OwnedNext(k), nodes[a].exact
        PROVE  nodes[a].end <= stack'[l].start
    <3>1. k \in DOMAIN stack /\ a \in Owned(k)
      BY <1>9
    <3>2. CASE l \in DOMAIN stack /\ stack[l].exact /\ stack'[l].start = stack[l].start
      BY <2>1, <3>1, <3>2 DEF Spans, HoldsBefore
    <3>3. CASE stack'[l].start = start
      <4>1. CASE start = index'
        <5>1. nodes[a].end <= index /\ nodes[a].end \in Int
          BY <2>1, <3>1, Numbers DEF Spans, HoldsRead
        <5>2. QED
          BY <1>1, <3>3, <4>1, <5>1
      <4>2. CASE stack[Top].exact /\ start = stack[Top].start /\ Owned(Top) = {}
        <5>1. k < Top
          BY <1>1, <3>1, <4>2
        <5>2. QED
          BY <1>1, <2>1, <3>1, <3>3, <4>2, <5>1 DEF Spans, HoldsBefore
      <4>3. QED
        BY <1>3, <4>1, <4>2
    <3>4. QED
      BY <1>5, <2>1, <3>2, <3>3
  <2>2. QED
    BY <1>1, <2>1, Zenon DEF HoldsBefore, Owned, OwnedNext
<1>12. HoldsRead'
  <2>1. ASSUME NEW k \in DOMAIN stack', NEW a \in OwnedNext(k), nodes[a].exact
        PROVE  nodes[a].end <= index'
    <3>1. nodes[a].end <= index /\ nodes[a].end \in Int
      BY <1>9, <2>1, Numbers DEF Spans, HoldsRead
    <3>2. QED
      BY <1>1, <3>1
  <2>2. QED
    BY <1>1, <2>1, Zenon DEF HoldsRead, Owned, OwnedNext
<1>13. HoldsApart'
  <2>1. ASSUME NEW k \in DOMAIN stack', NEW l \in DOMAIN stack',
               NEW a \in OwnedNext(k), NEW b \in OwnedNext(l),
               a < b, nodes[a].exact, nodes[b].exact
        PROVE  nodes[a].end <= nodes[b].start
    BY <1>9, <2>1 DEF Spans, HoldsApart
  <2>2. QED
    BY <1>1, <2>1, Zenon DEF HoldsApart, Owned, OwnedNext
<1>14. SpansNested'
  BY <1>1, ZenonT(40) DEF Spans, SpansNested, InSpans
<1>15. QED
  BY <1>7, <1>8, <1>10, <1>11, <1>12, <1>13, <1>14 DEF Spans

\* Only the innermost of the calls that are left holds more than before.
LEMMA PassedOnBelow ==
  ASSUME Ready, Ready', NEW id, Passed(id),
         NEW k \in DOMAIN stack', NEW l \in DOMAIN stack', k < l
  PROVE  OwnedNext(k) = Owned(k)
<1>1. PICK m \in 0..Top : PassedTo(m, id)
  BY DEF Passed
<1>2. stack' \in Seq(FrameRecord) /\ Len(stack') = m
  BY <1>1 DEF PassedTo, Ready, TypeOK
<1>3. DOMAIN stack' = 1..m /\ m \in Int
  BY <1>1, <1>2, LenProperties
<1>4. k \in 1..(m - 1)
  BY <1>3
<1>5. QED
  BY <1>1, <1>4 DEF PassedTo, Owned, OwnedNext

\* What the calls left over after `id' has been passed on say of their start tokens.
LEMMA CallsLeft ==
  ASSUME Ready, Ready', Forest, Spans, NEW id \in Nat, Passed(id), index' = index,
         \A j \in 1..(Top - 1) : \A a \in Owned(j) : a < id
  PROVE  CallsStarted' /\ CallsInOrder'
<1>1. DOMAIN stack' \subseteq DOMAIN stack
  BY PassedOn
<1>2. \A j \in DOMAIN stack' : stack'[j].exact = stack[j].exact
                               /\ stack'[j].start = stack[j].start
  BY PassedOn
<1>3. \A k \in DOMAIN stack' : stack'[k].exact => stack'[k].start <= index'
  BY <1>1, <1>2 DEF Spans, CallsStarted
<1>4. \A k, l \in DOMAIN stack' : k < l /\ stack'[k].exact /\ stack'[l].exact =>
        stack'[k].start <= stack'[l].start
  BY <1>1, <1>2 DEF Spans, CallsInOrder
<1>5. QED
  BY <1>3, <1>4, Zenon DEF CallsStarted, CallsInOrder

LEMMA SpansHandsOn ==
  ASSUME Ready, Ready', Forest, Spans, outcome = "running", HandsOn PROVE Spans'
<1>1. PICK id \in Owned(Top) : Passed(id)
  BY DEF HandsOn
<1>2. Top \in DOMAIN stack /\ DOMAIN stack = 1..Top /\ Top \in Nat
  BY TopFrame, NodeNumbers
<1>3. id \in DOMAIN nodes /\ id \in Nat
  BY <1>1, <1>2, NodeNumbers DEF Forest, HoldsNodes
<1>4. ASSUME NEW j \in 1..(Top - 1), NEW a \in Owned(j)
      PROVE  a < id
  <2>1. j \in DOMAIN stack /\ j < Top
    BY <1>2
  <2>2. QED
    BY <1>1, <1>2, <2>1 DEF Forest, HoldsInOrder
<1>5. nodes' = nodes /\ index' = index
  BY DEF HandsOn
<1>6. DOMAIN stack' \subseteq DOMAIN stack
  BY <1>1, <1>3, <1>4, PassedOn
<1>7. \A j \in DOMAIN stack' : stack'[j].exact = stack[j].exact
                               /\ stack'[j].start = stack[j].start
  BY <1>1, <1>3, <1>4, PassedOn
<1>8. \A j \in DOMAIN stack' : \A a \in OwnedNext(j) : a = id \/ a \in Owned(j)
  BY <1>1, <1>3, <1>4, PassedOn
\* A node that a call holds now was held by it or by an inner one.
<1>9. ASSUME NEW j \in DOMAIN stack', NEW a \in OwnedNext(j)
      PROVE  \E l \in DOMAIN stack : j <= l /\ a \in Owned(l)
  <2>1. j \in DOMAIN stack /\ j <= j /\ j <= Top
    BY <1>2, <1>6
  <2>2. QED
    BY <1>1, <1>2, <1>8, <2>1
<1>10. CallsStarted' /\ CallsInOrder'
  BY <1>1, <1>3, <1>4, <1>5, CallsLeft
<1>11. HoldsWithin'
  <2>1. ASSUME NEW k \in DOMAIN stack', NEW l \in DOMAIN stack', k <= l,
               stack'[k].exact, NEW b \in OwnedNext(l), nodes[b].exact
        PROVE  stack'[k].start <= nodes[b].start
    <3>1. PICK m \in DOMAIN stack : l <= m /\ b \in Owned(m)
      BY <1>9
    <3>2. k \in DOMAIN stack /\ k <= m
      BY <1>2, <1>6, <2>1, <3>1
    <3>3. QED
      BY <1>7, <2>1, <3>1, <3>2 DEF Spans, HoldsWithin
  <2>2. QED
    BY <1>5, <2>1, Zenon DEF HoldsWithin, Owned, OwnedNext
<1>12. HoldsBefore'
  <2>1. ASSUME NEW k \in DOMAIN stack', NEW l \in DOMAIN stack', k < l,
               stack'[l].exact, NEW a \in OwnedNext(k), nodes[a].exact
        PROVE  nodes[a].end <= stack'[l].start
    <3>1. k \in DOMAIN stack /\ l \in DOMAIN stack
      BY <1>6
    <3>2. a \in Owned(k)
      BY <1>1, <1>3, <1>4, <2>1, PassedOnBelow
    <3>3. QED
      BY <1>7, <2>1, <3>1, <3>2 DEF Spans, HoldsBefore
  <2>2. QED
    BY <1>5, <2>1, Zenon DEF HoldsBefore, Owned, OwnedNext
<1>13. HoldsRead'
  <2>1. \A k \in DOMAIN stack' : \A a \in OwnedNext(k) : nodes[a].exact => nodes[a].end <= index
    BY <1>9 DEF Spans, HoldsRead
  <2>2. QED
    BY <1>5, <2>1, Zenon DEF HoldsRead, Owned, OwnedNext
<1>14. HoldsApart'
  <2>1. ASSUME NEW k \in DOMAIN stack', NEW l \in DOMAIN stack',
               NEW a \in OwnedNext(k), NEW b \in OwnedNext(l),
               a < b, nodes[a].exact, nodes[b].exact
        PROVE  nodes[a].end <= nodes[b].start
    <3>1. PICK m \in DOMAIN stack : a \in Owned(m)
      BY <1>9
    <3>2. PICK n \in DOMAIN stack : b \in Owned(n)
      BY <1>9
    <3>3. QED
      BY <2>1, <3>1, <3>2 DEF Spans, HoldsApart
  <2>2. QED
    BY <1>5, <2>1, Zenon DEF HoldsApart, Owned, OwnedNext
<1>15. SpansNested'
  BY <1>5, ZenonT(40) DEF Spans, SpansNested, InSpans
<1>16. QED
  BY <1>10, <1>11, <1>12, <1>13, <1>14, <1>15 DEF Spans

LEMMA SpansMakes ==
  ASSUME Ready, Ready', Forest, Spans, outcome = "running", Makes PROVE Spans'
<1>1. PICK node \in NodeRecord :
        /\ nodes' = Append(nodes, node)
        /\ KidIds(node.kids) = Owned(Top)
        /\ Increasing(Frame.kids) => Increasing(node.kids)
        /\ node.exact => Frame.exact /\ node.start = Frame.start /\ node.end = index
  BY DEF Makes
<1>2. Passed(NewId) /\ NewId \in Nat /\ index' = index
  BY NodesAndIds DEF Makes
<1>3. Top \in DOMAIN stack /\ DOMAIN stack = 1..Top /\ Top \in Nat /\ Frame = stack[Top]
  BY TopFrame, NodeNumbers DEF Frame
<1>4. /\ NewId = Len(nodes) + 1 /\ Len(nodes) \in Nat
      /\ DOMAIN nodes' = 1..NewId /\ DOMAIN nodes = 1..(NewId - 1)
      /\ nodes'[NewId] = node
      /\ \A i \in DOMAIN nodes : nodes'[i] = nodes[i]
  BY <1>1, OneMoreNode
<1>5. \A j \in DOMAIN stack : Owned(j) \subseteq 1..(NewId - 1)
  BY <1>4 DEF Forest, HoldsNodes
<1>6. \A j \in 1..(Top - 1) : \A a \in Owned(j) : a < NewId
  <2>1. \A j \in 1..(Top - 1) : j \in DOMAIN stack
    BY <1>3
  <2>2. \A a \in 1..(NewId - 1) : a < NewId
    BY <1>4
  <2>3. QED
    BY <1>5, <2>1, <2>2
<1>7. DOMAIN stack' \subseteq DOMAIN stack
  BY <1>2, <1>6, PassedOn
<1>8. \A j \in DOMAIN stack' : stack'[j].exact = stack[j].exact
                               /\ stack'[j].start = stack[j].start
  BY <1>2, <1>6, PassedOn
<1>9. \A j \in DOMAIN stack' : \A a \in OwnedNext(j) : a = NewId \/ (j < Top /\ a \in Owned(j))
  BY <1>2, <1>6, PassedOn
\* What is held is the new node, or was held before by an outer call.
<1>10. ASSUME NEW j \in DOMAIN stack', NEW a \in OwnedNext(j)
       PROVE  \/ a = NewId /\ nodes'[a] = node
              \/ /\ a < NewId /\ nodes'[a] = nodes[a]
                 /\ j < Top /\ j \in DOMAIN stack /\ a \in Owned(j)
  <2>1. CASE a = NewId
    BY <1>4, <2>1
  <2>2. CASE j < Top /\ a \in Owned(j)
    <3>1. j \in DOMAIN stack /\ a \in 1..(NewId - 1)
      BY <1>5, <1>7, <2>2
    <3>2. QED
      BY <1>4, <2>2, <3>1
  <2>3. QED
    BY <1>9, <2>1, <2>2
<1>11. stack[Top].exact => stack[Top].start <= index
  BY <1>3 DEF Spans, CallsStarted
<1>12. CallsStarted' /\ CallsInOrder'
  BY <1>2, <1>6, CallsLeft
<1>13. HoldsWithin'
  <2>1. ASSUME NEW k \in DOMAIN stack', NEW l \in DOMAIN stack', k <= l,
               stack'[k].exact, NEW b \in OwnedNext(l), nodes'[b].exact
        PROVE  stack'[k].start <= nodes'[b].start
    <3>1. k \in DOMAIN stack /\ stack[k].exact /\ stack'[k].start = stack[k].start
      BY <1>7, <1>8, <2>1
    <3>2. CASE nodes'[b] = nodes[b] /\ l \in DOMAIN stack /\ b \in Owned(l)
      BY <2>1, <3>1, <3>2 DEF Spans, HoldsWithin
    <3>3. CASE nodes'[b] = node
      <4>1. stack[Top].exact /\ nodes'[b].start = stack[Top].start
        BY <1>1, <1>3, <2>1, <3>3
      <4>2. CASE k = Top
        BY <3>1, <4>1, <4>2, Numbers
      <4>3. CASE k < Top
        BY <1>3, <3>1, <4>1, <4>3 DEF Spans, CallsInOrder
      <4>4. QED
        BY <1>3, <3>1, <4>2, <4>3
    <3>4. QED
      BY <1>10, <2>1, <3>2, <3>3
  <2>2. QED
    BY <2>1, Zenon DEF HoldsWithin, Owned, OwnedNext
<1>14. HoldsBefore'
  <2>1. ASSUME NEW k \in DOMAIN stack', NEW l \in DOMAIN stack', k < l,
               stack'[l].exact, NEW a \in OwnedNext(k), nodes'[a].exact
        PROVE  nodes'[a].end <= stack'[l].start
    <3>1. k \in DOMAIN stack /\ l \in DOMAIN stack
      BY <1>7
    <3>2. a \in Owned(k)
      BY <1>2, <2>1, PassedOnBelow
    <3>3. nodes'[a] = nodes[a]
      BY <1>4, <1>5, <3>1, <3>2
    <3>4. QED
      BY <1>8, <2>1, <3>1, <3>2, <3>3 DEF Spans, HoldsBefore
  <2>2. QED
    BY <2>1, Zenon DEF HoldsBefore, Owned, OwnedNext
<1>15. HoldsRead'
  <2>1. ASSUME NEW k \in DOMAIN stack', NEW a \in OwnedNext(k), nodes'[a].exact
        PROVE  nodes'[a].end <= index
    <3>1. CASE nodes'[a] = node
      BY <1>1, <2>1, <3>1, TokensThere
    <3>2. CASE nodes'[a] = nodes[a] /\ k \in DOMAIN stack /\ a \in Owned(k)
      BY <2>1, <3>2 DEF Spans, HoldsRead
    <3>3. QED
      BY <1>10, <3>1, <3>2
  <2>2. QED
    BY <1>2, <2>1, Zenon DEF HoldsRead, Owned, OwnedNext
<1>16. HoldsApart'
  <2>1. ASSUME NEW k \in DOMAIN stack', NEW l \in DOMAIN stack',
               NEW a \in OwnedNext(k), NEW b \in OwnedNext(l),
               a < b, nodes'[a].exact, nodes'[b].exact
        PROVE  nodes'[a].end <= nodes'[b].start
    <3>1. /\ nodes'[a] = nodes[a]
          /\ k < Top /\ k \in DOMAIN stack /\ a \in Owned(k)
      <4>1. b \in 1..NewId
        BY <1>2, <1>4, <1>5, <1>10
      <4>2. a # NewId
        BY <1>2, <2>1, <4>1
      <4>3. QED
        BY <1>10, <4>2
    <3>2. CASE nodes'[b] = node
      <4>1. stack[Top].exact /\ nodes'[b].start = stack[Top].start
        BY <1>1, <1>3, <2>1, <3>2
      <4>2. QED
        BY <1>3, <2>1, <3>1, <4>1 DEF Spans, HoldsBefore
    <3>3. CASE nodes'[b] = nodes[b] /\ l \in DOMAIN stack /\ b \in Owned(l)
      BY <2>1, <3>1, <3>3 DEF Spans, HoldsApart
    <3>4. QED
      BY <1>10, <3>2, <3>3
  <2>2. QED
    BY <2>1, Zenon DEF HoldsApart, Owned, OwnedNext
<1>17. SpansNested'
  <2>1. ASSUME NEW i \in DOMAIN nodes'
        PROVE  \A m \in DOMAIN nodes'[i].kids :
                 nodes'[i].kids[m].id \in DOMAIN nodes
                 /\ nodes'[nodes'[i].kids[m].id] = nodes[nodes'[i].kids[m].id]
    <3>1. KidIds(nodes'[i].kids) \subseteq 1..(NewId - 1)
      <4>1. CASE i \in DOMAIN nodes
        BY <1>4, <4>1, SMTT(30) DEF Forest, NodesForest
      <4>2. CASE i = NewId
        BY <1>1, <1>3, <1>4, <1>5, <4>2
      <4>3. QED
        BY <1>4, <4>1, <4>2
    <3>2. \A m \in DOMAIN nodes'[i].kids : nodes'[i].kids[m].id \in KidIds(nodes'[i].kids)
      BY DEF KidIds
    <3>3. QED
      BY <1>4, <3>1, <3>2
  <2>2. ASSUME NEW i \in DOMAIN nodes', nodes'[i].exact
        PROVE  /\ nodes'[i].start <= nodes'[i].end
               /\ \A m \in DOMAIN nodes'[i].kids : nodes[nodes'[i].kids[m].id].exact =>
                    /\ nodes'[i].start <= nodes[nodes'[i].kids[m].id].start
                    /\ nodes[nodes'[i].kids[m].id].end <= nodes'[i].end
                    /\ \A n \in DOMAIN nodes'[i].kids :
                         m < n /\ nodes[nodes'[i].kids[n].id].exact =>
                           nodes[nodes'[i].kids[m].id].end <= nodes[nodes'[i].kids[n].id].start
    <3>1. CASE i \in DOMAIN nodes
      <4>1. nodes'[i] = nodes[i]
        BY <1>4, <3>1
      <4>2. QED
        BY <2>2, <3>1, <4>1 DEF Spans, SpansNested, InSpans
    <3>2. CASE i = NewId
      <4>1. /\ nodes'[i] = node /\ stack[Top].exact
            /\ node.start = stack[Top].start /\ node.end = index
        BY <1>1, <1>3, <1>4, <2>2, <3>2
      <4>2. Increasing(node.kids)
        BY <1>1, <1>3 DEF Forest, HoldsNodes
      <4>3. \A m \in DOMAIN node.kids : node.kids[m].id \in Owned(Top)
        BY <1>1 DEF KidIds
      <4>4. ASSUME NEW m \in DOMAIN node.kids, nodes[node.kids[m].id].exact
            PROVE  /\ node.start <= nodes[node.kids[m].id].start
                   /\ nodes[node.kids[m].id].end <= node.end
        <5>1. stack[Top].start <= nodes[node.kids[m].id].start
          BY <1>3, <4>1, <4>3, <4>4 DEF Spans, HoldsWithin
        <5>2. nodes[node.kids[m].id].end <= index
          BY <1>3, <4>3, <4>4 DEF Spans, HoldsRead
        <5>3. QED
          BY <4>1, <5>1, <5>2
      <4>5. ASSUME NEW m \in DOMAIN node.kids, nodes[node.kids[m].id].exact,
                   NEW n \in DOMAIN node.kids, m < n, nodes[node.kids[n].id].exact
            PROVE  nodes[node.kids[m].id].end <= nodes[node.kids[n].id].start
        <5>1. node.kids[m].id < node.kids[n].id
          BY <4>2, <4>5 DEF Increasing
        <5>2. QED
          BY <1>3, <4>3, <4>5, <5>1 DEF Spans, HoldsApart
      <4>6. QED
        BY <1>11, <4>1, <4>4, <4>5
    <3>3. QED
      BY <1>4, <3>1, <3>2
  <2>3. QED
    BY <2>1, <2>2 DEF SpansNested, InSpans
<1>18. QED
  BY <1>12, <1>13, <1>14, <1>15, <1>16, <1>17 DEF Spans

LEMMA SpansInit == Init => Spans
<1> SUFFICES ASSUME Init PROVE Spans
  OBVIOUS
<1>1. Forest /\ nodes = <<>> /\ index = 0
  BY ForestInit, Zenon DEF Init
<1>2. stack \in Seq(FrameRecord) /\ \A i \in DOMAIN stack : stack[i].start = 0
  BY StartedWith
<1>3. DOMAIN nodes = {}
  <2>1. DOMAIN nodes = 1..0
    BY <1>1
  <2>2. QED
    BY <2>1
<1>4. \A k \in DOMAIN stack : Owned(k) = {}
  BY <1>1, <1>3 DEF Forest, HoldsNodes
<1>5. CallsStarted /\ CallsInOrder
  BY <1>1, <1>2 DEF CallsStarted, CallsInOrder
<1>6. HoldsWithin /\ HoldsBefore /\ HoldsRead /\ HoldsApart
  BY <1>4, Zenon DEF HoldsWithin, HoldsBefore, HoldsRead, HoldsApart
<1>7. SpansNested
  BY <1>3, Zenon DEF SpansNested
<1>8. QED
  BY <1>5, <1>6, <1>7 DEF Spans

LEMMA SpansStep == Ready /\ Forest /\ Spans /\ [Next]_vars => Spans'
<1>1. ASSUME Ready, Forest, Spans, Next PROVE Spans'
  <2>1. Ready' /\ Kind /\ outcome = "running"
    BY <1>1, StepKind, Running
  <2>2. QED
    BY <1>1, <2>1, SpansProceeds, SpansHandsOn, SpansMakes DEF Kind
<1>2. ASSUME Spans, UNCHANGED vars PROVE Spans'
  <2>1. stack' = stack /\ nodes' = nodes /\ index' = index
    BY <1>2 DEF vars
  <2>2. CallsStarted' /\ CallsInOrder'
    BY <1>2, <2>1 DEF Spans, CallsStarted, CallsInOrder
  <2>3. HoldsWithin' /\ HoldsBefore' /\ HoldsRead' /\ HoldsApart'
    BY <1>2, <2>1 DEF Spans, HoldsWithin, HoldsBefore, HoldsRead, HoldsApart, Owned
  <2>4. SpansNested'
    BY <1>2, <2>1 DEF Spans, SpansNested, InSpans
  <2>5. QED
    BY <2>2, <2>3, <2>4 DEF Spans
<1>3. QED
  BY <1>1, <1>2

\* Whatever is parsed, the tokens of a node hold those of its children, in order.
THEOREM SpansAlways == Spec => []SpansNested
<1>1. Spans => SpansNested
  BY DEF Spans
<1>2. QED
  BY <1>1, ReadyInit, ReadyStep, ForestInit, ForestStep, SpansInit, SpansStep, PTL DEF Spec

=============================================================================
