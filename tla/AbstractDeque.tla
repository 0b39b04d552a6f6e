---------------------------- MODULE AbstractDeque ----------------------------
(***************************************************************************)
(* What a set of Deque objects promises its client: each is a sequence     *)
(* that grows and shrinks at both ends.                                    *)
(***************************************************************************)
EXTENDS Integers, Sequences

CONSTANTS
  Deques, Values,
  Indexes,    \* the indexes that the client asks for
  Error       \* an exception

VARIABLES
  items,      \* the sequence of each deque
  result      \* what the last call returned: a value or Error

Init ==
  /\ items = [d \in Deques |-> << >>]
  /\ result = Error

PushBack(d, v) ==
  /\ items' = [items EXCEPT ![d] = Append(@, v)]
  /\ UNCHANGED result

PushFront(d, v) ==
  /\ items' = [items EXCEPT ![d] = <<v>> \o @]
  /\ UNCHANGED result

PopBack(d) ==
  /\ items[d] # << >>
  /\ items' = [items EXCEPT ![d] = SubSeq(@, 1, Len(@) - 1)]
  /\ UNCHANGED result

PopFront(d) ==
  /\ items[d] # << >>
  /\ items' = [items EXCEPT ![d] = Tail(@)]
  /\ UNCHANGED result

Get(d, index) ==
  /\ result' = IF index < Len(items[d]) THEN items[d][index + 1] ELSE Error
  /\ UNCHANGED items

\* pop_back() and pop_front() of an empty deque throw.
PopNothing(d) ==
  /\ items[d] = << >>
  /\ result' = Error
  /\ UNCHANGED items

Copy(d, other) ==
  /\ items' = [items EXCEPT ![d] = items[other]]
  /\ UNCHANGED result

Move(d, other) ==
  /\ d # other
  /\ items' = [items EXCEPT ![d] = items[other], ![other] = << >>]
  /\ UNCHANGED result

Reset(d) ==
  /\ items' = [items EXCEPT ![d] = << >>]
  /\ UNCHANGED result

Next ==
  \E d \in Deques :
    \/ \E v \in Values : PushBack(d, v) \/ PushFront(d, v)
    \/ PopBack(d) \/ PopFront(d) \/ PopNothing(d)
    \/ \E index \in Indexes : Get(d, index)
    \/ \E other \in Deques : Copy(d, other) \/ Move(d, other)
    \/ Reset(d)

Spec == Init /\ [][Next]_<<items, result>>
=============================================================================
