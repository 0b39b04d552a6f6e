------------------------------ MODULE MapClient ------------------------------
(***************************************************************************)
(* The hash table under a client that never sets a key while some, but not *)
(* all, of the elements it stored have been removed: it fills the table,   *)
(* takes elements out, and fills it again only once it is empty, as the    *)
(* "stress" case of map_test.cpp and set_test.cpp does.                    *)
(*                                                                         *)
(* For such a client the table is the map it is meant to be: the module    *)
(* shows that HashTable's steps are steps of AbstractMap.  Without the     *)
(* discipline they are not (RemovedIsGone of HashTable).                   *)
(***************************************************************************)
EXTENDS HashTable

VARIABLE phase      \* "empty" from the first removal on

clientVars == <<vars, phase>>

ClientInit == Init /\ phase = "fill"

ClientSet(k, v) ==
  /\ phase = "fill" \/ live_elems = 0
  /\ Set(k, v)
  /\ phase' = "fill"

ClientFind(k) == Find(k) /\ UNCHANGED phase
ClientRemove(k) == Remove(k) /\ phase' = "empty"
ClientRemoveAndGet(k) == RemoveAndGet(k) /\ phase' = "empty"
ClientClear == Clear /\ UNCHANGED phase
ClientStep == Step /\ UNCHANGED phase

ClientNext ==
  \/ \E k \in Keys, v \in Values : ClientSet(k, v)
  \/ \E k \in Keys : ClientFind(k) \/ ClientRemove(k) \/ ClientRemoveAndGet(k)
  \/ ClientClear
  \/ ClientStep

ClientSpec == ClientInit /\ [][ClientNext]_clientVars

-----------------------------------------------------------------------------
(* The map the table stands for.  A call to set() counts from its start,   *)
(* a removal from the moment its key is found.                             *)

\* Values held for k: in the table, by the put in progress, or by the part of
\* the old table that grow() has still to move.
HeldFor(k) ==
  {second[i] : i \in {j \in LiveSlots : first[j] = k}}
    \cup (IF pc = "put" /\ key = k THEN {value} ELSE {})
    \cup {old.second[i] : i \in {j \in drain .. old.table_size - 1 :
             IsLive(old.tag[j]) /\ old.first[j] = k}}

\* The client's pair is under way until it is in the table.
SetPending(k) ==
  op.key = k /\ (pc = "grow" \/ (pc = "put" /\ (Growing \/ key = k)))

ContentOf(k) ==
  IF op.name = "set" /\ SetPending(k) THEN op.value
  ELSE IF pc = "find" /\ op.name = "remove_got" /\ op.key = k THEN NoValue
  ELSE IF HeldFor(k) = {} THEN NoValue
  ELSE CHOOSE v \in HeldFor(k) : TRUE

Map == INSTANCE AbstractMap WITH
         contents <- [k \in Keys |-> ContentOf(k)], result <- ret

\* The hash table, used in phases, implements the map.
ImplementsMap == Map!Spec

\* Used in phases, the table never holds a key twice, and size() is the
\* number of keys of the map.
SizeIsMapSize ==
  pc = "idle" => live_elems = Map!Size
=============================================================================
