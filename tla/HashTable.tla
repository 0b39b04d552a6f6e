------------------------------ MODULE HashTable ------------------------------
(***************************************************************************)
(* The open-addressing hash table under Map and Set: hash_map_table in     *)
(* util/data/map.hpp (hash_set_table in util/data/set.hpp is the same code *)
(* without the values).                                                    *)
(*                                                                         *)
(* The two highest bits of a slot's stored hash are its tag: "00" never    *)
(* used, "10" live, "01" a tombstone left by remove() or clear(), "11"     *)
(* live in a reused tombstone.  The remaining 62 bits are a function of    *)
(* the stored key, so the model keeps the key alone and reads its hash     *)
(* from Hash.                                                              *)
(*                                                                         *)
(* Every iteration of the loops of put_with_hash(), grow() and index_of()  *)
(* is an action, so the states in the middle of a call are states here.    *)
(* The code is sequential: a client calls only when pc = "idle".           *)
(***************************************************************************)
EXTENDS Integers, FiniteSets

CONSTANTS
  Keys,          \* keys the client uses
  Values,        \* values the client stores
  Hash,          \* hash code of each key, its two highest bits cleared
  InitialSize,   \* slots of the first allocation (16 in the source)
  MaxSize,       \* bound: the client makes no call that grows beyond this
  NoKey,         \* content of a slot that holds no element
  NoValue        \* the same for values; also "nothing returned yet"

ASSUME HashTableAssumption ==
  /\ Hash \in [Keys -> Nat]
  /\ InitialSize \in Nat /\ InitialSize >= 2
  /\ MaxSize \in Nat
  /\ NoKey \notin Keys
  /\ NoValue \notin Values

VARIABLES
  tag, first, second,     \* elems: the tag, key and value of every slot
  table_size, remaining_elems, live_elems,
  old,                    \* the table that grow() moves into the new one
  drain,                  \* the loop index of grow()
  key, value,             \* the element put_with_hash() carries, the key
                          \* index_of() looks for
  index, probe_length,    \* where the running loop has got to
  pc,                     \* the loop that runs, or "idle"
  op,                     \* the client's last call
  ret                     \* what that call has returned

tableVars == <<tag, first, second, table_size, remaining_elems, live_elems>>
growVars  == <<old, drain>>
probeVars == <<key, value, index, probe_length>>
vars == <<tableVars, growVars, probeVars, pc, op, ret>>

Tags  == {"00", "01", "10", "11"}
OpNames == {"none", "set", "find", "remove", "remove_and_get", "remove_got",
            "clear"}

\* A definition commented "Bug:" is used nowhere: it is a plausible mistake in
\* the definition after it, kept to show which property would notice.

\* Bug: the reuse bit is taken for part of the tag.
IsLiveUnlessReused(t) == t = "10"
IsLive(t) == t \in {"10", "11"}       \* is_first_bit_set_to_1
IsReused(t) == t \in {"01", "11"}     \* is_second_bit_set_to_1

Slots == 0 .. table_size - 1
LiveSlots == {i \in Slots : IsLive(tag[i])}
UsedSlots == {i \in Slots : tag[i] # "00"}

\* In a table of n slots: where the probe for a key starts, how far on from
\* there slot i is, and the slot after slot i.
Ideal(n, k) == Hash[k] % n
Distance(n, k, i) == (n - (Ideal(n, k) - i)) % n
\* Bug: the probe does not wrap around.
NextSlotUnwrapped(n, i) == i + 1
NextSlot(n, i) == (i + 1) % n

\* Bug: every slot may be used.
CapacityAll(n) == n
Capacity(n) == (n * 3) \div 4         \* remaining_elems of a new table of n slots

\* What calloc returns: n slots that hold nothing.
EmptyTags(n)   == [i \in 0 .. n - 1 |-> "00"]
EmptyFirst(n)  == [i \in 0 .. n - 1 |-> NoKey]
EmptySecond(n) == [i \in 0 .. n - 1 |-> NoValue]

NoTable == [table_size |-> 0, tag |-> EmptyTags(0),
            first |-> EmptyFirst(0), second |-> EmptySecond(0)]

\* A put_with_hash() runs inside grow() exactly when a table is being drained
\* (the table drained by the very first grow() is empty and causes no put).
Growing == old.table_size > 0

\* Bug: growing reclaims the tombstones but adds no slot.
NewSizeSame == IF table_size = 0 THEN InitialSize ELSE table_size
NewSize == IF table_size = 0 THEN InitialSize ELSE table_size * 2

Init ==
  /\ tag = EmptyTags(0) /\ first = EmptyFirst(0) /\ second = EmptySecond(0)
  /\ table_size = 0 /\ remaining_elems = 0 /\ live_elems = 0
  /\ old = NoTable /\ drain = 0
  /\ key = NoKey /\ value = NoValue /\ index = 0 /\ probe_length = 0
  /\ pc = "idle"
  /\ op = [name |-> "none", key |-> NoKey, value |-> NoValue]
  /\ ret = NoValue

-----------------------------------------------------------------------------
(* Entering and leaving the loops                                          *)

BeginProbe(k, v, loop) ==
  /\ key' = k /\ value' = v
  /\ index' = Ideal(table_size, k) /\ probe_length' = 0
  /\ pc' = loop

\* Bug: the length is not counted on.
AdvanceSlotOnly(k, v, length) ==
  /\ key' = k /\ value' = v
  /\ index' = NextSlot(table_size, index) /\ probe_length' = length
  /\ UNCHANGED pc

Advance(k, v, length) ==
  /\ key' = k /\ value' = v
  /\ index' = NextSlot(table_size, index) /\ probe_length' = length + 1
  /\ UNCHANGED pc

EndProbe(next) ==
  /\ key' = NoKey /\ value' = NoValue /\ index' = 0 /\ probe_length' = 0
  /\ pc' = next

BeginGrow ==
  /\ old' = [table_size |-> table_size, tag |-> tag,
             first |-> first, second |-> second]
  /\ drain' = 0
  /\ table_size' = NewSize
  /\ tag' = EmptyTags(NewSize)
  /\ first' = EmptyFirst(NewSize)
  /\ second' = EmptySecond(NewSize)
  /\ remaining_elems' = Capacity(NewSize)
  /\ live_elems' = 0
  /\ pc' = "grow"
  /\ UNCHANGED probeVars

-----------------------------------------------------------------------------
(* put() and put_with_hash()                                               *)

Set(k, v) ==
  /\ pc = "idle"
  /\ remaining_elems = 0 => NewSize <= MaxSize
  /\ op' = [name |-> "set", key |-> k, value |-> v]
  /\ ret' = NoValue
  /\ \/ remaining_elems = 0 /\ BeginGrow
     \/ remaining_elems # 0 /\ BeginProbe(k, v, "put")
                            /\ UNCHANGED <<tableVars, growVars>>

\* The call returns: to the loop of grow(), or to the client.
PutReturn ==
  /\ EndProbe(IF Growing THEN "grow" ELSE "idle")
  /\ drain' = IF Growing THEN drain + 1 ELSE drain
  /\ UNCHANGED <<old, op, ret>>

\* The slot holds the key already: only its value is replaced.
PutUpdate ==
  /\ pc = "put"
  /\ IsLive(tag[index]) /\ first[index] = key
  /\ second' = [second EXCEPT ![index] = value]
  /\ PutReturn
  /\ UNCHANGED <<tag, first, table_size, remaining_elems, live_elems>>

\* Bug: the keys change places and the values do not.
PutSwapKeys ==
  /\ pc = "put"
  /\ IsLive(tag[index]) /\ first[index] # key
  /\ probe_length > Distance(table_size, first[index], index)
  /\ first' = [first EXCEPT ![index] = key]
  /\ Advance(first[index], value, Distance(table_size, first[index], index))
  /\ UNCHANGED <<tag, second, table_size, remaining_elems, live_elems, growVars, op, ret>>

\* The slot's element is nearer to its ideal slot than the carried one: they
\* change places and the loop goes on with the displaced element.  The slot
\* keeps its tag.
PutSwap ==
  /\ pc = "put"
  /\ IsLive(tag[index]) /\ first[index] # key
  /\ probe_length > Distance(table_size, first[index], index)
  /\ first' = [first EXCEPT ![index] = key]
  /\ second' = [second EXCEPT ![index] = value]
  /\ Advance(first[index], second[index], Distance(table_size, first[index], index))
  /\ UNCHANGED <<tag, table_size, remaining_elems, live_elems, growVars, op, ret>>

PutSkip ==
  /\ pc = "put"
  /\ IsLive(tag[index]) /\ first[index] # key
  /\ probe_length <= Distance(table_size, first[index], index)
  /\ Advance(key, value, probe_length)
  /\ UNCHANGED <<tableVars, growVars, op, ret>>

\* Bug: a reused tombstone is tagged like a slot used for the first time.
TagForNew(t) == "10"
TagFor(t) == IF IsReused(t) THEN "11" ELSE "10"

\* Bug: reusing a tombstone counts as well.
SlotsTakenByAny(t) == 1
SlotsTaken(t) == IF IsReused(t) THEN 0 ELSE 1

\* A slot that is not live takes the element; only a never-used one counts
\* against remaining_elems.
PutInsert ==
  /\ pc = "put"
  /\ ~ IsLive(tag[index])
  /\ tag' = [tag EXCEPT ![index] = TagFor(@)]
  /\ first' = [first EXCEPT ![index] = key]
  /\ second' = [second EXCEPT ![index] = value]
  /\ remaining_elems' = remaining_elems - SlotsTaken(tag[index])
  /\ live_elems' = live_elems + 1
  /\ PutReturn
  /\ UNCHANGED table_size

-----------------------------------------------------------------------------
(* grow(): the live elements of the old table, in slot order, are put into *)
(* the new one, which then replaces it                                     *)

\* The put into the new table does not grow in its turn: NoNestedGrow below.
GrowMove ==
  /\ pc = "grow" /\ drain < old.table_size
  /\ IsLive(old.tag[drain])
  /\ remaining_elems # 0
  /\ BeginProbe(old.first[drain], old.second[drain], "put")
  /\ UNCHANGED <<tableVars, growVars, op, ret>>

\* Bug: the loop goes on without having counted.
GrowSkipStays ==
  /\ pc = "grow" /\ drain < old.table_size
  /\ ~ IsLive(old.tag[drain])
  /\ UNCHANGED <<tableVars, growVars, probeVars, pc, op, ret>>

GrowSkip ==
  /\ pc = "grow" /\ drain < old.table_size
  /\ ~ IsLive(old.tag[drain])
  /\ drain' = drain + 1
  /\ UNCHANGED <<tableVars, old, probeVars, pc, op, ret>>

\* *this = move(new_table), and put_with_hash() goes on with the client's pair.
GrowDone ==
  /\ pc = "grow" /\ drain = old.table_size
  /\ old' = NoTable /\ drain' = 0
  /\ BeginProbe(op.key, op.value, "put")
  /\ UNCHANGED <<tableVars, op, ret>>

-----------------------------------------------------------------------------
(* index_of() and the calls that start with it: has, get and find (all     *)
(* "find"), remove and remove_and_get                                      *)

Lookup(name, k) ==
  /\ pc = "idle"
  /\ op' = [name |-> name, key |-> k, value |-> NoValue]
  /\ ret' = NoValue
  /\ \/ table_size = 0 /\ UNCHANGED <<probeVars, pc>>
     \/ table_size # 0 /\ BeginProbe(k, NoValue, "find")
  /\ UNCHANGED <<tableVars, growVars>>

Find(k) == Lookup("find", k)
Remove(k) == Lookup("remove", k)
RemoveAndGet(k) == Lookup("remove_and_get", k)

FindHit == IsLive(tag[index]) /\ first[index] = key

\* Bug: a reused tombstone ends the search like any live slot.
FindStopAnyLive ==
  \/ /\ IsLive(tag[index]) /\ first[index] # key
     /\ probe_length > Distance(table_size, first[index], index)
  \/ tag[index] = "00"

\* A live slot that is not a reused tombstone, nearer to its ideal slot than
\* the search is to the key's, or a never-used slot, ends the search.
FindStop ==
  \/ /\ tag[index] = "10" /\ first[index] # key
     /\ probe_length > Distance(table_size, first[index], index)
  \/ tag[index] = "00"

FindSkip ==
  /\ pc = "find"
  /\ ~ FindHit /\ ~ FindStop
  /\ Advance(key, value, probe_length)
  /\ UNCHANGED <<tableVars, growVars, op, ret>>

\* index_of() returns -1: get and remove_and_get throw, find returns None,
\* has returns false and remove does nothing.
FindFail ==
  /\ pc = "find" /\ FindStop
  /\ EndProbe("idle")
  /\ ret' = NoValue
  /\ UNCHANGED <<tableVars, growVars, op>>

FindReturn ==
  /\ pc = "find" /\ FindHit /\ op.name = "find"
  /\ ret' = second[index]
  /\ EndProbe("idle")
  /\ UNCHANGED <<tableVars, growVars, op>>

\* remove_and_get() takes the value, then calls remove(), which looks the key
\* up again.
TakeValue ==
  /\ pc = "find" /\ FindHit /\ op.name = "remove_and_get"
  /\ ret' = second[index]
  /\ op' = [op EXCEPT !.name = "remove_got"]
  /\ BeginProbe(op.key, NoValue, "find")
  /\ UNCHANGED <<tableVars, growVars>>

RemoveHit ==
  /\ pc = "find" /\ FindHit /\ op.name \in {"remove", "remove_got"}
  /\ tag' = [tag EXCEPT ![index] = "01"]
  /\ first' = [first EXCEPT ![index] = NoKey]
  /\ second' = [second EXCEPT ![index] = NoValue]
  /\ live_elems' = live_elems - 1
  /\ EndProbe("idle")
  /\ UNCHANGED <<table_size, remaining_elems, growVars, op, ret>>

\* clear() leaves a tombstone in every live slot and gives none of them back
\* to remaining_elems.
Clear ==
  /\ pc = "idle"
  /\ tag' = [i \in Slots |-> IF IsLive(tag[i]) THEN "01" ELSE tag[i]]
  /\ first' = [i \in Slots |-> NoKey]
  /\ second' = [i \in Slots |-> NoValue]
  /\ live_elems' = live_elems - Cardinality(LiveSlots)
  /\ op' = [name |-> "clear", key |-> NoKey, value |-> NoValue]
  /\ ret' = NoValue
  /\ UNCHANGED <<table_size, remaining_elems, growVars, probeVars, pc>>

-----------------------------------------------------------------------------
PutStep == PutUpdate \/ PutSwap \/ PutSkip \/ PutInsert
GrowStep == GrowMove \/ GrowSkip \/ GrowDone
FindStep == FindSkip \/ FindFail \/ FindReturn \/ TakeValue \/ RemoveHit

Call ==
  \/ \E k \in Keys, v \in Values : Set(k, v)
  \/ \E k \in Keys : Find(k) \/ Remove(k) \/ RemoveAndGet(k)
  \/ Clear

Step == PutStep \/ GrowStep \/ FindStep

Next == Call \/ Step

\* Once called, the code runs on; nothing obliges a client to call.
Fairness == WF_vars(Step)

Spec == Init /\ [][Next]_vars /\ Fairness

-----------------------------------------------------------------------------
(* What is always true of the table                                        *)

KeyOrNone   == Keys \cup {NoKey}
ValueOrNone == Values \cup {NoValue}

\* n slots with these tags, keys and values; the live ones hold an element.
WellFormed(n, t, f, s) ==
  /\ t \in [0 .. n - 1 -> Tags]
  /\ f \in [0 .. n - 1 -> KeyOrNone]
  /\ s \in [0 .. n - 1 -> ValueOrNone]
  /\ \A i \in 0 .. n - 1 : /\ IsLive(t[i]) <=> f[i] \in Keys
                           /\ IsLive(t[i]) <=> s[i] \in Values

\* Type invariant.  The table, and the one being drained, have a tag, a key and
\* a value per slot, and a slot that is not live holds nothing.  (That the two
\* counters never pass below zero follows from Counters and NoNestedGrow.)
TypeOK ==
  /\ table_size \in Nat /\ remaining_elems \in Int /\ live_elems \in Int
  /\ WellFormed(table_size, tag, first, second)
  /\ old.table_size \in Nat
  /\ WellFormed(old.table_size, old.tag, old.first, old.second)
  /\ drain \in 0 .. old.table_size
  /\ pc \in {"idle", "put", "grow", "find"}
  /\ key \in KeyOrNone /\ value \in ValueOrNone
  /\ index \in Nat /\ probe_length \in Nat
  /\ pc \in {"put", "find"} => key \in Keys /\ index \in Slots
  /\ pc = "put" => value \in Values
  /\ op \in [name : OpNames, key : KeyOrNone, value : ValueOrNone]
  /\ pc # "idle" => op.key \in Keys
  /\ ret \in ValueOrNone

\* In n slots with tags t and keys f: those before distance d of k's probe
\* sequence have all been used, and none of them holds, outside a reused
\* tombstone, an element nearer to its ideal slot than that slot is to k's.
Passed(n, t, f, k, d) ==
  \A i \in 0 .. n - 1 : Distance(n, k, i) < d =>
    /\ t[i] # "00"
    /\ t[i] = "10" => Distance(n, f[i], i) >= Distance(n, k, i)

\* Nothing that could make index_of() give up lies between the ideal slot of
\* a stored key and the slot it is in.  This is what the comment in index_of()
\* claims of the swaps in put(), and why its early return loses no element.
ProbePaths ==
  \A j \in LiveSlots :
    Passed(table_size, tag, first, first[j], Distance(table_size, first[j], j))

\* A running probe is where its length says, and has passed only such slots.
ProbeInProgress ==
  pc \in {"put", "find"} =>
    /\ probe_length = Distance(table_size, key, index)
    /\ Passed(table_size, tag, first, key, probe_length)

\* remaining_elems and live_elems count what they are named for: the slots
\* that may still be used for the first time, and the live ones.
Counters ==
  /\ live_elems = Cardinality(LiveSlots)
  /\ remaining_elems = Capacity(table_size) - Cardinality(UsedSlots)

\* Whenever put_with_hash() is in its loop a first use of a slot is still
\* allowed; in particular the puts of grow() never call grow() again.
NoNestedGrow ==
  pc \in {"put", "grow"} => remaining_elems > 0

\* An allocated table has a never-used slot, where every probe ends.
ProbesEnd ==
  table_size > 0 => UsedSlots # Slots

\* When get, find or has return, they found nothing only if the key is not
\* stored, and what they found is a value stored with the key.
LookupCorrect ==
  pc = "idle" /\ op.name = "find" =>
    LET holding == {i \in LiveSlots : first[i] = op.key}
    IN  IF ret = NoValue THEN holding = {} ELSE \E i \in holding : second[i] = ret

\* When set() returns, the pair it was given is stored, in the copy of the key
\* that a lookup reaches first.
SetStores ==
  pc = "idle" /\ op.name = "set" =>
    \E i \in LiveSlots :
      /\ first[i] = op.key /\ second[i] = op.value
      /\ \A j \in LiveSlots :
            first[j] = op.key =>
              Distance(table_size, op.key, i) <= Distance(table_size, op.key, j)

\* Part of the inductive invariant.  No loop runs on a table without slots,
\* which has no room either, and an old table is kept only while grow() works
\* on one of its slots.
LoopsInBounds ==
  /\ table_size = 0 => remaining_elems = 0
  /\ pc # "idle" => table_size > 0
  /\ Growing => pc = "grow" \/ (pc = "put" /\ drain < old.table_size)
  /\ pc \in {"put", "grow"} => op.name = "set" /\ op.value \in Values

\* Part of the inductive invariant.  The slots that a search has passed do not
\* hold its key.
SearchedInVain ==
  pc = "find" =>
    /\ key = op.key
    /\ \A i \in LiveSlots :
          Distance(table_size, key, i) < probe_length => first[i] # key

\* Part of the inductive invariant.  grow() has used at most one slot of the
\* new table for each element it has moved, and all elements of the old table
\* do not fill the new one.
OldLive(n) == {j \in 0 .. n - 1 : IsLive(old.tag[j])}
GrowthInProgress ==
  /\ remaining_elems >= 0
  /\ Growing =>
       /\ remaining_elems >= Capacity(table_size) - Cardinality(OldLive(drain))
       /\ Cardinality(OldLive(old.table_size)) < Capacity(table_size)
       /\ pc = "put" => drain \in OldLive(old.table_size)

\* Keys that are stored, carried by a put, or still to be moved by grow().
StoredKeys ==
  {first[i] : i \in LiveSlots}
    \cup (IF pc = "put" THEN {key} ELSE {})
    \cup (IF pc \in {"put", "grow"} THEN {op.key} ELSE {})
    \cup {old.first[j] : j \in OldLive(old.table_size) \ (0 .. drain - 1)}

\* Neither a displacement nor a growth loses a key: only the removals and
\* clear() take one out.
NoKeyLost ==
  [][RemoveHit \/ Clear \/ StoredKeys \subseteq StoredKeys']_vars

\* Every call returns.
CallsReturn == pc # "idle" ~> pc = "idle"

-----------------------------------------------------------------------------
(* What the tests say of Map, which the code does not keep                 *)

\* map_test.cpp, "remove and remove_and_get": a removed key is not there.
RemovedIsGone ==
  pc = "idle" /\ op.name \in {"remove", "remove_got"} =>
    \A i \in LiveSlots : first[i] # op.key

\* map_test.cpp, "stress": a key keeps the value it was set to while other keys
\* are set and the table grows.
LookupIn(t, k) ==
  LET distance(i) == Distance(t.table_size, k, i)
      holding == {i \in 0 .. t.table_size - 1 : IsLive(t.tag[i]) /\ t.first[i] = k}
  IN  IF holding = {} THEN NoValue
      ELSE t.second[CHOOSE i \in holding : \A j \in holding : distance(i) <= distance(j)]

ThisTable == [table_size |-> table_size, tag |-> tag, first |-> first, second |-> second]

GrowKeepsValues ==
  [][GrowDone => \A k \in Keys : LookupIn(ThisTable, k) = LookupIn(old, k)]_vars
=============================================================================
