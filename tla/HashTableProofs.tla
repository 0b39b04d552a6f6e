---------------------------- MODULE HashTableProofs ---------------------------
(***************************************************************************)
(* Proofs about HashTable and MapClient, for every set of keys, hash       *)
(* function and size.                                                      *)
(*                                                                         *)
(* The invariant of the table comes in layers, each proved with those      *)
(* before it: types, the counters, the probe sequences, the pair that is   *)
(* being stored.                                                           *)
(*                                                                         *)
(* For a client that fills the table, empties it and fills it again, the   *)
(* table implements AbstractMap, and size() is the size of that map.  What *)
(* the discipline buys is that no tombstone lies on the way to a stored    *)
(* key while keys are put (PathsFull), so that put_with_hash() never       *)
(* settles for a tombstone in front of a copy of its key, and no key is    *)
(* ever in two slots (NoneTwice).                                          *)
(***************************************************************************)
EXTENDS MapClient, FiniteSetTheorems, TLAPS

-----------------------------------------------------------------------------
(* Arithmetic of the probe sequence                                        *)

\* Division with remainder, as the provers know it.
LEMMA DivMod ==
  ASSUME NEW n \in Nat \ {0}, NEW a \in Nat
  PROVE  /\ a = n * (a \div n) + (a % n)
         /\ a \div n \in Nat /\ a % n \in 0 .. n - 1
  BY SMT

\* One turn around a table of n slots.
LEMMA ModOnce ==
  ASSUME NEW n \in Nat \ {0}, NEW a \in 0 .. 2 * n - 1
  PROVE  a % n = IF a < n THEN a ELSE a - n
<1>1. CASE a < n
  BY <1>1, SMT
<1>2. CASE a >= n
  <2>1. PICK q \in Nat, r \in 0 .. n - 1 : a = n * q + r /\ a % n = r
    <3>1. a \in Nat
      OBVIOUS
    <3>. QED  BY <3>1, DivMod
  <2>2. q # 0
    BY <1>2, <2>1
  <2>3. ~ q >= 2
    <3>1. SUFFICES ASSUME q >= 2 PROVE FALSE
      OBVIOUS
    <3>2. n * q >= n * 2
      BY <3>1, SMT
    <3>. QED  BY <2>1, <3>2
  <2>4. q = 1
    BY <2>2, <2>3
  <2>. QED  BY <1>2, <2>1, <2>4
<1>. QED  BY <1>1, <1>2

\* The probe for a key starts in the table.
LEMMA IdealInTable ==
  ASSUME NEW n \in Nat \ {0}, NEW k \in Keys
  PROVE  Ideal(n, k) \in 0 .. n - 1
  BY HashTableAssumption, DivMod DEF Ideal

LEMMA NextAround ==
  ASSUME NEW n \in Nat \ {0}, NEW i \in 0 .. n - 1
  PROVE  NextSlot(n, i) = IF i = n - 1 THEN 0 ELSE i + 1
<1>1. PICK a \in 0 .. 2 * n - 1 : a = i + 1
  OBVIOUS
<1>2. a % n = IF a < n THEN a ELSE a - n
  BY ModOnce
<1>. QED  BY <1>1, <1>2 DEF NextSlot

\* The code's distance is the way forward from the ideal slot.
LEMMA DistanceAround ==
  ASSUME NEW n \in Nat \ {0}, NEW k \in Keys, NEW i \in 0 .. n - 1
  PROVE  Distance(n, k, i) = IF i >= Ideal(n, k) THEN i - Ideal(n, k)
                                                ELSE i - Ideal(n, k) + n
<1>1. PICK h \in 0 .. n - 1 : h = Ideal(n, k)
  BY IdealInTable
<1>2. n - (h - i) \in 0 .. 2 * n - 1
  OBVIOUS
<1>. QED  BY <1>1, <1>2, ModOnce DEF Distance

\* What the probe relies on: it starts at distance 0, every step adds 1 until
\* the table has been walked once, and no two slots are at the same distance.
LEMMA ProbeSequence ==
  ASSUME NEW n \in Nat \ {0}, NEW k \in Keys
  PROVE  /\ Ideal(n, k) \in 0 .. n - 1
         /\ Distance(n, k, Ideal(n, k)) = 0
         /\ \A i \in 0 .. n - 1 :
              /\ Distance(n, k, i) \in 0 .. n - 1
              /\ NextSlot(n, i) \in 0 .. n - 1
              /\ Distance(n, k, i) < n - 1 =>
                   Distance(n, k, NextSlot(n, i)) = Distance(n, k, i) + 1
         /\ \A i, j \in 0 .. n - 1 :
              Distance(n, k, i) = Distance(n, k, j) => i = j
<1>1. PICK h \in 0 .. n - 1 : h = Ideal(n, k)
  BY IdealInTable
<1>2. \A i \in 0 .. n - 1 :
        Distance(n, k, i) = IF i >= h THEN i - h ELSE i - h + n
  BY <1>1, DistanceAround
<1>3. \A i \in 0 .. n - 1 : NextSlot(n, i) = IF i = n - 1 THEN 0 ELSE i + 1
  BY NextAround
<1>. HIDE DEF Distance, NextSlot
<1>. QED  BY <1>1, <1>2, <1>3

-----------------------------------------------------------------------------
(* Types                                                                   *)

TypeInv == TypeOK /\ LoopsInBounds

LEMMA TypeInit == Init => TypeInv
  BY HashTableAssumption
     DEF Growing, Init, TypeInv, TypeOK, LoopsInBounds, WellFormed, NoTable, EmptyTags,
         EmptyFirst, EmptySecond, Slots, KeyOrNone, ValueOrNone, OpNames,
         IsLive, Tags

\* A probe starts at a slot of the table, and the next slot is one too.
LEMMA ProbeStaysInTable ==
  ASSUME table_size \in Nat \ {0}
  PROVE  /\ \A k \in Keys : Ideal(table_size, k) \in Slots
         /\ \A i \in Slots : NextSlot(table_size, i) \in Slots
<1>1. \A k \in Keys : Ideal(table_size, k) \in Slots
  BY IdealInTable DEF Slots
<1>2. \A i \in Slots : NextSlot(table_size, i) \in Slots
  BY NextAround DEF Slots
<1>. QED  BY <1>1, <1>2

\* The slots, and any of them, can be counted.
LEMMA SlotsFinite ==
  ASSUME NEW n \in Nat
  PROVE  /\ IsFiniteSet(0 .. n - 1) /\ Cardinality(0 .. n - 1) = n
         /\ \A S \in SUBSET (0 .. n - 1) :
              IsFiniteSet(S) /\ Cardinality(S) \in Nat /\ Cardinality(S) <= n
<1>1. IsFiniteSet(0 .. n - 1) /\ Cardinality(0 .. n - 1) = n
  BY FS_Interval
<1>2. ASSUME NEW S \in SUBSET (0 .. n - 1)
      PROVE  IsFiniteSet(S) /\ Cardinality(S) \in Nat /\ Cardinality(S) <= n
  <2>1. IsFiniteSet(S) /\ Cardinality(S) <= Cardinality(0 .. n - 1)
    BY <1>1, FS_Subset
  <2>. QED  BY <1>1, <2>1, FS_CardinalityType
<1>. QED  BY <1>1, <1>2

LEMMA TypeNoTable ==
  /\ NoTable.table_size = 0
  /\ WellFormed(0, NoTable.tag, NoTable.first, NoTable.second)
  BY DEF NoTable, WellFormed, EmptyTags, EmptyFirst, EmptySecond

LEMMA TypeNext == TypeInv /\ [Next]_vars => TypeInv'
<1>. SUFFICES ASSUME TypeInv, [Next]_vars PROVE TypeInv'
  OBVIOUS
<1>. USE HashTableAssumption DEF TypeInv, TypeOK, LoopsInBounds, Growing
<1>1. table_size > 0 =>
        /\ \A k \in Keys : Ideal(table_size, k) \in Slots
        /\ \A i \in Slots : NextSlot(table_size, i) \in Slots
  BY ProbeStaysInTable
<1>2. ASSUME NEW k \in Keys, NEW v \in Values, Set(k, v)
      PROVE  TypeInv'
  <2>1. CASE remaining_elems = 0 /\ BeginGrow
    <3>1. NewSize \in Nat /\ NewSize > 0 /\ Capacity(NewSize) \in Int
      BY DEF NewSize, Capacity
    <3>2. WellFormed(NewSize, EmptyTags(NewSize), EmptyFirst(NewSize), EmptySecond(NewSize))
      BY DEF WellFormed, EmptyTags, EmptyFirst, EmptySecond, IsLive, Tags, KeyOrNone,
             ValueOrNone
    <3>3. /\ table_size' = NewSize /\ tag' = EmptyTags(NewSize)
          /\ first' = EmptyFirst(NewSize) /\ second' = EmptySecond(NewSize)
          /\ remaining_elems' = Capacity(NewSize) /\ live_elems' = 0
          /\ old' = [table_size |-> table_size, tag |-> tag,
                     first |-> first, second |-> second]
          /\ drain' = 0 /\ pc' = "grow"
          /\ op' = [name |-> "set", key |-> k, value |-> v] /\ ret' = NoValue
          /\ UNCHANGED <<key, value, index, probe_length>>
      BY <1>2, <2>1 DEF Set, BeginGrow, probeVars
    <3>4. WellFormed(table_size, tag, first, second)'
      BY <3>2, <3>3
    <3>5. WellFormed(old.table_size, old.tag, old.first, old.second)'
      BY <3>3
    <3>. QED  BY <3>1, <3>3, <3>4, <3>5 DEF Growing, KeyOrNone, ValueOrNone, OpNames
  <2>2. CASE remaining_elems # 0 /\ BeginProbe(k, v, "put") /\ UNCHANGED <<tableVars, growVars>>
    BY <1>1, <1>2, <2>2 DEF Set, BeginProbe, Slots, KeyOrNone, ValueOrNone, OpNames,
         tableVars, growVars
  <2>. QED  BY <1>2, <2>1, <2>2 DEF Set
<1>3. ASSUME NEW k \in Keys, NEW name \in {"find", "remove", "remove_and_get"},
             Lookup(name, k)
      PROVE  TypeInv'
  BY <1>1, <1>3 DEF Lookup, BeginProbe, Slots, KeyOrNone, ValueOrNone, OpNames,
       tableVars, growVars, probeVars
<1>4. CASE Clear
  <2>1. Cardinality(LiveSlots) \in Int
    <3>1. LiveSlots \in SUBSET (0 .. table_size - 1) /\ table_size \in Nat
      BY DEF LiveSlots, Slots
    <3>. QED  BY <3>1, SlotsFinite
  <2>2. WellFormed(table_size, tag, first, second)'
    BY <1>4 DEF Clear, WellFormed, Slots, KeyOrNone, ValueOrNone, IsLive, Tags
  <2>. QED
    BY <1>4, <2>1, <2>2 DEF Clear, KeyOrNone, ValueOrNone, OpNames, growVars, probeVars
<1>5. CASE PutUpdate
  <2>1. WellFormed(table_size, tag, first, second)'
    BY <1>5 DEF PutUpdate, WellFormed, Slots
  <2>. QED
    BY <1>5, <2>1 DEF PutUpdate, PutReturn, EndProbe, Slots, KeyOrNone, ValueOrNone
<1>6. CASE PutSwap
  <2>1. index \in Slots /\ first[index] \in Keys /\ second[index] \in Values
    BY <1>6 DEF PutSwap, WellFormed, Slots
  <2>2. WellFormed(table_size, tag, first, second)'
    BY <1>6 DEF PutSwap, WellFormed, Slots
  <2>3. Distance(table_size, first[index], index) \in 0 .. table_size - 1
    BY <1>6, <2>1, ProbeSequence DEF PutSwap, Slots
  <2>. QED
    BY <1>1, <1>6, <2>1, <2>2, <2>3 DEF PutSwap, Advance, Slots, KeyOrNone, ValueOrNone,
         growVars
<1>7. CASE PutSkip
  BY <1>1, <1>7 DEF PutSkip, Advance, Slots, tableVars, growVars
<1>8. CASE PutInsert
  <2>1. WellFormed(table_size, tag, first, second)'
    BY <1>8 DEF PutInsert, TagFor, WellFormed, Slots, KeyOrNone, IsLive, Tags
  <2>. QED
    BY <1>8, <2>1 DEF PutInsert, PutReturn, EndProbe, SlotsTaken, Slots,
         KeyOrNone, ValueOrNone
<1>9. CASE GrowMove
  <2>1. old.first[drain] \in Keys /\ old.second[drain] \in Values
    <3>1. drain \in 0 .. old.table_size - 1
      BY <1>9 DEF GrowMove
    <3>. QED  BY <1>9, <3>1 DEF GrowMove, WellFormed
  <2>. QED
    BY <1>1, <1>9, <2>1 DEF GrowMove, BeginProbe, Slots, KeyOrNone, ValueOrNone, tableVars,
         growVars
<1>10. CASE GrowSkip
  BY <1>10 DEF GrowSkip, tableVars, probeVars
<1>11. CASE GrowDone
  <2>1. WellFormed(old.table_size, old.tag, old.first, old.second)'
    BY <1>11, TypeNoTable DEF GrowDone
  <2>. QED
    BY <1>1, <1>11, <2>1, TypeNoTable DEF GrowDone, BeginProbe, Slots, KeyOrNone,
         ValueOrNone, tableVars
<1>12. CASE FindSkip
  BY <1>1, <1>12 DEF FindSkip, Advance, Slots, tableVars, growVars
<1>13. CASE FindFail
  BY <1>13 DEF FindFail, EndProbe, KeyOrNone, ValueOrNone, tableVars, growVars
<1>14. CASE FindReturn
  <2>1. second[index] \in ValueOrNone
    BY <1>14 DEF FindReturn, WellFormed, Slots
  <2>. QED
    BY <1>14, <2>1 DEF FindReturn, EndProbe, KeyOrNone, ValueOrNone, tableVars, growVars
<1>15. CASE TakeValue
  <2>1. second[index] \in ValueOrNone
    BY <1>15 DEF TakeValue, WellFormed, Slots
  <2>2. op' \in [name : OpNames, key : KeyOrNone, value : ValueOrNone] /\ op'.key = op.key
    BY <1>15 DEF TakeValue, OpNames
  <2>. QED
    BY <1>1, <1>15, <2>1, <2>2 DEF TakeValue, BeginProbe, Slots, KeyOrNone, ValueOrNone,
         tableVars, growVars
<1>16. CASE RemoveHit
  <2>1. WellFormed(table_size, tag, first, second)'
    BY <1>16 DEF RemoveHit, WellFormed, Slots, KeyOrNone, ValueOrNone, IsLive, Tags
  <2>. QED
    BY <1>16, <2>1 DEF RemoveHit, EndProbe, KeyOrNone, ValueOrNone, growVars
<1>17. CASE UNCHANGED vars
  BY <1>17 DEF vars, tableVars, growVars, probeVars, Slots
<1>. QED
  BY <1>2, <1>3, <1>4, <1>5, <1>6, <1>7, <1>8, <1>9, <1>10, <1>11, <1>12, <1>13, <1>14,
     <1>15, <1>16, <1>17
     DEF Next, Call, Step, PutStep, GrowStep, FindStep, Find, Remove, RemoveAndGet

\* Every variable keeps its type, and the arrays always have one entry for each
\* of the table's slots.
THEOREM TypeCorrect == Spec => []TypeOK
<1>1. Spec => []TypeInv
  BY TypeInit, TypeNext, PTL DEF Spec
<1>2. TypeInv => TypeOK
  BY DEF TypeInv
<1>. QED  BY <1>1, <1>2, PTL
-----------------------------------------------------------------------------
(* The counters                                                            *)

CountInv == Counters /\ GrowthInProgress /\ NoNestedGrow

LEMMA CapacityBounds ==
  ASSUME NEW n \in Nat \ {0}
  PROVE  /\ Capacity(n) \in Nat /\ Capacity(n) < n
         /\ n >= 2 => Capacity(n) > 0
         /\ Capacity(n) < Capacity(n * 2)
  BY DEF Capacity

\* Counting the slots with one more, or one less, of them.
LEMMA CountOneMore ==
  ASSUME NEW n \in Nat, NEW S \in SUBSET (0 .. n - 1), NEW i \in (0 .. n - 1) \ S
  PROVE  Cardinality(S \cup {i}) = Cardinality(S) + 1
  BY SlotsFinite, FS_AddElement

LEMMA CountOneLess ==
  ASSUME NEW n \in Nat, NEW S \in SUBSET (0 .. n - 1), NEW i \in S
  PROVE  Cardinality(S \ {i}) = Cardinality(S) - 1
  BY SlotsFinite, FS_RemoveElement

LEMMA CountSubset ==
  ASSUME NEW n \in Nat, NEW S \in SUBSET (0 .. n - 1), NEW T \in SUBSET S
  PROVE  Cardinality(T) <= Cardinality(S)
  BY SlotsFinite, FS_Subset

LEMMA CountInit == Init => CountInv
<1>1. SUFFICES ASSUME Init PROVE CountInv
  OBVIOUS
<1>2. LiveSlots = {} /\ UsedSlots = {}
  BY <1>1 DEF Init, LiveSlots, UsedSlots, Slots
<1>. QED
  BY <1>1, <1>2, FS_EmptySet
     DEF Init, CountInv, Counters, GrowthInProgress, NoNestedGrow, Growing, NoTable, Capacity
\* A table about to grow holds fewer elements than its successor may use slots.
LEMMA CountAtGrowth ==
  ASSUME TypeInv, CountInv, remaining_elems = 0
  PROVE  Cardinality(LiveSlots) < Capacity(NewSize) /\ Capacity(NewSize) > 0
<1>1. table_size \in Nat /\ NewSize \in Nat \ {0} /\ NewSize >= 2
  BY HashTableAssumption DEF TypeInv, TypeOK, NewSize
<1>2. LiveSlots \in SUBSET UsedSlots /\ UsedSlots \in SUBSET (0 .. table_size - 1)
  BY DEF LiveSlots, UsedSlots, Slots, IsLive
<1>3. Cardinality(LiveSlots) <= Cardinality(UsedSlots)
  BY <1>1, <1>2, CountSubset
<1>4. /\ Cardinality(LiveSlots) \in Nat /\ Cardinality(UsedSlots) \in Nat
      /\ Cardinality(UsedSlots) = Capacity(table_size)
  <2>1. Cardinality(LiveSlots) \in Nat /\ Cardinality(UsedSlots) \in Nat
    BY <1>1, <1>2, SlotsFinite
  <2>2. Capacity(table_size) \in Int
    BY <1>1 DEF Capacity
  <2>. QED  BY <2>1, <2>2 DEF CountInv, Counters
<1>5. Capacity(NewSize) \in Nat /\ Capacity(NewSize) > 0
  BY <1>1, CapacityBounds
<1>6. CASE table_size = 0
  <2>1. UsedSlots = {}
    BY <1>6 DEF UsedSlots, Slots
  <2>2. Cardinality(LiveSlots) = 0
    BY <1>2, <2>1, FS_EmptySet
  <2>. QED  BY <1>5, <2>2
<1>7. CASE table_size # 0
  <2>1. Capacity(table_size) < Capacity(NewSize) /\ Capacity(table_size) \in Nat
    BY <1>1, <1>7, CapacityBounds DEF NewSize
  <2>. QED  BY <1>3, <1>4, <1>5, <2>1
<1>. QED  BY <1>6, <1>7

\* grow() has moved one element more when a put that it made returns.
LEMMA CountMoved ==
  ASSUME TypeInv, CountInv, Growing, pc = "put"
  PROVE  /\ Cardinality(OldLive(drain + 1)) = Cardinality(OldLive(drain)) + 1
         /\ Cardinality(OldLive(drain + 1)) < Capacity(table_size)
         /\ Cardinality(OldLive(drain)) \in Nat
         /\ Capacity(table_size) \in Nat
<1>1. /\ old.table_size \in Nat /\ drain \in 0 .. old.table_size - 1
      /\ IsLive(old.tag[drain]) /\ table_size \in Nat \ {0}
  BY DEF TypeInv, TypeOK, LoopsInBounds, CountInv, GrowthInProgress, OldLive
<1>2. /\ OldLive(old.table_size) \in SUBSET (0 .. old.table_size - 1)
      /\ OldLive(drain) \in SUBSET (0 .. old.table_size - 1)
      /\ OldLive(drain + 1) = OldLive(drain) \cup {drain}
      /\ OldLive(drain + 1) \in SUBSET OldLive(old.table_size)
      /\ drain \in (0 .. old.table_size - 1) \ OldLive(drain)
  BY <1>1 DEF OldLive
<1>3. Cardinality(OldLive(drain + 1)) = Cardinality(OldLive(drain)) + 1
  BY <1>1, <1>2, CountOneMore
<1>4. Cardinality(OldLive(drain + 1)) <= Cardinality(OldLive(old.table_size))
  BY <1>1, <1>2, CountSubset
<1>5. /\ Cardinality(OldLive(drain)) \in Nat /\ Cardinality(OldLive(old.table_size)) \in Nat
      /\ Capacity(table_size) \in Nat
  BY <1>1, <1>2, SlotsFinite, CapacityBounds
<1>. QED  BY <1>3, <1>4, <1>5 DEF CountInv, GrowthInProgress

LEMMA CountNext == TypeInv /\ CountInv /\ [Next]_vars => CountInv'
<1>. SUFFICES ASSUME TypeInv, CountInv, [Next]_vars PROVE CountInv'
  OBVIOUS
<1>1. /\ table_size \in Nat /\ remaining_elems \in Int /\ live_elems \in Int
      /\ LiveSlots \in SUBSET (0 .. table_size - 1)
      /\ UsedSlots \in SUBSET (0 .. table_size - 1)
      /\ Cardinality(LiveSlots) \in Nat /\ Cardinality(UsedSlots) \in Nat
  <2>1. /\ LiveSlots \in SUBSET (0 .. table_size - 1)
        /\ UsedSlots \in SUBSET (0 .. table_size - 1)
    BY DEF LiveSlots, UsedSlots, Slots
  <2>2. table_size \in Nat /\ remaining_elems \in Int /\ live_elems \in Int
    BY DEF TypeInv, TypeOK
  <2>. QED  BY <2>1, <2>2, SlotsFinite
<1>2. ASSUME UNCHANGED <<tag, table_size, remaining_elems, live_elems>>
      PROVE  Counters'
  BY <1>2 DEF CountInv, Counters, LiveSlots, UsedSlots, Slots
<1>3. ASSUME NEW k \in Keys, NEW v \in Values, Set(k, v)
      PROVE  CountInv'
  <2>1. CASE remaining_elems = 0 /\ BeginGrow
    <3>1. LiveSlots' = {} /\ UsedSlots' = {}
      BY <2>1 DEF BeginGrow, LiveSlots, UsedSlots, Slots, EmptyTags, IsLive
    <3>2. OldLive(drain)' = {} /\ OldLive(old.table_size)' = LiveSlots
      BY <2>1 DEF BeginGrow, OldLive, LiveSlots, Slots
    <3>3. /\ Cardinality(LiveSlots) < Capacity(NewSize) /\ Capacity(NewSize) > 0
      BY <2>1, CountAtGrowth
    <3>4. Capacity(NewSize) \in Nat /\ Cardinality({}) = 0
      BY CapacityBounds, HashTableAssumption, FS_EmptySet, <1>1 DEF NewSize
    <3>5. /\ table_size' = NewSize /\ remaining_elems' = Capacity(NewSize)
          /\ live_elems' = 0 /\ pc' = "grow"
      BY <2>1 DEF BeginGrow
    <3>6. Counters'
      BY <3>1, <3>4, <3>5 DEF Counters
    <3>7. GrowthInProgress'
      BY <3>2, <3>3, <3>4, <3>5 DEF GrowthInProgress
    <3>. QED  BY <3>3, <3>5, <3>6, <3>7 DEF CountInv, NoNestedGrow
  <2>2. CASE remaining_elems # 0 /\ BeginProbe(k, v, "put") /\ UNCHANGED <<tableVars, growVars>>
    <3>1. ~ Growing
      BY <1>3 DEF Set, TypeInv, LoopsInBounds
    <3>. QED
      BY <1>1, <1>2, <2>2, <3>1 DEF BeginProbe, CountInv, GrowthInProgress, NoNestedGrow, Growing,
           tableVars, growVars
  <2>. QED  BY <1>3, <2>1, <2>2 DEF Set
<1>4. ASSUME NEW k \in Keys, NEW name \in {"find", "remove", "remove_and_get"},
             Lookup(name, k)
      PROVE  CountInv'
  <2>1. ~ Growing
    BY <1>4 DEF Lookup, TypeInv, LoopsInBounds
  <2>. QED
    BY <1>1, <1>2, <1>4, <2>1 DEF Lookup, BeginProbe, CountInv, GrowthInProgress, NoNestedGrow,
         Growing, tableVars, growVars, probeVars
<1>5. CASE Clear
  <2>1. LiveSlots' = {} /\ UsedSlots' = UsedSlots
    BY <1>5 DEF Clear, LiveSlots, UsedSlots, Slots, IsLive
  <2>2. Counters'
    BY <1>1, <1>5, <2>1, FS_EmptySet DEF Clear, CountInv, Counters
  <2>3. ~ Growing
    BY <1>5 DEF Clear, TypeInv, LoopsInBounds
  <2>. QED
    BY <1>5, <2>2, <2>3 DEF Clear, CountInv, GrowthInProgress, NoNestedGrow, Growing, growVars
<1>6. CASE PutUpdate
  <2>1. Counters'
    BY <1>2, <1>6 DEF PutUpdate
  <2>2. GrowthInProgress'
    <3>1. CASE Growing
      <4>1. /\ OldLive(drain)' = OldLive(drain + 1)
            /\ OldLive(old.table_size)' = OldLive(old.table_size)
            /\ pc' = "grow" /\ UNCHANGED <<remaining_elems, table_size>>
        BY <1>6, <3>1 DEF PutUpdate, PutReturn, EndProbe, OldLive
      <4>2. Capacity(table_size)' = Capacity(table_size)
        BY <4>1
      <4>. QED
        BY <1>1, <1>6, <3>1, <4>1, <4>2, CountMoved DEF PutUpdate, CountInv, GrowthInProgress
    <3>2. CASE ~ Growing
      BY <1>6, <3>2 DEF PutUpdate, PutReturn, CountInv, GrowthInProgress, Growing
    <3>. QED  BY <3>1, <3>2
  <2>. QED
    BY <1>6, <2>1, <2>2 DEF PutUpdate, PutReturn, EndProbe, CountInv, NoNestedGrow
<1>7. CASE PutSwap
  BY <1>1, <1>2, <1>7 DEF PutSwap, Advance, CountInv, GrowthInProgress, NoNestedGrow, Growing,
       OldLive, growVars
<1>8. CASE PutSkip
  BY <1>1, <1>2, <1>8 DEF PutSkip, Advance, CountInv, GrowthInProgress, NoNestedGrow, Growing,
       OldLive, growVars, tableVars
<1>9. CASE PutInsert
  <2>1. /\ index \in 0 .. table_size - 1
        /\ LiveSlots' = LiveSlots \cup {index} /\ index \notin LiveSlots
        /\ UsedSlots' = UsedSlots \cup {index}
        /\ index \in UsedSlots <=> IsReused(tag[index])
    BY <1>9 DEF PutInsert, TypeInv, TypeOK, WellFormed, LiveSlots, UsedSlots, Slots, IsLive,
         IsReused, TagFor, Tags
  <2>2. Cardinality(LiveSlots') = Cardinality(LiveSlots) + 1
    BY <1>1, <2>1, CountOneMore
  <2>3. Cardinality(UsedSlots') = Cardinality(UsedSlots) + SlotsTaken(tag[index])
    <3>1. CASE index \in UsedSlots
      BY <1>1, <2>1, <3>1 DEF SlotsTaken
    <3>2. CASE index \notin UsedSlots
      BY <1>1, <2>1, <3>2, CountOneMore DEF SlotsTaken
    <3>. QED  BY <3>1, <3>2
  <2>4. SlotsTaken(tag[index]) \in {0, 1} /\ Capacity(table_size) \in Int
    BY <1>1 DEF SlotsTaken, Capacity
  <2>5. Counters'
    BY <1>1, <1>9, <2>2, <2>3, <2>4 DEF PutInsert, CountInv, Counters
  <2>6. remaining_elems > 0
    BY <1>9 DEF PutInsert, CountInv, NoNestedGrow
  <2>7. CASE Growing
    <3>1. GrowthInProgress' /\ remaining_elems' > 0
      <4>1. /\ OldLive(drain)' = OldLive(drain + 1)
            /\ OldLive(old.table_size)' = OldLive(old.table_size)
            /\ pc' = "grow" /\ UNCHANGED table_size
            /\ remaining_elems' = remaining_elems - SlotsTaken(tag[index])
        BY <1>9, <2>7 DEF PutInsert, PutReturn, EndProbe, OldLive
      <4>2. Capacity(table_size)' = Capacity(table_size)
        BY <4>1
      <4>. QED
        BY <1>1, <1>9, <2>4, <2>7, <4>1, <4>2, CountMoved
           DEF PutInsert, CountInv, GrowthInProgress
    <3>. QED  BY <2>5, <3>1 DEF CountInv, NoNestedGrow
  <2>8. CASE ~ Growing
    BY <1>1, <1>9, <2>4, <2>5, <2>6, <2>8
       DEF PutInsert, PutReturn, EndProbe, CountInv, GrowthInProgress, NoNestedGrow, Growing
  <2>. QED  BY <2>7, <2>8
<1>10. CASE GrowMove
  BY <1>1, <1>2, <1>10 DEF GrowMove, BeginProbe, CountInv, GrowthInProgress, NoNestedGrow,
       Growing, OldLive, growVars, tableVars, TypeInv, TypeOK
<1>11. CASE GrowSkip
  <2>1. OldLive(drain + 1) = OldLive(drain)
    BY <1>11 DEF GrowSkip, OldLive, TypeInv, TypeOK
  <2>. QED
    BY <1>1, <1>2, <1>11, <2>1 DEF GrowSkip, CountInv, GrowthInProgress, NoNestedGrow, Growing,
         OldLive, tableVars, probeVars
<1>12. CASE GrowDone
  BY <1>1, <1>2, <1>12 DEF GrowDone, BeginProbe, CountInv, GrowthInProgress, NoNestedGrow,
       Growing, NoTable, tableVars
<1>13. ASSUME FindSkip \/ FindFail \/ FindReturn \/ TakeValue
       PROVE  CountInv'
  BY <1>1, <1>2, <1>13
     DEF FindSkip, FindFail, FindReturn, TakeValue, Advance, EndProbe, BeginProbe, CountInv,
         GrowthInProgress, NoNestedGrow, Growing, OldLive, tableVars, growVars
<1>14. CASE RemoveHit
  <2>1. LiveSlots' = LiveSlots \ {index} /\ index \in LiveSlots /\ UsedSlots' = UsedSlots
    BY <1>14 DEF RemoveHit, FindHit, TypeInv, TypeOK, WellFormed, LiveSlots, UsedSlots, Slots,
         IsLive
  <2>2. Cardinality(LiveSlots') = Cardinality(LiveSlots) - 1
    BY <1>1, <2>1, CountOneLess
  <2>3. Counters'
    BY <1>1, <1>14, <2>1, <2>2 DEF RemoveHit, CountInv, Counters
  <2>. QED
    BY <1>14, <2>3 DEF RemoveHit, EndProbe, CountInv, GrowthInProgress, NoNestedGrow, Growing,
         OldLive, growVars
<1>15. CASE UNCHANGED vars
  BY <1>2, <1>15 DEF vars, tableVars, growVars, CountInv, GrowthInProgress, NoNestedGrow,
       Growing, OldLive
<1>. QED
  BY <1>3, <1>4, <1>5, <1>6, <1>7, <1>8, <1>9, <1>10, <1>11, <1>12, <1>13, <1>14, <1>15
     DEF Next, Call, Step, PutStep, GrowStep, FindStep, Find, Remove, RemoveAndGet
LEMMA CountInvariant == Spec => []CountInv
<1>1. Spec => []TypeInv
  BY TypeInit, TypeNext, PTL DEF Spec
<1>. QED  BY <1>1, CountInit, CountNext, PTL DEF Spec

\* The two counters count exactly the live slots, and the slots that may still be
\* used for the first time.
THEOREM CountersExact == Spec => []Counters
<1>1. CountInv => Counters
  BY DEF CountInv
<1>. QED  BY <1>1, CountInvariant, PTL

\* Whenever put_with_hash() is in its loop there is room for one more slot: a put
\* that grow() makes never has to grow the new table.
THEOREM GrowthFindsRoom == Spec => []NoNestedGrow
<1>1. CountInv => NoNestedGrow
  BY DEF CountInv
<1>. QED  BY <1>1, CountInvariant, PTL

\* An allocated table always has a never-used slot: the loops of put_with_hash()
\* and index_of(), which have no bound of their own, meet a slot that ends them.
LEMMA NeverUsedSlot == TypeInv /\ CountInv => ProbesEnd
<1>1. SUFFICES ASSUME TypeInv, CountInv, table_size > 0, UsedSlots = Slots PROVE FALSE
  BY DEF ProbesEnd
<1>2. table_size \in Nat \ {0} /\ remaining_elems \in Int
  BY <1>1 DEF TypeInv, TypeOK
<1>3. Cardinality(UsedSlots) = table_size
  BY <1>1, <1>2, SlotsFinite DEF Slots
<1>4. Capacity(table_size) < table_size /\ Capacity(table_size) \in Nat
  BY <1>2, CapacityBounds
<1>. QED  BY <1>1, <1>2, <1>3, <1>4 DEF CountInv, Counters, GrowthInProgress

THEOREM ProbesMeetAnEnd == Spec => []ProbesEnd
<1>1. Spec => []TypeInv
  BY TypeInit, TypeNext, PTL DEF Spec
<1>. QED  BY <1>1, CountInvariant, NeverUsedSlot, PTL
-----------------------------------------------------------------------------
(* The probe sequences                                                     *)

PathInv == ProbePaths /\ ProbeInProgress /\ SearchedInVain /\ LookupCorrect

LEMMA PathInit == Init => PathInv
  BY DEF Init, PathInv, ProbePaths, ProbeInProgress, SearchedInVain, LookupCorrect, LiveSlots,
         Slots

\* The laws of the probe sequence, for the table as it is.
LEMMA ProbeLaws ==
  ASSUME TypeInv, table_size > 0, NEW k \in Keys
  PROVE  /\ Ideal(table_size, k) \in Slots
         /\ Distance(table_size, k, Ideal(table_size, k)) = 0
         /\ \A i \in Slots :
              /\ Distance(table_size, k, i) \in 0 .. table_size - 1
              /\ NextSlot(table_size, i) \in Slots
              /\ Distance(table_size, k, i) < table_size - 1 =>
                   Distance(table_size, k, NextSlot(table_size, i))
                     = Distance(table_size, k, i) + 1
         /\ \A i, j \in Slots :
              Distance(table_size, k, i) = Distance(table_size, k, j) => i = j
<1>1. table_size \in Nat \ {0}
  BY DEF TypeInv, TypeOK
<1>. QED  BY <1>1, ProbeSequence DEF Slots

\* A probe that is at a used slot, and has passed used slots only, has not been
\* all around the table: the next slot is one farther.
LEMMA ProbeGoesOn ==
  ASSUME TypeInv, CountInv, table_size > 0, NEW k \in Keys, NEW i \in Slots,
         tag[i] # "00", Passed(table_size, tag, first, k, Distance(table_size, k, i))
  PROVE  /\ NextSlot(table_size, i) \in Slots
         /\ Distance(table_size, k, NextSlot(table_size, i)) = Distance(table_size, k, i) + 1
<1>1. table_size \in Nat
  BY DEF TypeInv, TypeOK
<1>2. Distance(table_size, k, i) # table_size - 1
  <2>1. SUFFICES ASSUME Distance(table_size, k, i) = table_size - 1 PROVE FALSE
    OBVIOUS
  <2>2. \A j \in Slots : tag[j] # "00"
    <3>1. TAKE j \in Slots
    <3>2. CASE j = i
      BY <3>2
    <3>3. CASE j # i
      <4>1. Distance(table_size, k, j) < Distance(table_size, k, i)
        BY <1>1, <2>1, <3>3, ProbeLaws
      <4>. QED  BY <4>1 DEF Passed, Slots
    <3>. QED  BY <3>2, <3>3
  <2>3. UsedSlots = Slots
    BY <2>2 DEF UsedSlots
  <2>. QED  BY <2>3, NeverUsedSlot DEF ProbesEnd
<1>. QED  BY <1>1, <1>2, ProbeLaws

\* Nothing has been passed when a probe starts.
LEMMA ProbeStarts ==
  ASSUME TypeInv, table_size > 0, NEW k \in Keys
  PROVE  /\ Passed(table_size, tag, first, k, 0)
         /\ Distance(table_size, k, Ideal(table_size, k)) = 0
<1>1. \A i \in Slots : Distance(table_size, k, i) \in Nat
  BY ProbeLaws DEF TypeInv, TypeOK
<1>. QED  BY <1>1, ProbeLaws DEF Passed, Slots

\* Passing one more slot.
LEMMA PassedOneMore ==
  ASSUME TypeInv, table_size > 0, NEW k \in Keys, NEW i \in Slots,
         Passed(table_size, tag, first, k, Distance(table_size, k, i)),
         tag[i] # "00",
         tag[i] = "10" => Distance(table_size, first[i], i) >= Distance(table_size, k, i)
  PROVE  Passed(table_size, tag, first, k, Distance(table_size, k, i) + 1)
<1>1. SUFFICES ASSUME NEW j \in Slots,
                      Distance(table_size, k, j) < Distance(table_size, k, i) + 1
               PROVE  /\ tag[j] # "00"
                      /\ tag[j] = "10" =>
                            Distance(table_size, first[j], j) >= Distance(table_size, k, j)
  BY DEF Passed, Slots
<1>2. /\ Distance(table_size, k, i) \in Int /\ Distance(table_size, k, j) \in Int
      /\ Distance(table_size, k, i) = Distance(table_size, k, j) => i = j
  BY ProbeLaws DEF TypeInv, TypeOK
<1>3. CASE i = j
  BY <1>3
<1>4. CASE i # j
  BY <1>1, <1>2, <1>4 DEF Passed, Slots
<1>. QED  BY <1>3, <1>4

\* What is known of the slot a loop looks at.
LEMMA AtIndex ==
  ASSUME TypeInv, PathInv, pc \in {"put", "find"}
  PROVE  /\ table_size \in Nat \ {0} /\ index \in Slots /\ key \in Keys
         /\ tag \in [Slots -> Tags] /\ first \in [Slots -> KeyOrNone]
         /\ \A i \in Slots : IsLive(tag[i]) <=> first[i] \in Keys
         /\ \A k \in Keys, i \in Slots : Distance(table_size, k, i) \in 0 .. table_size - 1
         /\ probe_length = Distance(table_size, key, index)
         /\ Passed(table_size, tag, first, key, Distance(table_size, key, index))
         /\ \A j \in LiveSlots : /\ j \in Slots /\ first[j] \in Keys
                                 /\ Passed(table_size, tag, first, first[j],
                                           Distance(table_size, first[j], j))
<1>1. /\ table_size \in Nat \ {0} /\ index \in Slots /\ key \in Keys
      /\ tag \in [Slots -> Tags] /\ first \in [Slots -> KeyOrNone]
      /\ \A i \in Slots : IsLive(tag[i]) <=> first[i] \in Keys
  BY DEF TypeInv, TypeOK, LoopsInBounds, WellFormed, Slots
<1>2. \A k \in Keys, i \in Slots : Distance(table_size, k, i) \in 0 .. table_size - 1
  BY <1>1, ProbeLaws
<1>. QED  BY <1>1, <1>2 DEF PathInv, ProbePaths, ProbeInProgress, LiveSlots

\* A put displaces an element only from a slot that it is farther along to, so
\* no stored key's path is broken.
LEMMA PathsAfterSwap ==
  ASSUME TypeInv, CountInv, PathInv, PutSwap
  PROVE  ProbePaths' /\ ProbeInProgress'
<1>. DEFINE n == table_size
<1>1. PICK f \in Keys, d \in 0 .. n - 1 :
        /\ f = first[index] /\ d = Distance(n, f, index) /\ index \in LiveSlots
        /\ Passed(n, tag, first, f, d)
  BY AtIndex DEF PutSwap, LiveSlots
<1>2. /\ first' = [first EXCEPT ![index] = key] /\ UNCHANGED <<tag, table_size>>
      /\ Slots' = Slots /\ LiveSlots' = LiveSlots
      /\ key' = f /\ index' = NextSlot(n, index) /\ probe_length' = d + 1
      /\ Distance(n, key, index) > d
  BY <1>1, AtIndex DEF PutSwap, Advance, Slots, LiveSlots
<1>3. ASSUME NEW k \in Keys, NEW e \in Int, Passed(n, tag, first, k, e)
      PROVE  Passed(n, tag, first', k, e)
  <2>1. SUFFICES ASSUME NEW i \in Slots, Distance(n, k, i) < e
                 PROVE  /\ tag[i] # "00"
                        /\ tag[i] = "10" => Distance(n, first'[i], i) >= Distance(n, k, i)
    BY DEF Passed, Slots
  <2>2. /\ tag[i] # "00"
        /\ tag[i] = "10" => Distance(n, first[i], i) >= Distance(n, k, i)
    BY <1>3, <2>1 DEF Passed, Slots
  <2>3. CASE i # index
    BY <1>2, <2>2, <2>3, AtIndex DEF PutSwap
  <2>4. CASE i = index
    <3>1. /\ first'[i] = key /\ Distance(n, key, i) \in Int /\ Distance(n, k, i) \in Int
          /\ Distance(n, key, i) > d
      BY <1>2, <2>4, AtIndex DEF PutSwap
    <3>. QED  BY <1>1, <2>2, <2>4, <3>1
  <2>. QED  BY <2>3, <2>4
<1>4. ProbePaths'
  <2>1. SUFFICES ASSUME NEW j \in LiveSlots
                 PROVE  Passed(n, tag, first', first'[j], Distance(n, first'[j], j))
    BY <1>2 DEF ProbePaths
  <2>2. CASE j = index
    <3>1. first'[j] = key /\ key \in Keys /\ Distance(n, key, j) \in Int
      BY <1>2, <2>2, AtIndex DEF PutSwap
    <3>2. Passed(n, tag, first, key, Distance(n, key, j))
      BY <2>2, AtIndex DEF PutSwap
    <3>3. Passed(n, tag, first', key, Distance(n, key, j))
      BY <1>3, <3>1, <3>2
    <3>. QED  BY <3>1, <3>3
  <2>3. CASE j # index
    <3>1. first'[j] = first[j] /\ first[j] \in Keys /\ Distance(n, first[j], j) \in Int
      BY <1>2, <2>3, AtIndex DEF PutSwap
    <3>2. Passed(n, tag, first, first[j], Distance(n, first[j], j))
      BY <2>1, AtIndex DEF PutSwap
    <3>3. Passed(n, tag, first', first[j], Distance(n, first[j], j))
      BY <1>3, <3>1, <3>2
    <3>. QED  BY <3>1, <3>3
  <2>. QED  BY <2>2, <2>3
<1>5. ProbeInProgress'
  <2>1. tag[index] # "00" /\ index \in Slots /\ table_size > 0
    BY <1>1, AtIndex DEF LiveSlots, IsLive, PutSwap
  <2>2. Passed(n, tag, first, f, d + 1)
    BY <1>1, <2>1, PassedOneMore
  <2>3. Passed(n, tag, first', f, d + 1)
    BY <1>3, <2>2
  <2>4. Distance(n, f, NextSlot(n, index)) = d + 1
    BY <1>1, <2>1, ProbeGoesOn
  <2>. QED  BY <1>2, <2>3, <2>4 DEF ProbeInProgress
<1>. QED  BY <1>4, <1>5
\* Storing the key in a slot that was not live breaks no path: no path goes
\* through a never-used slot, and a reused tombstone never ends a search.
LEMMA PathsAfterInsert ==
  ASSUME TypeInv, PathInv, PutInsert
  PROVE  ProbePaths' /\ ProbeInProgress'
<1>. DEFINE n == table_size
<1>1. /\ table_size' = n /\ Slots' = Slots /\ LiveSlots' = LiveSlots \cup {index}
      /\ tag' = [tag EXCEPT ![index] = TagFor(@)]
      /\ first' = [first EXCEPT ![index] = key]
      /\ tag[index] \in {"00", "01"}
      /\ pc' \in {"grow", "idle"}
  BY AtIndex DEF PutInsert, PutReturn, EndProbe, Slots, LiveSlots, TagFor, IsLive, IsReused, Tags
<1>2. ASSUME NEW k \in Keys, NEW e \in Int, Passed(n, tag, first, k, e)
      PROVE  Passed(n, tag', first', k, e)
  <2>1. SUFFICES ASSUME NEW i \in Slots, Distance(n, k, i) < e
                 PROVE  /\ tag'[i] # "00"
                        /\ tag'[i] = "10" => Distance(n, first'[i], i) >= Distance(n, k, i)
    BY DEF Passed, Slots
  <2>2. /\ tag[i] # "00"
        /\ tag[i] = "10" => Distance(n, first[i], i) >= Distance(n, k, i)
    BY <1>2, <2>1 DEF Passed, Slots
  <2>3. CASE i # index
    BY <1>1, <2>2, <2>3, AtIndex DEF PutInsert
  <2>4. CASE i = index
    BY <1>1, <2>2, <2>4, AtIndex DEF PutInsert, TagFor, IsReused
  <2>. QED  BY <2>3, <2>4
<1>3. ProbePaths'
  <2>1. SUFFICES ASSUME NEW j \in LiveSlots \cup {index}
                 PROVE  Passed(n, tag', first', first'[j], Distance(n, first'[j], j))
    BY <1>1 DEF ProbePaths
  <2>2. CASE j = index
    <3>1. /\ first'[j] = key /\ key \in Keys /\ Distance(n, key, j) \in Int
          /\ Passed(n, tag, first, key, Distance(n, key, j))
      BY <1>1, <2>2, AtIndex DEF PutInsert
    <3>2. Passed(n, tag', first', key, Distance(n, key, j))
      BY <1>2, <3>1
    <3>. QED  BY <3>1, <3>2
  <2>3. CASE j # index
    <3>1. /\ first'[j] = first[j] /\ first[j] \in Keys /\ Distance(n, first[j], j) \in Int
          /\ Passed(n, tag, first, first[j], Distance(n, first[j], j))
      BY <1>1, <2>1, <2>3, AtIndex DEF PutInsert
    <3>2. Passed(n, tag', first', first[j], Distance(n, first[j], j))
      BY <1>2, <3>1
    <3>. QED  BY <3>1, <3>2
  <2>. QED  BY <2>1, <2>2, <2>3
<1>. QED  BY <1>1, <1>3 DEF ProbeInProgress

\* Neither does taking elements out and leaving tombstones.
LEMMA PathsWithFewer ==
  ASSUME TypeInv, PathInv, UNCHANGED table_size, LiveSlots' \in SUBSET LiveSlots,
         \A i \in LiveSlots' : first'[i] = first[i],
         \A i \in Slots : /\ tag[i] # "00" => tag'[i] # "00"
                          /\ tag'[i] = "10" => i \in LiveSlots' /\ tag[i] = "10"
  PROVE  ProbePaths'
<1>1. SUFFICES ASSUME NEW j \in LiveSlots', NEW i \in Slots,
                      Distance(table_size, first[j], i) < Distance(table_size, first[j], j)
               PROVE  /\ tag'[i] # "00"
                      /\ tag'[i] = "10" => Distance(table_size, first'[i], i)
                                             >= Distance(table_size, first[j], i)
  BY DEF ProbePaths, Passed, Slots
<1>2. Passed(table_size, tag, first, first[j], Distance(table_size, first[j], j))
  BY <1>1 DEF PathInv, ProbePaths
<1>. QED  BY <1>1, <1>2 DEF Passed, Slots

\* A lookup that gives up has passed every slot where its key could be.
LEMMA GivesUpInVain ==
  ASSUME TypeInv, PathInv, FindFail
  PROVE  \A i \in LiveSlots : first[i] # op.key
<1>. DEFINE n == table_size
<1>1. SUFFICES ASSUME NEW i \in LiveSlots, first[i] = key PROVE FALSE
  BY DEF FindFail, PathInv, SearchedInVain
<1>2. /\ i \in Slots /\ index \in Slots /\ n \in Nat \ {0} /\ key \in Keys
      /\ Distance(n, key, index) \in Int /\ Distance(n, key, i) \in Int
      /\ first[index] \in Keys => Distance(n, first[index], index) \in Int
      /\ probe_length = Distance(n, key, index)
      /\ Passed(n, tag, first, key, Distance(n, key, i))
  BY <1>1, AtIndex DEF FindFail
<1>3. Distance(n, key, i) >= Distance(n, key, index)
  BY <1>1, <1>2 DEF FindFail, PathInv, SearchedInVain
<1>4. CASE Distance(n, key, i) = Distance(n, key, index)
  <2>1. i = index
    BY <1>2, <1>4, ProbeLaws
  <2>. QED  BY <1>1, <2>1 DEF FindFail, FindStop, LiveSlots, IsLive
<1>5. CASE Distance(n, key, i) > Distance(n, key, index)
  <2>1. /\ tag[index] # "00"
        /\ tag[index] = "10" => Distance(n, first[index], index) >= Distance(n, key, index)
    BY <1>2, <1>5 DEF Passed, Slots
  <2>2. tag[index] = "10" /\ probe_length > Distance(n, first[index], index)
    BY <2>1 DEF FindFail, FindStop
  <2>3. first[index] \in Keys
    BY <2>2, <1>2, AtIndex DEF FindFail, IsLive
  <2>. QED  BY <1>2, <2>1, <2>2, <2>3
<1>. QED  BY <1>2, <1>3, <1>4, <1>5
\* A probe that starts is at its key's ideal slot and has passed nothing.
LEMMA PathsAfterStart ==
  ASSUME TypeInv, PathInv, UNCHANGED tableVars, table_size > 0,
         NEW k \in Keys, NEW v, NEW loop \in {"put", "find"}, BeginProbe(k, v, loop),
         loop = "find" => op'.key = k
  PROVE  PathInv'
<1>1. /\ Slots' = Slots /\ LiveSlots' = LiveSlots
      /\ table_size' = table_size /\ tag' = tag /\ first' = first
      /\ key' = k /\ index' = Ideal(table_size, k) /\ probe_length' = 0
      /\ pc' = loop /\ pc' # "idle"
  BY DEF BeginProbe, tableVars, Slots, LiveSlots
<1>2. ProbePaths'
  BY <1>1 DEF PathInv, ProbePaths
<1>3. ProbeInProgress'
  BY <1>1, ProbeStarts DEF ProbeInProgress
<1>4. SearchedInVain'
  <2>1. \A i \in Slots : ~ (Distance(table_size, k, i) < 0)
    BY ProbeLaws DEF TypeInv, TypeOK
  <2>2. \A i \in LiveSlots : i \in Slots
    BY DEF LiveSlots
  <2>. QED  BY <1>1, <2>1, <2>2 DEF SearchedInVain
<1>. QED  BY <1>1, <1>2, <1>3, <1>4 DEF PathInv, LookupCorrect

\* When no loop that looks at the table runs, and the table is as it was, only
\* the answer of a lookup is left to say something of.
LEMMA PathsAtRest ==
  ASSUME PathInv, UNCHANGED tableVars, pc' \in {"idle", "grow"}, LookupCorrect'
  PROVE  PathInv'
  BY DEF PathInv, ProbePaths, ProbeInProgress, SearchedInVain, tableVars, Slots, LiveSlots

\* The two loops go on to the next slot.
LEMMA PathsAfterSkip ==
  ASSUME TypeInv, CountInv, PathInv, PutSkip \/ FindSkip
  PROVE  PathInv'
<1>. DEFINE n == table_size
<1>1. PICK d \in 0 .. n - 1 : d = Distance(n, key, index)
  BY AtIndex DEF PutSkip, FindSkip
<1>2. /\ UNCHANGED <<table_size, tag, first, key, pc, op>>
      /\ Slots' = Slots /\ LiveSlots' = LiveSlots
      /\ index' = NextSlot(n, index) /\ probe_length' = d + 1
      /\ pc' # "idle"
  BY <1>1, AtIndex DEF PutSkip, FindSkip, Advance, tableVars, Slots, LiveSlots
<1>3. /\ n > 0 /\ index \in Slots /\ key \in Keys /\ probe_length = d
      /\ Passed(n, tag, first, key, d)
  BY <1>1, AtIndex DEF PutSkip, FindSkip
<1>4. /\ tag[index] # "00"
      /\ tag[index] = "10" => Distance(n, first[index], index) >= d
  <2>1. tag[index] = "10" => Distance(n, first[index], index) \in Int
    BY <1>3, AtIndex DEF PutSkip, FindSkip, IsLive
  <2>. QED  BY <1>3, <2>1 DEF PutSkip, FindSkip, FindHit, FindStop, IsLive
<1>5. Passed(n, tag, first, key, d + 1)
  BY <1>1, <1>3, <1>4, PassedOneMore
<1>6. Distance(n, key, NextSlot(n, index)) = d + 1
  BY <1>1, <1>3, <1>4, ProbeGoesOn
<1>7. ProbeInProgress'
  BY <1>2, <1>5, <1>6 DEF ProbeInProgress
<1>8. ProbePaths'
  BY <1>2 DEF PathInv, ProbePaths
<1>9. SearchedInVain'
  <2>1. SUFFICES ASSUME pc = "find", NEW i \in LiveSlots, Distance(n, key, i) < d + 1
                 PROVE  key = op.key /\ first[i] # key
    BY <1>2 DEF SearchedInVain, PathInv
  <2>2. i \in Slots /\ Distance(n, key, i) \in Int
    BY <1>3, AtIndex DEF PutSkip, FindSkip, LiveSlots
  <2>3. CASE i = index
    BY <2>1, <2>3 DEF PutSkip, FindSkip, FindHit, LiveSlots, PathInv, SearchedInVain
  <2>4. CASE i # index
    <3>1. Distance(n, key, i) < d
      BY <1>1, <1>3, <2>1, <2>2, <2>4, ProbeLaws
    <3>. QED  BY <1>3, <2>1, <3>1 DEF PathInv, SearchedInVain
  <2>. QED  BY <2>3, <2>4
<1>. QED  BY <1>2, <1>7, <1>8, <1>9 DEF PathInv, LookupCorrect
LEMMA PathNext == TypeInv /\ CountInv /\ PathInv /\ [Next]_vars => PathInv'
<1>. SUFFICES ASSUME TypeInv, CountInv, PathInv, [Next]_vars PROVE PathInv'
  OBVIOUS
<1>2. ASSUME NEW k \in Keys, NEW v \in Values, Set(k, v)
      PROVE  PathInv'
  <2>1. CASE remaining_elems = 0 /\ BeginGrow
    <3>1. pc' = "grow" /\ LiveSlots' = {}
      BY <2>1 DEF BeginGrow, EmptyTags, LiveSlots, Slots, IsLive
    <3>. QED  BY <3>1 DEF PathInv, ProbePaths, ProbeInProgress, SearchedInVain, LookupCorrect
  <2>2. CASE remaining_elems # 0 /\ BeginProbe(k, v, "put") /\ UNCHANGED <<tableVars, growVars>>
    <3>1. table_size > 0
      BY <2>2 DEF TypeInv, TypeOK, LoopsInBounds
    <3>. QED  BY <2>2, <3>1, PathsAfterStart
  <2>. QED  BY <1>2, <2>1, <2>2 DEF Set
<1>3. ASSUME NEW k \in Keys, NEW name \in {"find", "remove", "remove_and_get"},
             Lookup(name, k)
      PROVE  PathInv'
  <2>1. CASE table_size = 0
    <3>1. LiveSlots = {}
      BY <2>1 DEF LiveSlots, Slots
    <3>2. pc' = "idle" /\ ret' = NoValue /\ UNCHANGED tableVars
      BY <1>3, <2>1 DEF Lookup
    <3>3. LookupCorrect'
      BY <3>1, <3>2 DEF LookupCorrect, LiveSlots, tableVars, Slots
    <3>. QED  BY <3>2, <3>3, PathsAtRest
  <2>2. CASE table_size # 0
    <3>1. /\ BeginProbe(k, NoValue, "find") /\ UNCHANGED tableVars /\ op'.key = k
          /\ table_size > 0
      BY <1>3, <2>2 DEF Lookup, TypeInv, TypeOK
    <3>. QED  BY <3>1, PathsAfterStart
  <2>. QED  BY <2>1, <2>2
<1>4. CASE Clear
  <2>1. ProbePaths'
    <3>1. /\ table_size' = table_size /\ Slots' = Slots /\ LiveSlots' = {}
          /\ \A i \in Slots : tag'[i] = IF IsLive(tag[i]) THEN "01" ELSE tag[i]
      BY <1>4 DEF Clear, Slots, LiveSlots, IsLive
    <3>. QED  BY <3>1 DEF ProbePaths
  <2>. QED
    BY <1>4, <2>1 DEF Clear, PathInv, ProbeInProgress, SearchedInVain, LookupCorrect
<1>5. CASE PutUpdate
  <2>1. /\ pc' \in {"grow", "idle"} /\ op' = op /\ op.name = "set"
        /\ UNCHANGED <<table_size, tag, first>>
    BY <1>5 DEF PutUpdate, PutReturn, EndProbe, TypeInv, LoopsInBounds
  <2>2. ProbePaths'
    BY <2>1 DEF PathInv, ProbePaths, Slots, LiveSlots
  <2>. QED  BY <2>1, <2>2 DEF PathInv, ProbeInProgress, SearchedInVain, LookupCorrect
<1>6. CASE PutSwap
  <2>1. pc' = "put"
    BY <1>6 DEF PutSwap, Advance
  <2>. QED
    BY <1>6, <2>1, PathsAfterSwap DEF PathInv, SearchedInVain, LookupCorrect
<1>7. CASE PutSkip \/ FindSkip
  BY <1>7, PathsAfterSkip
<1>8. CASE PutInsert
  <2>1. pc' \in {"grow", "idle"} /\ op' = op /\ op.name = "set"
    BY <1>8 DEF PutInsert, PutReturn, EndProbe, TypeInv, LoopsInBounds
  <2>. QED
    BY <1>8, <2>1, PathsAfterInsert DEF PathInv, SearchedInVain, LookupCorrect
<1>9. CASE GrowMove
  <2>1. drain \in 0 .. old.table_size - 1
    BY <1>9 DEF GrowMove, TypeInv, TypeOK
  <2>2. old.first[drain] \in Keys /\ table_size > 0
    BY <1>9, <2>1 DEF GrowMove, TypeInv, TypeOK, LoopsInBounds, WellFormed
  <2>3. BeginProbe(old.first[drain], old.second[drain], "put") /\ UNCHANGED tableVars
    BY <1>9 DEF GrowMove
  <2>. QED  BY <2>2, <2>3, PathsAfterStart
<1>10. CASE GrowSkip
  <2>1. UNCHANGED tableVars /\ pc' = "grow"
    BY <1>10 DEF GrowSkip
  <2>. QED  BY <2>1, PathsAtRest DEF LookupCorrect
<1>11. CASE GrowDone
  <2>1. /\ BeginProbe(op.key, op.value, "put") /\ UNCHANGED tableVars
        /\ op.key \in Keys /\ table_size > 0
    BY <1>11 DEF GrowDone, TypeInv, TypeOK, LoopsInBounds
  <2>. QED  BY <2>1, PathsAfterStart
<1>12. CASE FindFail
  <2>1. UNCHANGED tableVars /\ pc' = "idle" /\ op' = op /\ ret' = NoValue
    BY <1>12 DEF FindFail, EndProbe
  <2>2. LookupCorrect'
    BY <1>12, <2>1, GivesUpInVain DEF LookupCorrect, LiveSlots, tableVars, Slots
  <2>. QED  BY <2>1, <2>2, PathsAtRest
<1>13. CASE FindReturn
  <2>1. UNCHANGED tableVars /\ pc' = "idle" /\ op' = op /\ ret' = second[index]
    BY <1>13 DEF FindReturn, EndProbe
  <2>2. index \in LiveSlots /\ first[index] = op.key /\ second[index] \in Values
    <3>1. index \in Slots /\ IsLive(tag[index]) /\ first[index] = key
      BY <1>13 DEF FindReturn, FindHit, TypeInv, TypeOK
    <3>2. second[index] \in Values
      BY <3>1 DEF TypeInv, TypeOK, WellFormed, Slots
    <3>. QED  BY <1>13, <3>1, <3>2 DEF FindReturn, LiveSlots, PathInv, SearchedInVain
  <2>3. LookupCorrect'
    BY <2>1, <2>2, HashTableAssumption DEF LookupCorrect, LiveSlots, tableVars, Slots
  <2>. QED  BY <2>1, <2>3, PathsAtRest
<1>14. CASE TakeValue
  <2>1. /\ BeginProbe(op.key, NoValue, "find") /\ UNCHANGED tableVars
        /\ op.key \in Keys /\ op'.key = op.key /\ table_size > 0
    BY <1>14 DEF TakeValue, TypeInv, TypeOK, LoopsInBounds
  <2>. QED  BY <2>1, PathsAfterStart
<1>15. CASE RemoveHit
  <2>1. /\ pc' = "idle" /\ op' = op /\ op.name # "find" /\ table_size' = table_size
        /\ index \in Slots
        /\ tag' = [tag EXCEPT ![index] = "01"] /\ first' = [first EXCEPT ![index] = NoKey]
        /\ Slots' = Slots
    BY <1>15 DEF RemoveHit, EndProbe, Slots, TypeInv, TypeOK
  <2>2. /\ LiveSlots' = LiveSlots \ {index}
        /\ \A i \in Slots : i # index => tag'[i] = tag[i] /\ first'[i] = first[i]
        /\ tag'[index] = "01"
    BY <2>1 DEF LiveSlots, IsLive, TypeInv, TypeOK, WellFormed, Slots
  <2>3. ProbePaths'
    <3>1. LiveSlots' \in SUBSET LiveSlots /\ \A i \in LiveSlots' : first'[i] = first[i]
      BY <2>2 DEF LiveSlots
    <3>2. \A i \in Slots : /\ tag[i] # "00" => tag'[i] # "00"
                           /\ tag'[i] = "10" => i \in LiveSlots' /\ tag[i] = "10"
      BY <2>2 DEF LiveSlots, IsLive
    <3>. QED  BY <2>1, <3>1, <3>2, PathsWithFewer
  <2>. QED  BY <2>1, <2>3 DEF PathInv, ProbeInProgress, SearchedInVain, LookupCorrect
<1>16. CASE UNCHANGED vars
  BY <1>16 DEF vars, tableVars, growVars, probeVars, PathInv, ProbePaths,
       ProbeInProgress, SearchedInVain, LookupCorrect, Slots, LiveSlots
<1>. QED
  BY <1>2, <1>3, <1>4, <1>5, <1>6, <1>7, <1>8, <1>9, <1>10, <1>11, <1>12, <1>13, <1>14,
     <1>15, <1>16
     DEF Next, Call, Step, PutStep, GrowStep, FindStep, Find, Remove, RemoveAndGet

LEMMA PathInvariant == Spec => []PathInv
<1>1. Spec => []TypeInv
  BY TypeInit, TypeNext, PTL DEF Spec
<1>. QED  BY <1>1, CountInvariant, PathInit, PathNext, PTL DEF Spec

\* No displacement, removal, reuse of a tombstone or growth ever puts something
\* that ends a search between the ideal slot of a stored key and its slot.
THEOREM PathsAreKept == Spec => []ProbePaths
<1>1. PathInv => ProbePaths
  BY DEF PathInv
<1>. QED  BY <1>1, PathInvariant, PTL

\* probe_length is the distance of the slot that the loop looks at, around the
\* end of the table too, and everything passed would have let the probe pass.
THEOREM ProbesAreTrue == Spec => []ProbeInProgress
<1>1. PathInv => ProbeInProgress
  BY DEF PathInv
<1>. QED  BY <1>1, PathInvariant, PTL

\* The early return of index_of() is right: a lookup that finds nothing has been
\* asked for a key that no slot holds, and one that finds a value has found one
\* that is stored with the key.
THEOREM LookupsAreCorrect == Spec => []LookupCorrect
<1>1. PathInv => LookupCorrect
  BY DEF PathInv
<1>. QED  BY <1>1, PathInvariant, PTL

-----------------------------------------------------------------------------
(* What is stored: set() leaves its pair where a lookup finds it, and no   *)
(* displacement or growth loses a key.                                     *)
(*                                                                         *)
(* Both are about an element on its way: the put that was asked to store   *)
(* it may long be carrying another one.  PairOnItsWay, the invariant added *)
(* here to those above, follows it through the loop.                       *)

\* The pair that the running put_with_hash() was called with: the client's, or
\* inside grow() the one in the slot of the old table that is being moved.
AskedKey   == IF Growing THEN old.first[drain]  ELSE op.key
AskedValue == IF Growing THEN old.second[drain] ELSE op.value

\* Slot i holds the pair, and no copy of the key is nearer to its ideal slot.
IsFirstCopy(i, k, v) ==
  /\ i \in LiveSlots /\ first[i] = k /\ second[i] = v
  /\ \A j \in LiveSlots :
        first[j] = k => Distance(table_size, k, i) <= Distance(table_size, k, j)

\* The put has come from the ideal slot of the key it was asked for to index,
\* over used slots only.
WalkedFrom(k) ==
  \A j \in Slots :
    Distance(table_size, k, j) < Distance(table_size, k, index) => tag[j] # "00"

\* It carries the pair and has not passed a copy of the key ...
CarriesPair(k, v) ==
  /\ key = k /\ value = v
  /\ \A j \in LiveSlots :
        first[j] = k => Distance(table_size, k, j) >= Distance(table_size, k, index)

\* ... or has put it down in a slot that it will not come back to.
PutDownPair(k, v) ==
  \E i \in LiveSlots : /\ IsFirstCopy(i, k, v)
                       /\ Distance(table_size, k, i) < Distance(table_size, k, index)

PairOnItsWay ==
  pc = "put" => /\ WalkedFrom(AskedKey)
                /\ CarriesPair(AskedKey, AskedValue) \/ PutDownPair(AskedKey, AskedValue)

\* A lookup is no call of set().
FindIsNoSet == pc = "find" => op.name # "set"

StoreInv == PairOnItsWay /\ FindIsNoSet /\ SetStores

\* The three layers above.
TableInv == TypeInv /\ CountInv /\ PathInv

-----------------------------------------------------------------------------
LEMMA StoreInit == Init => StoreInv
  BY DEF Init, StoreInv, PairOnItsWay, FindIsNoSet, SetStores

\* What is known of the pair asked for, and of the table, while a put runs.
LEMMA WhileItRuns ==
  ASSUME TableInv, StoreInv, pc = "put"
  PROVE  /\ table_size \in Nat /\ table_size > 0 /\ index \in Slots /\ key \in Keys
         /\ AskedKey \in Keys /\ WalkedFrom(AskedKey)
         /\ CarriesPair(AskedKey, AskedValue) \/ PutDownPair(AskedKey, AskedValue)
         /\ \A i \in LiveSlots : i \in Slots
         /\ \A k \in Keys, i \in Slots : Distance(table_size, k, i) \in 0 .. table_size - 1
         /\ \A k \in Keys, i, j \in Slots :
               Distance(table_size, k, i) = Distance(table_size, k, j) => i = j
         /\ tag \in [Slots -> Tags] /\ first \in [Slots -> KeyOrNone]
         /\ second \in [Slots -> ValueOrNone]
<1>1. /\ table_size \in Nat /\ table_size > 0 /\ index \in Slots /\ key \in Keys
      /\ tag \in [Slots -> Tags] /\ first \in [Slots -> KeyOrNone]
      /\ second \in [Slots -> ValueOrNone] /\ op.key \in Keys
  BY DEF TableInv, TypeInv, TypeOK, LoopsInBounds, WellFormed, Slots
<1>2. AskedKey \in Keys
  <2>1. CASE Growing
    <3>1. drain \in OldLive(old.table_size)
      BY <2>1 DEF TableInv, CountInv, GrowthInProgress
    <3>2. old.first[drain] \in Keys
      BY <3>1 DEF OldLive, TableInv, TypeInv, TypeOK, WellFormed
    <3>. QED  BY <2>1, <3>2 DEF AskedKey
  <2>2. CASE ~ Growing
    BY <1>1, <2>2 DEF AskedKey
  <2>. QED  BY <2>1, <2>2
<1>3. /\ \A k \in Keys, i \in Slots : Distance(table_size, k, i) \in 0 .. table_size - 1
      /\ \A k \in Keys, i, j \in Slots :
            Distance(table_size, k, i) = Distance(table_size, k, j) => i = j
  BY <1>1, ProbeLaws DEF TableInv
<1>4. \A i \in LiveSlots : i \in Slots
  BY DEF LiveSlots
<1>. QED  BY <1>1, <1>2, <1>3, <1>4 DEF StoreInv, PairOnItsWay

\* Used slots do not reach all around the table: the next slot is one farther.
LEMMA WalkGoesOn ==
  ASSUME TypeInv, CountInv, table_size > 0, NEW k \in Keys, NEW i \in Slots, tag[i] # "00",
         \A j \in Slots :
            Distance(table_size, k, j) < Distance(table_size, k, i) => tag[j] # "00"
  PROVE  /\ NextSlot(table_size, i) \in Slots
         /\ Distance(table_size, k, NextSlot(table_size, i)) = Distance(table_size, k, i) + 1
<1>1. table_size \in Nat
  BY DEF TypeInv, TypeOK
<1>2. Distance(table_size, k, i) # table_size - 1
  <2>1. SUFFICES ASSUME Distance(table_size, k, i) = table_size - 1 PROVE FALSE
    OBVIOUS
  <2>2. \A j \in Slots : tag[j] # "00"
    <3>1. TAKE j \in Slots
    <3>2. CASE j = i
      BY <3>2
    <3>3. CASE j # i
      <4>1. Distance(table_size, k, j) < Distance(table_size, k, i)
        BY <1>1, <2>1, <3>3, ProbeLaws
      <4>. QED  BY <4>1
    <3>. QED  BY <3>2, <3>3
  <2>3. UsedSlots = Slots
    BY <2>2 DEF UsedSlots
  <2>. QED  BY <2>3, NeverUsedSlot DEF ProbesEnd
<1>. QED  BY <1>1, <1>2, ProbeLaws

\* The put goes on to the next slot with or without a displaced element; the
\* pair asked for stays carried, is put down, or stays where it was put down.
LEMMA OnItsWayFurther ==
  ASSUME TableInv, StoreInv, PutSkip \/ PutSwap
  PROVE  PairOnItsWay'
<1>. DEFINE n == table_size
            a == AskedKey
            v == AskedValue
            d(i) == Distance(n, a, i)
<1>1. pc = "put" /\ IsLive(tag[index]) /\ first[index] # key /\ index \in LiveSlots
  BY WhileItRuns DEF PutSkip, PutSwap, LiveSlots
<1>2. /\ pc' = "put" /\ UNCHANGED <<table_size, tag, old, drain, op>>
      /\ Slots' = Slots /\ LiveSlots' = LiveSlots /\ index' = NextSlot(n, index)
      /\ AskedKey' = a /\ AskedValue' = v
  BY <1>1 DEF PutSkip, PutSwap, Advance, tableVars, growVars, Slots, LiveSlots, AskedKey,
              AskedValue, Growing
<1>3. /\ index \in Slots /\ a \in Keys /\ key \in Keys /\ n > 0 /\ WalkedFrom(a)
      /\ \A i \in Slots : d(i) \in Int
      /\ \A i, j \in Slots : d(i) = d(j) => i = j
      /\ \A i \in LiveSlots : i \in Slots
  BY <1>1, WhileItRuns
<1>4. tag[index] # "00"
  BY <1>1 DEF IsLive
<1>5. NextSlot(n, index) \in Slots /\ d(NextSlot(n, index)) = d(index) + 1
  BY <1>3, <1>4, WalkGoesOn DEF WalkedFrom, TableInv
<1>. HIDE DEF d
<1>6. WalkedFrom(AskedKey)'
  <2>1. \A j \in Slots : d(j) < d(index) + 1 => tag[j] # "00"
    <3>1. TAKE j \in Slots
    <3>2. j = index \/ d(j) # d(index)
      BY <1>3
    <3>. QED  BY <1>3, <1>4, <3>2 DEF WalkedFrom, d
  <2>. QED  BY <1>2, <1>5, <2>1 DEF WalkedFrom, d
<1>7. CASE PutSkip
  <2>1. UNCHANGED <<first, second, key, value>>
    BY <1>7 DEF PutSkip, Advance, tableVars
  <2>2. CASE CarriesPair(a, v)
    <3>1. \A j \in LiveSlots : first[j] = a => d(j) >= d(index) + 1
      <4>1. SUFFICES ASSUME NEW j \in LiveSlots, first[j] = a PROVE d(j) >= d(index) + 1
        OBVIOUS
      <4>2. d(j) >= d(index) /\ j # index
        BY <1>1, <2>2, <4>1 DEF CarriesPair, d
      <4>. QED  BY <1>3, <4>2
    <3>2. CarriesPair(AskedKey, AskedValue)'
      BY <1>2, <1>5, <2>1, <2>2, <3>1 DEF CarriesPair, d
    <3>. QED  BY <1>6, <3>2 DEF PairOnItsWay
  <2>3. CASE PutDownPair(a, v)
    <3>1. PICK i \in LiveSlots : IsFirstCopy(i, a, v) /\ d(i) < d(index)
      BY <2>3 DEF PutDownPair, d
    <3>2. d(i) < d(index) + 1
      BY <1>3, <3>1
    <3>3. IsFirstCopy(i, AskedKey, AskedValue)'
      BY <1>2, <2>1, <3>1 DEF IsFirstCopy
    <3>4. PutDownPair(AskedKey, AskedValue)'
      BY <1>2, <1>5, <3>2, <3>3 DEF PutDownPair, d
    <3>. QED  BY <1>6, <3>4 DEF PairOnItsWay
  <2>. QED  BY <1>1, <2>2, <2>3, WhileItRuns
<1>8. CASE PutSwap
  <2>1. /\ first' = [first EXCEPT ![index] = key] /\ second' = [second EXCEPT ![index] = value]
        /\ first \in [Slots -> KeyOrNone] /\ second \in [Slots -> ValueOrNone]
    BY <1>1, <1>8, WhileItRuns DEF PutSwap
  <2>2. \A j \in LiveSlots : j # index => first'[j] = first[j] /\ second'[j] = second[j]
    BY <1>3, <2>1
  <2>3. first'[index] = key /\ second'[index] = value
    BY <1>3, <2>1
  <2>4. PICK i \in LiveSlots :
          /\ first'[i] = a /\ second'[i] = v /\ d(i) < d(index) + 1
          /\ \A j \in LiveSlots : first'[j] = a => d(i) <= d(j)
    <3>1. CASE CarriesPair(a, v)
      <4>1. first'[index] = a /\ second'[index] = v
        BY <2>3, <3>1 DEF CarriesPair
      <4>2. \A j \in LiveSlots : first'[j] = a => d(index) <= d(j)
        <5>1. TAKE j \in LiveSlots
        <5>2. CASE j = index
          BY <1>3, <5>2
        <5>3. CASE j # index
          BY <1>3, <2>2, <3>1, <5>3 DEF CarriesPair, d
        <5>. QED  BY <5>2, <5>3
      <4>3. d(index) < d(index) + 1
        BY <1>3
      <4>. QED  BY <1>1, <4>1, <4>2, <4>3
    <3>2. CASE PutDownPair(a, v)
      <4>1. PICK i \in LiveSlots : IsFirstCopy(i, a, v) /\ d(i) < d(index)
        BY <3>2 DEF PutDownPair, d
      <4>2. i # index /\ d(i) < d(index) + 1
        BY <1>3, <4>1
      <4>3. first'[i] = a /\ second'[i] = v
        BY <2>2, <4>1, <4>2 DEF IsFirstCopy
      <4>4. \A j \in LiveSlots : first'[j] = a => d(i) <= d(j)
        <5>1. TAKE j \in LiveSlots
        <5>2. CASE j = index
          BY <1>3, <4>1, <5>2
        <5>3. CASE j # index
          BY <2>2, <4>1, <5>3 DEF IsFirstCopy, d
        <5>. QED  BY <5>2, <5>3
      <4>. QED  BY <4>2, <4>3, <4>4
    <3>. QED  BY <1>1, <3>1, <3>2, WhileItRuns
  <2>5. PutDownPair(AskedKey, AskedValue)'
    BY <1>2, <1>5, <2>4 DEF PutDownPair, IsFirstCopy, d
  <2>. QED  BY <1>6, <2>5 DEF PairOnItsWay
<1>. QED  BY <1>7, <1>8

\* When put_with_hash() returns, the pair it was asked to store is stored.
LEMMA PutStores ==
  ASSUME TableInv, StoreInv, PutUpdate \/ PutInsert
  PROVE  /\ Slots' = Slots /\ LiveSlots \in SUBSET LiveSlots'
         /\ \A j \in LiveSlots : first'[j] = first[j]
         /\ index \in LiveSlots' /\ first'[index] = key
         /\ \E i \in LiveSlots' :
              /\ first'[i] = AskedKey /\ second'[i] = AskedValue
              /\ \A j \in LiveSlots' :
                    first'[j] = AskedKey =>
                      Distance(table_size, AskedKey, i) <= Distance(table_size, AskedKey, j)
<1>. DEFINE n == table_size
            a == AskedKey
            v == AskedValue
            d(i) == Distance(n, a, i)
<1>1. pc = "put"
  BY DEF PutUpdate, PutInsert
<1>2. /\ index \in Slots /\ a \in Keys
      /\ \A i \in Slots : d(i) \in Int
      /\ \A i \in LiveSlots : i \in Slots
      /\ first \in [Slots -> KeyOrNone] /\ second \in [Slots -> ValueOrNone]
      /\ tag \in [Slots -> Tags]
  BY <1>1, WhileItRuns
<1>. HIDE DEF d
<1>3. /\ Slots' = Slots /\ LiveSlots' = LiveSlots \cup {index}
      /\ first'[index] = key /\ second'[index] = value
      /\ \A j \in LiveSlots : first'[j] = first[j]
      /\ \A j \in LiveSlots : j # index => second'[j] = second[j]
  <2>1. CASE PutUpdate
    BY <1>2, <2>1 DEF PutUpdate, Slots, LiveSlots
  <2>2. CASE PutInsert
    <3>1. /\ tag' = [tag EXCEPT ![index] = TagFor(@)] /\ IsLive(TagFor(tag[index]))
          /\ first' = [first EXCEPT ![index] = key] /\ index \notin LiveSlots
          /\ second' = [second EXCEPT ![index] = value] /\ Slots' = Slots
      BY <2>2 DEF PutInsert, TagFor, IsLive, Slots, LiveSlots
    <3>2. LiveSlots' = LiveSlots \cup {index}
      BY <1>2, <3>1 DEF LiveSlots
    <3>. QED  BY <1>2, <3>1, <3>2
  <2>. QED  BY <2>1, <2>2
<1>4. PICK i \in LiveSlots' :
        /\ first'[i] = a /\ second'[i] = v
        /\ \A j \in LiveSlots' : first'[j] = a => d(i) <= d(j)
  <2>1. CASE CarriesPair(a, v)
    <3>1. first'[index] = a /\ second'[index] = v /\ index \in LiveSlots'
      BY <1>3, <2>1 DEF CarriesPair
    <3>2. \A j \in LiveSlots' : first'[j] = a => d(index) <= d(j)
      <4>1. TAKE j \in LiveSlots'
      <4>2. CASE j = index
        BY <1>2, <4>2
      <4>3. CASE j # index
        BY <1>2, <1>3, <2>1, <4>3 DEF CarriesPair, d
      <4>. QED  BY <4>2, <4>3
    <3>. QED  BY <3>1, <3>2
  <2>2. CASE PutDownPair(a, v)
    <3>1. PICK i \in LiveSlots : IsFirstCopy(i, a, v) /\ d(i) < d(index)
      BY <2>2 DEF PutDownPair, d
    <3>2. i # index
      BY <1>2, <3>1
    <3>3. first'[i] = a /\ second'[i] = v /\ i \in LiveSlots'
      BY <1>3, <3>1, <3>2 DEF IsFirstCopy
    <3>4. \A j \in LiveSlots' : first'[j] = a => d(i) <= d(j)
      <4>1. TAKE j \in LiveSlots'
      <4>2. CASE j = index
        BY <1>2, <3>1, <4>2
      <4>3. CASE j # index
        BY <1>3, <3>1, <4>3 DEF IsFirstCopy, d
      <4>. QED  BY <4>2, <4>3
    <3>. QED  BY <3>3, <3>4
  <2>. QED  BY <1>1, <2>1, <2>2, WhileItRuns
<1>. QED  BY <1>3, <1>4 DEF d

\* A put that starts has passed nothing and carries the pair it was called with.
LEMMA ItStarts ==
  ASSUME TypeInv, UNCHANGED tableVars, table_size > 0, NEW k \in Keys, NEW v,
         BeginProbe(k, v, "put"), AskedKey' = k, AskedValue' = v
  PROVE  PairOnItsWay'
<1>1. /\ table_size \in Nat /\ Ideal(table_size, k) \in Slots
      /\ Distance(table_size, k, Ideal(table_size, k)) = 0
      /\ \A j \in Slots : Distance(table_size, k, j) \in Nat
  BY ProbeLaws DEF TypeInv, TypeOK
<1>2. /\ Slots' = Slots /\ LiveSlots' = LiveSlots
      /\ table_size' = table_size /\ tag' = tag /\ first' = first
      /\ key' = k /\ value' = v /\ index' = Ideal(table_size, k)
  BY DEF BeginProbe, tableVars, Slots, LiveSlots
<1>3. WalkedFrom(k)'
  BY <1>1, <1>2 DEF WalkedFrom
<1>4. CarriesPair(k, v)'
  BY <1>1, <1>2 DEF CarriesPair, LiveSlots
<1>. QED  BY <1>3, <1>4 DEF PairOnItsWay

LEMMA StoreNext == TableInv /\ StoreInv /\ [Next]_vars => StoreInv'
<1>. SUFFICES ASSUME TableInv, StoreInv, [Next]_vars PROVE StoreInv'
  OBVIOUS
<1>1. TypeInv /\ PathInv
  BY DEF TableInv
<1>2. ASSUME NEW k \in Keys, NEW v \in Values, Set(k, v)
      PROVE  StoreInv'
  <2>1. CASE remaining_elems = 0 /\ BeginGrow
    BY <2>1 DEF BeginGrow, StoreInv, PairOnItsWay, FindIsNoSet, SetStores
  <2>2. CASE remaining_elems # 0 /\ BeginProbe(k, v, "put") /\ UNCHANGED <<tableVars, growVars>>
    <3>1. table_size > 0
      BY <1>1, <2>2 DEF TypeInv, TypeOK, LoopsInBounds
    <3>2. ~ Growing'
      BY <1>1, <1>2, <2>2 DEF Set, TypeInv, LoopsInBounds, Growing, growVars
    <3>3. AskedKey' = k /\ AskedValue' = v
      BY <1>2, <3>2 DEF Set, AskedKey, AskedValue
    <3>4. PairOnItsWay'
      BY <1>1, <2>2, <3>1, <3>3, ItStarts
    <3>. QED  BY <2>2, <3>4 DEF BeginProbe, StoreInv, FindIsNoSet, SetStores
  <2>. QED  BY <1>2, <2>1, <2>2 DEF Set
<1>3. ASSUME NEW k \in Keys, NEW name \in {"find", "remove", "remove_and_get"},
             Lookup(name, k)
      PROVE  StoreInv'
  BY <1>3 DEF Lookup, BeginProbe, StoreInv, PairOnItsWay, FindIsNoSet, SetStores
<1>4. CASE Clear
  BY <1>4 DEF Clear, StoreInv, PairOnItsWay, FindIsNoSet, SetStores
<1>5. CASE PutSkip \/ PutSwap
  BY <1>5, OnItsWayFurther
     DEF PutSkip, PutSwap, Advance, StoreInv, FindIsNoSet, SetStores
<1>6. CASE PutUpdate \/ PutInsert
  <2>1. pc' \in {"grow", "idle"} /\ op' = op /\ table_size' = table_size
    BY <1>6 DEF PutUpdate, PutInsert, PutReturn, EndProbe
  <2>2. CASE Growing
    <3>1. pc' = "grow"
      BY <1>6, <2>2 DEF PutUpdate, PutInsert, PutReturn, EndProbe
    <3>. QED  BY <3>1 DEF StoreInv, PairOnItsWay, FindIsNoSet, SetStores
  <2>3. CASE ~ Growing
    <3>1. AskedKey = op.key /\ AskedValue = op.value
      BY <2>3 DEF AskedKey, AskedValue
    <3>2. SetStores'
      BY <1>6, <2>1, <3>1, PutStores DEF SetStores
    <3>. QED  BY <2>1, <3>2 DEF StoreInv, PairOnItsWay, FindIsNoSet
  <2>. QED  BY <2>2, <2>3
<1>7. CASE GrowMove
  <2>1. drain \in 0 .. old.table_size - 1
    BY <1>1, <1>7 DEF GrowMove, TypeInv, TypeOK
  <2>2. old.first[drain] \in Keys /\ table_size > 0 /\ Growing'
    BY <1>1, <1>7, <2>1 DEF GrowMove, TypeInv, TypeOK, LoopsInBounds, WellFormed, Growing,
                            growVars
  <2>3. AskedKey' = old.first[drain] /\ AskedValue' = old.second[drain]
    BY <1>7, <2>2 DEF GrowMove, AskedKey, AskedValue, growVars
  <2>4. PairOnItsWay'
    BY <1>1, <1>7, <2>2, <2>3, ItStarts DEF GrowMove
  <2>. QED  BY <1>7, <2>4 DEF GrowMove, BeginProbe, StoreInv, FindIsNoSet, SetStores
<1>8. CASE GrowSkip
  BY <1>8 DEF GrowSkip, StoreInv, PairOnItsWay, FindIsNoSet, SetStores
<1>9. CASE GrowDone
  <2>1. op.key \in Keys /\ table_size > 0 /\ ~ Growing'
    BY <1>1, <1>9, TypeNoTable DEF GrowDone, TypeInv, TypeOK, LoopsInBounds, Growing
  <2>2. AskedKey' = op.key /\ AskedValue' = op.value
    BY <1>9, <2>1 DEF GrowDone, AskedKey, AskedValue
  <2>3. PairOnItsWay'
    BY <1>1, <1>9, <2>1, <2>2, ItStarts DEF GrowDone
  <2>. QED  BY <1>9, <2>3 DEF GrowDone, BeginProbe, StoreInv, FindIsNoSet, SetStores
<1>10. CASE FindSkip
  BY <1>10 DEF FindSkip, Advance, StoreInv, PairOnItsWay, FindIsNoSet, SetStores
<1>11. CASE FindFail \/ FindReturn \/ RemoveHit
  BY <1>11 DEF FindFail, FindReturn, RemoveHit, EndProbe, StoreInv, PairOnItsWay,
               FindIsNoSet, SetStores
<1>12. CASE TakeValue
  <2>1. pc' = "find" /\ op'.name = "remove_got"
    BY <1>1, <1>12 DEF TakeValue, BeginProbe, TypeInv, TypeOK
  <2>. QED  BY <2>1 DEF StoreInv, PairOnItsWay, FindIsNoSet, SetStores
<1>13. CASE UNCHANGED vars
  BY <1>13 DEF vars, tableVars, growVars, probeVars, StoreInv, PairOnItsWay, FindIsNoSet,
               SetStores, WalkedFrom, CarriesPair, PutDownPair, IsFirstCopy, AskedKey,
               AskedValue, Growing, Slots, LiveSlots
<1>. QED
  BY <1>2, <1>3, <1>4, <1>5, <1>6, <1>7, <1>8, <1>9, <1>10, <1>11, <1>12, <1>13
     DEF Next, Call, Step, PutStep, GrowStep, FindStep, Find, Remove, RemoveAndGet

LEMMA StoreInvariant == Spec => [](TableInv /\ StoreInv)
<1>1. Spec => []TypeInv
  BY TypeInit, TypeNext, PTL DEF Spec
<1>2. TypeInv /\ CountInv /\ PathInv => TableInv
  BY DEF TableInv
<1>3. Spec => []TableInv
  BY <1>1, <1>2, CountInvariant, PathInvariant, PTL
<1>. QED  BY <1>3, StoreInit, StoreNext, PTL DEF Spec

\* When set() returns, the pair it was given is in the table, in the copy of the
\* key that index_of() reaches first - whatever elements were displaced, and
\* whether or not the table was grown, on the way.
THEOREM StoresAreKept == Spec => []SetStores
<1>1. StoreInv => SetStores
  BY DEF StoreInv
<1>. QED  BY <1>1, StoreInvariant, PTL
-----------------------------------------------------------------------------
(* No key is lost                                                          *)

\* A key is stored if it is in the table, carried by the put, wanted by the
\* client's set(), or still in the old table of a growth.
InTable(k)  == \E i \in LiveSlots : first[i] = k
Carried(k)  == pc = "put" /\ key = k
Wanted(k)   == pc \in {"put", "grow"} /\ op.key = k
StillOld(k) == \E j \in OldLive(old.table_size) : drain <= j /\ old.first[j] = k
IsStored(k) == InTable(k) \/ Carried(k) \/ Wanted(k) \/ StillOld(k)

LEMMA KeyIsStored ==
  ASSUME NEW k
  PROVE  drain \in Nat => (k \in StoredKeys <=> IsStored(k))
<1>1. SUFFICES ASSUME drain \in Nat PROVE k \in StoredKeys <=> IsStored(k)
  OBVIOUS
<1>2. \A j \in OldLive(old.table_size) : drain <= j <=> j \notin 0 .. drain - 1
  BY <1>1 DEF OldLive
<1>. QED  BY <1>2 DEF StoredKeys, IsStored, InTable, Carried, Wanted, StillOld

\* The put is over: the key it was asked for is in the table, and the key that it
\* was carrying is too.
LEMMA KeysAfterPut ==
  ASSUME TableInv, StoreInv, PutUpdate \/ PutInsert, NEW k, IsStored(k)
  PROVE  IsStored(k)'
<1>1. pc = "put" /\ UNCHANGED <<old, op, table_size>>
  BY DEF PutUpdate, PutInsert, PutReturn
<1>2. InTable(k) => InTable(k)'
  BY PutStores DEF InTable
<1>3. Carried(k) => InTable(k)'
  BY PutStores DEF InTable, Carried
<1>4. CASE Growing
  <2>1. pc' = "grow" /\ drain' = drain + 1 /\ drain \in Nat
    BY <1>4 DEF PutUpdate, PutInsert, PutReturn, EndProbe, TableInv, TypeInv, TypeOK
  <2>2. Wanted(k) => Wanted(k)'
    BY <1>1, <2>1 DEF Wanted
  <2>3. StillOld(k) => StillOld(k)' \/ InTable(k)'
    <3>1. SUFFICES ASSUME NEW j \in OldLive(old.table_size), drain <= j, old.first[j] = k
                   PROVE  StillOld(k)' \/ InTable(k)'
      BY DEF StillOld
    <3>2. CASE j = drain
      <4>1. PICK i \in LiveSlots' : first'[i] = AskedKey
        BY PutStores
      <4>2. AskedKey = k
        BY <1>4, <3>1, <3>2 DEF AskedKey
      <4>. QED  BY <4>1, <4>2 DEF InTable
    <3>3. CASE j # drain
      <4>1. drain' <= j /\ j \in OldLive(old.table_size)'
        BY <1>1, <2>1, <3>1, <3>3 DEF OldLive
      <4>. QED  BY <1>1, <3>1, <4>1 DEF StillOld
    <3>. QED  BY <3>2, <3>3
  <2>. QED  BY <1>2, <1>3, <2>2, <2>3 DEF IsStored
<1>5. CASE ~ Growing
  <2>1. Wanted(k) => InTable(k)'
    <3>1. AskedKey = op.key
      BY <1>5 DEF AskedKey
    <3>2. PICK i \in LiveSlots' : first'[i] = AskedKey
      BY PutStores
    <3>. QED  BY <3>1, <3>2 DEF InTable, Wanted
  <2>2. ~ StillOld(k)
    BY <1>5 DEF StillOld, OldLive, Growing, TableInv, TypeInv, TypeOK
  <2>. QED  BY <1>2, <1>3, <2>1, <2>2 DEF IsStored
<1>. QED  BY <1>4, <1>5

\* A displaced key is the one the put carries from then on.
LEMMA KeysAfterSwap ==
  ASSUME TableInv, StoreInv, PutSwap, NEW k, IsStored(k)
  PROVE  IsStored(k)'
<1>1. /\ pc = "put" /\ pc' = "put" /\ UNCHANGED <<old, drain, op>>
      /\ first' = [first EXCEPT ![index] = key] /\ first \in [Slots -> KeyOrNone]
      /\ key' = first[index] /\ index \in LiveSlots /\ LiveSlots' = LiveSlots
      /\ \A i \in LiveSlots : i \in Slots
  BY WhileItRuns DEF PutSwap, Advance, LiveSlots, Slots, growVars
<1>2. InTable(k) => InTable(k)' \/ Carried(k)'
  <2>1. SUFFICES ASSUME NEW i \in LiveSlots, first[i] = k PROVE InTable(k)' \/ Carried(k)'
    BY DEF InTable
  <2>2. CASE i = index
    BY <1>1, <2>1, <2>2 DEF Carried
  <2>3. CASE i # index
    BY <1>1, <2>1, <2>3 DEF InTable
  <2>. QED  BY <2>2, <2>3
<1>3. Carried(k) => InTable(k)'
  BY <1>1 DEF Carried, InTable
<1>4. (Wanted(k) => Wanted(k)') /\ (StillOld(k) => StillOld(k)')
  BY <1>1 DEF Wanted, StillOld, OldLive
<1>. QED  BY <1>2, <1>3, <1>4 DEF IsStored

\* A step other than a removal leaves every stored key stored.
LEMMA KeysStayStored ==
  ASSUME TableInv, StoreInv, Next, ~ RemoveHit, ~ Clear
  PROVE  StoredKeys \subseteq StoredKeys'
<1>1. TypeInv' /\ drain \in Nat /\ drain' \in Nat
  <2>1. TypeInv'
    BY TypeNext DEF TableInv
  <2>. QED  BY <2>1 DEF TableInv, TypeInv, TypeOK
<1>2. SUFFICES ASSUME NEW k, IsStored(k) PROVE IsStored(k)'
  <2>1. SUFFICES ASSUME NEW k \in StoredKeys PROVE k \in StoredKeys'
    OBVIOUS
  <2>2. IsStored(k)'
    BY <1>1, <1>2, <2>1, KeyIsStored
  <2>3. (drain \in Nat => (k \in StoredKeys <=> IsStored(k)))'
    BY KeyIsStored, PTL
  <2>. QED  BY <1>1, <2>2, <2>3
<1>3. pc \in {"idle", "find"} => InTable(k)
  <2>1. SUFFICES ASSUME pc \in {"idle", "find"} PROVE InTable(k)
    OBVIOUS
  <2>2. old.table_size = 0
    BY <2>1 DEF TableInv, TypeInv, TypeOK, LoopsInBounds, Growing
  <2>3. ~ StillOld(k) /\ ~ Carried(k) /\ ~ Wanted(k)
    BY <2>1, <2>2 DEF StillOld, OldLive, Carried, Wanted
  <2>. QED  BY <1>2, <2>3 DEF IsStored
<1>4. ASSUME NEW l \in Keys, NEW v \in Values, Set(l, v)
      PROVE  IsStored(k)'
  <2>1. PICK i \in LiveSlots : first[i] = k
    BY <1>2, <1>3, <1>4 DEF Set, InTable
  <2>2. CASE remaining_elems = 0 /\ BeginGrow
    <3>1. /\ old' = [table_size |-> table_size, tag |-> tag,
                     first |-> first, second |-> second]
          /\ drain' = 0
      BY <2>2 DEF BeginGrow
    <3>2. i \in OldLive(old.table_size)' /\ old'.first[i] = k /\ drain' <= i
      BY <2>1, <3>1 DEF OldLive, LiveSlots, Slots
    <3>. QED  BY <3>2 DEF StillOld, IsStored
  <2>3. CASE remaining_elems # 0 /\ BeginProbe(l, v, "put") /\ UNCHANGED <<tableVars, growVars>>
    BY <2>1, <2>3 DEF tableVars, InTable, IsStored, LiveSlots, Slots
  <2>. QED  BY <1>4, <2>2, <2>3 DEF Set
<1>5. ASSUME NEW l \in Keys, NEW name \in {"find", "remove", "remove_and_get"},
             Lookup(name, l)
      PROVE  IsStored(k)'
  BY <1>2, <1>3, <1>5 DEF Lookup, tableVars, InTable, IsStored, LiveSlots, Slots
<1>6. CASE PutUpdate \/ PutInsert
  BY <1>2, <1>6, KeysAfterPut
<1>7. CASE PutSwap
  BY <1>2, <1>7, KeysAfterSwap
<1>8. CASE PutSkip
  BY <1>2, <1>8 DEF PutSkip, Advance, tableVars, growVars, IsStored, InTable, Carried, Wanted,
                    StillOld, OldLive, LiveSlots, Slots
<1>9. CASE GrowMove
  BY <1>2, <1>9 DEF GrowMove, BeginProbe, tableVars, growVars, IsStored, InTable, Carried,
                    Wanted, StillOld, OldLive, LiveSlots, Slots
<1>10. CASE GrowSkip
  <2>1. /\ pc = "grow" /\ pc' = "grow" /\ UNCHANGED <<table_size, tag, first, old, op>>
        /\ drain' = drain + 1 /\ drain \notin OldLive(old.table_size)
    BY <1>10 DEF GrowSkip, tableVars, OldLive
  <2>2. StillOld(k) => StillOld(k)'
    <3>1. SUFFICES ASSUME NEW j \in OldLive(old.table_size), drain <= j, old.first[j] = k
                   PROVE  StillOld(k)'
      BY DEF StillOld
    <3>2. drain' <= j /\ j \in OldLive(old.table_size)'
      BY <1>1, <2>1, <3>1 DEF OldLive
    <3>. QED  BY <2>1, <3>1, <3>2 DEF StillOld
  <2>3. (InTable(k) => InTable(k)') /\ (Wanted(k) => Wanted(k)') /\ ~ Carried(k)
    BY <2>1 DEF InTable, Wanted, Carried, LiveSlots, Slots
  <2>. QED  BY <1>2, <2>2, <2>3 DEF IsStored
<1>11. CASE GrowDone
  <2>1. ~ StillOld(k) /\ ~ Carried(k)
    BY <1>1, <1>11 DEF GrowDone, StillOld, Carried, OldLive, TableInv, TypeInv, TypeOK
  <2>2. (InTable(k) => InTable(k)') /\ (Wanted(k) => Wanted(k)')
    BY <1>11 DEF GrowDone, BeginProbe, tableVars, InTable, Wanted, LiveSlots, Slots
  <2>. QED  BY <1>2, <2>1, <2>2 DEF IsStored
<1>12. ASSUME pc = "find", UNCHANGED <<table_size, tag, first>>
       PROVE  IsStored(k)'
  BY <1>3, <1>12 DEF IsStored, InTable, LiveSlots, Slots
<1>13. CASE FindSkip \/ FindFail \/ FindReturn \/ TakeValue
  <2>1. pc = "find" /\ UNCHANGED <<table_size, tag, first>>
    BY <1>13 DEF FindSkip, FindFail, FindReturn, TakeValue, tableVars
  <2>. QED  BY <1>12, <2>1
<1>. QED
  BY <1>4, <1>5, <1>6, <1>7, <1>8, <1>9, <1>10, <1>11, <1>13
     DEF Next, Call, Step, PutStep, GrowStep, FindStep, Find, Remove, RemoveAndGet

\* No displacement and no growth loses a key, in any step: only remove(),
\* remove_and_get() and clear() take keys out of the table.
THEOREM KeysAreKept == Spec => NoKeyLost
<1>1. TableInv /\ StoreInv /\ [Next]_vars
        => [RemoveHit \/ Clear \/ StoredKeys \subseteq StoredKeys']_vars
  BY KeysStayStored
<1>. QED  BY <1>1, StoreInvariant, PTL DEF Spec, NoKeyLost

-----------------------------------------------------------------------------
(* The map                                                                 *)

\* The slots before distance d of k's probe sequence hold other keys, none of
\* them nearer to its ideal slot than that slot is to k's.
ClearPath(k, d) ==
  \A i \in Slots : Distance(table_size, k, i) < d =>
    /\ i \in LiveSlots /\ first[i] # k
    /\ Distance(table_size, first[i], i) >= Distance(table_size, k, i)

NoneTwice == \A i, j \in LiveSlots : first[i] = first[j] => i = j

PathsFull ==
  phase = "fill" =>
    \A j \in LiveSlots : ClearPath(first[j], Distance(table_size, first[j], j))

PutsFill ==
  /\ pc \in {"put", "grow"} => phase = "fill"
  /\ pc = "put" => ClearPath(key, probe_length)

RemovalsEmpty == pc = "find" /\ op.name # "find" => phase = "empty"

NothingReturned == pc = "find" /\ op.name # "remove_got" => ret = NoValue

\* A put carries a key that is not in the table, except that the client's own
\* may be there already, and the client's own goes with the client's value.
CarriedOnce ==
  pc = "put" =>
    IF Growing \/ key # op.key THEN \A i \in LiveSlots : first[i] # key
                               ELSE value = op.value

\* What grow() has still to move is nowhere else.
OldOnce ==
  \A i, j \in OldLive(old.table_size) : old.first[i] = old.first[j] => i = j

OldApart ==
  \A j \in OldLive(old.table_size) :
    drain < j \/ (drain = j /\ pc = "grow") =>
      /\ \A i \in LiveSlots : first[i] # old.first[j]
      /\ pc = "put" => key # old.first[j]

ClientInv ==
  /\ NoneTwice /\ PathsFull /\ PutsFill /\ RemovalsEmpty /\ NothingReturned
  /\ CarriedOnce /\ OldOnce /\ OldApart

BaseInv == TableInv /\ StoreInv

-----------------------------------------------------------------------------
(* The invariant                                                           *)

LEMMA ClientInvInit == ClientInit => ClientInv
  BY DEF ClientInit, Init, ClientInv, NoneTwice, PathsFull, PutsFill, RemovalsEmpty,
         NothingReturned, CarriedOnce, OldOnce, OldApart, NoTable, OldLive, LiveSlots, Slots

\* What is known of the slot a put looks at.
LEMMA PutAtIndex ==
  ASSUME BaseInv, pc = "put"
  PROVE  /\ table_size \in Nat /\ table_size > 0 /\ index \in Slots /\ key \in Keys
         /\ probe_length = Distance(table_size, key, index)
         /\ \A k \in Keys, i \in Slots : Distance(table_size, k, i) \in Int
         /\ \A k \in Keys, i, j \in Slots :
               Distance(table_size, k, i) = Distance(table_size, k, j) => i = j
         /\ \A i \in LiveSlots : i \in Slots /\ first[i] \in Keys
         /\ tag \in [Slots -> Tags] /\ first \in [Slots -> KeyOrNone]
         /\ second \in [Slots -> ValueOrNone]
<1>1. \A i \in LiveSlots : i \in Slots /\ first[i] \in Keys
  BY DEF BaseInv, TableInv, TypeInv, TypeOK, WellFormed, LiveSlots, Slots
<1>2. probe_length = Distance(table_size, key, index)
  BY DEF BaseInv, TableInv, PathInv, ProbeInProgress
<1>3. \A k \in Keys, i \in Slots : Distance(table_size, k, i) \in Int
  BY WhileItRuns DEF BaseInv
<1>. QED  BY <1>1, <1>2, <1>3, WhileItRuns DEF BaseInv

\* The key that put_with_hash() is about to store is in no slot.
LEMMA NotStored ==
  ASSUME BaseInv, ClientInv, PutSwap \/ PutInsert
  PROVE  \A j \in LiveSlots : first[j] # key
<1>. DEFINE d(i) == Distance(table_size, key, i)
<1>1. SUFFICES ASSUME NEW j \in LiveSlots, first[j] = key PROVE FALSE
  OBVIOUS
<1>2. /\ pc = "put" /\ phase = "fill" /\ ClearPath(key, probe_length)
      /\ ClearPath(key, d(j))
  BY <1>1 DEF PutSwap, PutInsert, ClientInv, PutsFill, PathsFull
<1>3. /\ index \in Slots /\ j \in Slots /\ key \in Keys /\ probe_length = d(index)
      /\ d(index) \in Int /\ d(j) \in Int /\ (d(index) = d(j) => index = j)
  BY <1>2, PutAtIndex
<1>4. ~ d(j) < d(index)
  BY <1>1, <1>2, <1>3 DEF ClearPath
<1>5. index # j
  BY <1>1 DEF PutSwap, PutInsert, LiveSlots
<1>6. d(index) < d(j)
  BY <1>3, <1>4, <1>5
<1>7. index \in LiveSlots /\ Distance(table_size, first[index], index) >= d(index)
  BY <1>2, <1>3, <1>6 DEF ClearPath
<1>8. Distance(table_size, first[index], index) \in Int
  BY <1>2, <1>3, <1>7, PutAtIndex
<1>. QED  BY <1>3, <1>7, <1>8 DEF PutSwap, PutInsert, LiveSlots

LEMMA ClientAfterSwap ==
  ASSUME BaseInv, ClientInv, PutSwap, UNCHANGED phase
  PROVE  ClientInv'
<1>. DEFINE n == table_size
            f == first[index]
<1>1. pc = "put" /\ phase = "fill" /\ index \in LiveSlots
  BY PutAtIndex DEF PutSwap, ClientInv, PutsFill, LiveSlots
<1>2. /\ pc' = "put" /\ UNCHANGED <<table_size, tag, old, drain, op>>
      /\ Slots' = Slots /\ LiveSlots' = LiveSlots
      /\ first' = [first EXCEPT ![index] = key] /\ first'[index] = key
      /\ \A i \in LiveSlots : i # index => first'[i] = first[i]
      /\ key' = f /\ probe_length' = Distance(n, f, index) + 1
      /\ f # key /\ Distance(n, key, index) > Distance(n, f, index)
  BY <1>1, PutAtIndex DEF PutSwap, Advance, growVars, Slots, LiveSlots
<1>3. /\ index \in Slots /\ key \in Keys /\ f \in Keys
      /\ \A k \in Keys, i \in Slots : Distance(n, k, i) \in Int
      /\ \A k \in Keys, i, j \in Slots : Distance(n, k, i) = Distance(n, k, j) => i = j
      /\ \A i \in LiveSlots : i \in Slots /\ first[i] \in Keys
  BY <1>1, PutAtIndex
<1>. HIDE DEF f
<1>4. \A j \in LiveSlots : first[j] # key
  BY NotStored
<1>5. \A j \in LiveSlots : j # index => first[j] # f
  BY <1>1 DEF ClientInv, NoneTwice, f
<1>6. NoneTwice'
  BY <1>2, <1>4 DEF ClientInv, NoneTwice
<1>7. ASSUME NEW k \in Keys, NEW e \in Int, ClearPath(k, e), k # key
      PROVE  ClearPath(k, e)'
  <2>1. SUFFICES ASSUME NEW i \in Slots, Distance(n, k, i) < e
                 PROVE  /\ i \in LiveSlots /\ first'[i] # k
                        /\ Distance(n, first'[i], i) >= Distance(n, k, i)
    BY <1>2 DEF ClearPath
  <2>2. /\ i \in LiveSlots /\ first[i] # k
        /\ Distance(n, first[i], i) >= Distance(n, k, i)
    BY <1>7, <2>1 DEF ClearPath
  <2>3. CASE i = index
    <3>1. Distance(n, f, i) >= Distance(n, k, i) /\ Distance(n, key, i) > Distance(n, f, i)
      BY <1>2, <2>2, <2>3 DEF f
    <3>2. /\ Distance(n, f, i) \in Int /\ Distance(n, k, i) \in Int
          /\ Distance(n, key, i) \in Int
      BY <1>3, <2>3
    <3>3. Distance(n, key, i) >= Distance(n, k, i)
      BY <3>1, <3>2
    <3>. QED  BY <1>2, <1>7, <2>2, <2>3, <3>3
  <2>4. CASE i # index
    BY <1>2, <2>2, <2>4
  <2>. QED  BY <2>3, <2>4
<1>8. PICK k \in Keys, e \in Int : k = key /\ e = Distance(n, key, index)
  BY <1>3
<1>9. ClearPath(k, e)'
  <2>1. ClearPath(k, e)
    BY <1>1, <1>8, PutAtIndex DEF ClientInv, PutsFill
  <2>2. SUFFICES ASSUME NEW i \in Slots, Distance(n, k, i) < e
                 PROVE  /\ i \in LiveSlots /\ first'[i] # k
                        /\ Distance(n, first'[i], i) >= Distance(n, k, i)
    BY <1>2 DEF ClearPath
  <2>3. i # index
    BY <1>3, <1>8, <2>2
  <2>. QED  BY <1>2, <2>1, <2>2, <2>3 DEF ClearPath
<1>10. PathsFull'
  <2>1. SUFFICES ASSUME NEW j \in LiveSlots
                 PROVE  ClearPath(first[j], Distance(table_size, first[j], j))'
    BY <1>2 DEF PathsFull
  <2>2. CASE j = index
    BY <1>2, <1>8, <1>9, <2>2 DEF ClearPath
  <2>3. CASE j # index
    <3>1. /\ first'[j] = first[j] /\ first[j] \in Keys /\ first[j] # key
          /\ Distance(n, first[j], j) \in Int
          /\ ClearPath(first[j], Distance(n, first[j], j))
      BY <1>1, <1>2, <1>3, <1>4, <2>3 DEF ClientInv, PathsFull
    <3>2. PICK l \in Keys, c \in Int : l = first[j] /\ c = Distance(n, first[j], j)
      BY <3>1
    <3>3. ClearPath(l, c)'
      BY <1>7, <3>1, <3>2
    <3>. QED  BY <1>2, <3>1, <3>2, <3>3 DEF ClearPath
  <2>. QED  BY <2>2, <2>3
<1>11. PutsFill'
  <2>1. PICK l \in Keys, c \in Int : l = f /\ c = Distance(n, f, index)
    BY <1>3
  <2>2. ClearPath(l, c)'
    <3>1. ClearPath(l, c)
      BY <1>1, <2>1 DEF ClientInv, PathsFull, f
    <3>. QED  BY <1>2, <1>7, <2>1, <3>1
  <2>3. SUFFICES ASSUME NEW i \in Slots, Distance(n, l, i) < c + 1
                 PROVE  /\ i \in LiveSlots /\ first'[i] # l
                        /\ Distance(n, first'[i], i) >= Distance(n, l, i)
    BY <1>1, <1>2, <2>1 DEF PutsFill, ClearPath
  <2>4. CASE i = index
    BY <1>1, <1>2, <1>3, <2>1, <2>4
  <2>5. CASE i # index
    <3>1. Distance(n, l, i) < c
      BY <1>3, <2>1, <2>3, <2>5
    <3>. QED  BY <1>2, <2>2, <3>1 DEF ClearPath
  <2>. QED  BY <2>4, <2>5
<1>12. CarriedOnce'
  <2>1. \A i \in LiveSlots : first'[i] # f
    BY <1>2, <1>5
  <2>2. Growing' \/ key' # op'.key
    <3>1. SUFFICES ASSUME ~ Growing, f = op.key PROVE FALSE
      BY <1>2 DEF Growing
    <3>2. PICK i \in LiveSlots :
            first[i] = f /\ Distance(n, f, i) < Distance(n, f, index)
      BY <1>1, <1>2, <3>1, WhileItRuns
         DEF BaseInv, AskedKey, CarriesPair, PutDownPair, IsFirstCopy
    <3>3. i # index
      BY <1>3, <3>2
    <3>. QED  BY <1>5, <3>2, <3>3
  <2>. QED  BY <1>2, <2>1, <2>2 DEF CarriedOnce
<1>13. OldOnce' /\ OldApart'
  <2>1. OldOnce'
    BY <1>2 DEF ClientInv, OldOnce, OldLive
  <2>2. OldApart'
    <3>1. SUFFICES ASSUME NEW j \in OldLive(old.table_size), drain < j
                   PROVE  /\ \A i \in LiveSlots : first'[i] # old.first[j]
                          /\ f # old.first[j]
      BY <1>2 DEF OldApart, OldLive
    <3>2. key # old.first[j] /\ \A i \in LiveSlots : first[i] # old.first[j]
      BY <1>1, <3>1 DEF ClientInv, OldApart
    <3>. QED  BY <1>1, <1>2, <3>2 DEF f
  <2>. QED  BY <2>1, <2>2
<1>. QED
  BY <1>2, <1>6, <1>10, <1>11, <1>12, <1>13 DEF ClientInv, RemovalsEmpty, NothingReturned

LEMMA ClientAfterInsert ==
  ASSUME BaseInv, ClientInv, PutInsert, UNCHANGED phase
  PROVE  ClientInv'
<1>. DEFINE n == table_size
<1>1. pc = "put" /\ phase = "fill" /\ ClearPath(key, probe_length)
  BY DEF PutInsert, ClientInv, PutsFill
<1>2. /\ index \in Slots /\ key \in Keys /\ probe_length = Distance(n, key, index)
      /\ \A k \in Keys, i \in Slots : Distance(n, k, i) \in Int
      /\ \A i \in LiveSlots : i \in Slots /\ first[i] \in Keys
      /\ tag \in [Slots -> Tags] /\ first \in [Slots -> KeyOrNone]
  BY <1>1, PutAtIndex
<1>3. /\ pc' = (IF Growing THEN "grow" ELSE "idle")
      /\ drain' = (IF Growing THEN drain + 1 ELSE drain)
      /\ UNCHANGED <<table_size, old, op, ret>> /\ Slots' = Slots
      /\ index \notin LiveSlots
      /\ first'[index] = key /\ \A i \in Slots : i # index => first'[i] = first[i]
  BY <1>2 DEF PutInsert, PutReturn, EndProbe, Slots, LiveSlots
<1>4. LiveSlots' = LiveSlots \cup {index}
  <2>1. IsLive(TagFor(tag[index])) /\ tag' = [tag EXCEPT ![index] = TagFor(@)]
    BY DEF PutInsert, TagFor, IsLive
  <2>. QED  BY <1>2, <1>3, <2>1 DEF LiveSlots
<1>5. \A j \in LiveSlots : first[j] # key /\ first'[j] = first[j]
  BY <1>2, <1>3, NotStored
<1>6. NoneTwice'
  BY <1>3, <1>4, <1>5 DEF ClientInv, NoneTwice
<1>7. ASSUME NEW k \in Keys, NEW e \in Int, ClearPath(k, e)
      PROVE  ClearPath(k, e)'
  <2>1. SUFFICES ASSUME NEW i \in Slots, Distance(n, k, i) < e
                 PROVE  /\ i \in LiveSlots' /\ first'[i] # k
                        /\ Distance(n, first'[i], i) >= Distance(n, k, i)
    BY <1>3 DEF ClearPath
  <2>2. /\ i \in LiveSlots /\ first[i] # k
        /\ Distance(n, first[i], i) >= Distance(n, k, i)
    BY <1>7, <2>1 DEF ClearPath
  <2>. QED  BY <1>4, <1>5, <2>2
<1>8. PathsFull'
  <2>1. SUFFICES ASSUME NEW j \in LiveSlots'
                 PROVE  ClearPath(first[j], Distance(table_size, first[j], j))'
    BY <1>3 DEF PathsFull
  <2>2. PICK l \in Keys, c \in Int :
          l = first'[j] /\ c = Distance(n, l, j) /\ ClearPath(l, c)
    <3>1. CASE j = index
      BY <1>1, <1>2, <1>3, <3>1
    <3>2. CASE j # index
      BY <1>1, <1>2, <1>4, <1>5, <3>2 DEF ClientInv, PathsFull
    <3>. QED  BY <3>1, <3>2
  <2>3. ClearPath(l, c)'
    BY <1>7, <2>2
  <2>. QED  BY <1>3, <2>2, <2>3 DEF ClearPath
<1>9. OldOnce' /\ OldApart'
  <2>1. OldOnce'
    BY <1>3 DEF ClientInv, OldOnce, OldLive
  <2>2. OldApart'
    <3>1. SUFFICES ASSUME NEW j \in OldLive(old.table_size), drain' <= j
                   PROVE  \A i \in LiveSlots' : first'[i] # old.first[j]
      <4>1. drain' \in Int
        BY <1>3 DEF BaseInv, TableInv, TypeInv, TypeOK
      <4>. QED  BY <1>3, <3>1, <4>1 DEF OldApart, OldLive
    <3>2. drain < j
      BY <1>3, <3>1 DEF BaseInv, TableInv, TypeInv, TypeOK, OldLive, Growing
    <3>3. key # old.first[j] /\ \A i \in LiveSlots : first[i] # old.first[j]
      BY <1>1, <3>1, <3>2 DEF ClientInv, OldApart
    <3>. QED  BY <1>3, <1>4, <1>5, <3>3
  <2>. QED  BY <2>1, <2>2
<1>. QED
  BY <1>1, <1>3, <1>6, <1>8, <1>9
     DEF ClientInv, PutsFill, RemovalsEmpty, NothingReturned, CarriedOnce

\* Inside grow() nothing is ever updated, and outside only the client's own key.
LEMMA OnlyOwnUpdated ==
  ASSUME BaseInv, ClientInv, PutUpdate
  PROVE  ~ Growing /\ key = op.key /\ value = op.value /\ index \in LiveSlots
<1>1. pc = "put" /\ index \in LiveSlots /\ first[index] = key
  BY PutAtIndex DEF PutUpdate, LiveSlots
<1>. QED  BY <1>1 DEF ClientInv, CarriedOnce

LEMMA ClientAfterUpdate ==
  ASSUME BaseInv, ClientInv, PutUpdate, UNCHANGED phase
  PROVE  ClientInv'
<1>1. /\ UNCHANGED <<table_size, tag, first, old, drain, op, ret>> /\ pc' = "idle"
      /\ Slots' = Slots /\ LiveSlots' = LiveSlots /\ OldLive(old.table_size) = {}
      /\ OldLive(old.table_size)' = {}
  BY OnlyOwnUpdated
     DEF PutUpdate, PutReturn, EndProbe, Slots, LiveSlots, OldLive, Growing, BaseInv,
         TableInv, TypeInv, TypeOK
<1>2. PathsFull'
  BY <1>1 DEF ClientInv, PathsFull, ClearPath
<1>. QED
  BY <1>1, <1>2 DEF ClientInv, NoneTwice, PutsFill, RemovalsEmpty, NothingReturned, CarriedOnce,
                    OldOnce, OldApart

\* A put that starts has passed nothing.
LEMMA NothingPassed ==
  ASSUME TypeInv, table_size > 0, NEW k \in Keys
  PROVE  ClearPath(k, 0)
<1>1. \A i \in Slots : Distance(table_size, k, i) \in Nat
  BY ProbeLaws DEF TypeInv, TypeOK
<1>. QED  BY <1>1 DEF ClearPath

LEMMA ClientAfterSet ==
  ASSUME BaseInv, ClientInv, NEW k \in Keys, NEW v \in Values, ClientSet(k, v)
  PROVE  ClientInv'
<1>1. /\ pc = "idle" /\ phase' = "fill" /\ old.table_size = 0
      /\ op' = [name |-> "set", key |-> k, value |-> v]
  BY DEF ClientSet, Set, BaseInv, TableInv, TypeInv, TypeOK, LoopsInBounds, Growing
<1>2. \A j \in LiveSlots : ClearPath(first[j], Distance(table_size, first[j], j))
  <2>1. CASE live_elems = 0
    <3>1. IsFiniteSet(LiveSlots) /\ Cardinality(LiveSlots) = 0
      <4>1. LiveSlots \in SUBSET (0 .. table_size - 1) /\ table_size \in Nat
        BY DEF LiveSlots, Slots, BaseInv, TableInv, TypeInv, TypeOK
      <4>. QED  BY <2>1, <4>1, SlotsFinite DEF BaseInv, TableInv, CountInv, Counters
    <3>. QED  BY <3>1, FS_EmptySet
  <2>. QED  BY <2>1 DEF ClientSet, ClientInv, PathsFull
<1>3. CASE remaining_elems = 0 /\ BeginGrow
  <2>1. /\ pc' = "grow" /\ LiveSlots' = {} /\ drain' = 0
        /\ old' = [table_size |-> table_size, tag |-> tag,
                   first |-> first, second |-> second]
    BY <1>3 DEF BeginGrow, EmptyTags, LiveSlots, Slots, IsLive
  <2>2. OldOnce'
    <3>1. OldLive(old.table_size)' = LiveSlots /\ old'.first = first
      BY <2>1 DEF OldLive, LiveSlots, Slots
    <3>. QED  BY <3>1 DEF ClientInv, NoneTwice, OldOnce
  <2>. QED
    BY <1>1, <2>1, <2>2 DEF ClientInv, NoneTwice, PathsFull, PutsFill, RemovalsEmpty,
                            NothingReturned, CarriedOnce, OldApart
<1>4. CASE remaining_elems # 0 /\ BeginProbe(k, v, "put") /\ UNCHANGED <<tableVars, growVars>>
  <2>1. /\ UNCHANGED <<table_size, tag, first, old, drain>> /\ pc' = "put"
        /\ key' = k /\ value' = v /\ probe_length' = 0
        /\ Slots' = Slots /\ LiveSlots' = LiveSlots /\ ~ Growing'
        /\ OldLive(old.table_size)' = {}
    BY <1>1, <1>4 DEF BeginProbe, tableVars, growVars, Slots, LiveSlots, Growing, OldLive
  <2>2. ClearPath(k, 0)
    BY <1>4, NothingPassed DEF BaseInv, TableInv, TypeInv, TypeOK, LoopsInBounds
  <2>3. PathsFull'
    BY <1>2, <2>1 DEF PathsFull, ClearPath
  <2>4. PutsFill'
    BY <1>1, <2>1, <2>2 DEF PutsFill, ClearPath
  <2>. QED
    BY <1>1, <2>1, <2>3, <2>4 DEF ClientInv, NoneTwice, RemovalsEmpty, NothingReturned,
                                  CarriedOnce, OldOnce, OldApart
<1>. QED  BY <1>3, <1>4 DEF ClientSet, Set

\* A lookup starts, goes on or ends: the table stays, and there is none behind it.
LEMMA ClientAfterLookup ==
  ASSUME BaseInv, ClientInv, pc \in {"idle", "find"}, pc' \in {"idle", "find"},
         UNCHANGED <<table_size, tag, first, old, drain>>,
         phase' \in {phase, "empty"}, RemovalsEmpty', NothingReturned'
  PROVE  ClientInv'
<1>1. /\ Slots' = Slots /\ LiveSlots' = LiveSlots
      /\ OldLive(old.table_size)' = OldLive(old.table_size) /\ OldLive(old.table_size) = {}
  BY DEF Slots, LiveSlots, OldLive, BaseInv, TableInv, TypeInv, TypeOK, LoopsInBounds, Growing
<1>2. PathsFull'
  BY <1>1 DEF ClientInv, PathsFull, ClearPath
<1>. QED
  BY <1>1, <1>2 DEF ClientInv, NoneTwice, PutsFill, CarriedOnce, OldOnce, OldApart

\* Elements are taken out.
LEMMA ClientAfterRemoval ==
  ASSUME BaseInv, ClientInv, pc \in {"idle", "find"}, pc' = "idle", UNCHANGED <<old, drain>>,
         LiveSlots' \in SUBSET LiveSlots, \A i \in LiveSlots' : first'[i] = first[i],
         phase' = "empty" \/ LiveSlots' = {}
  PROVE  ClientInv'
<1>1. OldLive(old.table_size)' = {}
  BY DEF OldLive, BaseInv, TableInv, TypeInv, TypeOK, LoopsInBounds, Growing
<1>. QED
  BY <1>1 DEF ClientInv, NoneTwice, PathsFull, PutsFill, RemovalsEmpty, NothingReturned,
              CarriedOnce, OldOnce, OldApart

LEMMA ClientInvNext == BaseInv /\ ClientInv /\ [ClientNext]_clientVars => ClientInv'
<1>. SUFFICES ASSUME BaseInv, ClientInv, [ClientNext]_clientVars PROVE ClientInv'
  OBVIOUS
<1>1. /\ TypeInv /\ TypeOK /\ LoopsInBounds /\ PathInv
  BY DEF BaseInv, TableInv, TypeInv
<1>2. ASSUME NEW k \in Keys, NEW v \in Values, ClientSet(k, v)
      PROVE  ClientInv'
  BY <1>2, ClientAfterSet
<1>3. ASSUME NEW k \in Keys, NEW name \in {"find", "remove", "remove_and_get"},
             Lookup(name, k), phase' = (IF name = "find" THEN phase ELSE "empty")
      PROVE  ClientInv'
  <2>1. /\ pc = "idle" /\ pc' \in {"idle", "find"} /\ op'.name = name /\ ret' = NoValue
        /\ UNCHANGED <<table_size, tag, first, old, drain>>
    BY <1>3 DEF Lookup, BeginProbe, tableVars, growVars
  <2>. QED  BY <1>3, <2>1, ClientAfterLookup DEF RemovalsEmpty, NothingReturned
<1>4. CASE ClientClear
  <2>1. LiveSlots' = {} /\ pc = "idle" /\ pc' = "idle" /\ UNCHANGED <<old, drain>>
    BY <1>4 DEF ClientClear, Clear, LiveSlots, Slots, IsLive, growVars
  <2>. QED  BY <2>1, ClientAfterRemoval
<1>5. CASE PutUpdate /\ UNCHANGED phase
  BY <1>5, ClientAfterUpdate
<1>6. CASE PutSwap /\ UNCHANGED phase
  BY <1>6, ClientAfterSwap
<1>7. CASE PutSkip /\ UNCHANGED phase
  <2>1. /\ UNCHANGED <<table_size, tag, first, old, drain, op, phase, key, value>>
        /\ pc = "put" /\ pc' = "put" /\ probe_length' = probe_length + 1
        /\ Slots' = Slots /\ LiveSlots' = LiveSlots
    BY <1>7 DEF PutSkip, Advance, tableVars, growVars, Slots, LiveSlots
  <2>2. ClearPath(key, probe_length + 1)
    <3>1. SUFFICES ASSUME NEW i \in Slots, Distance(table_size, key, i) < probe_length + 1
                   PROVE  /\ i \in LiveSlots /\ first[i] # key
                          /\ Distance(table_size, first[i], i)
                               >= Distance(table_size, key, i)
      BY DEF ClearPath
    <3>2. CASE i = index
      BY <1>7, <2>1, <3>2, PutAtIndex DEF PutSkip, LiveSlots
    <3>3. CASE i # index
      <4>1. Distance(table_size, key, i) < probe_length
        BY <2>1, <3>1, <3>3, PutAtIndex
      <4>. QED  BY <2>1, <3>1, <4>1 DEF ClientInv, PutsFill, ClearPath
    <3>. QED  BY <3>2, <3>3
  <2>3. PathsFull' /\ PutsFill'
    BY <2>1, <2>2 DEF ClientInv, PathsFull, PutsFill, ClearPath
  <2>. QED
    BY <2>1, <2>3 DEF ClientInv, NoneTwice, RemovalsEmpty, NothingReturned, CarriedOnce,
                      OldOnce, OldApart, OldLive, Growing
<1>8. CASE PutInsert /\ UNCHANGED phase
  BY <1>8, ClientAfterInsert
<1>9. CASE GrowMove /\ UNCHANGED phase
  <2>1. /\ UNCHANGED <<table_size, tag, first, old, drain, op, phase>>
        /\ pc = "grow" /\ pc' = "put" /\ probe_length' = 0 /\ key' = old.first[drain]
        /\ Slots' = Slots /\ LiveSlots' = LiveSlots /\ Growing'
        /\ drain \in OldLive(old.table_size) /\ old.first[drain] \in Keys
    BY <1>1, <1>9 DEF GrowMove, BeginProbe, tableVars, growVars, Slots, LiveSlots, Growing,
                      OldLive, TypeOK, WellFormed
  <2>2. \A i \in LiveSlots : first[i] # old.first[drain]
    BY <2>1 DEF ClientInv, OldApart
  <2>3. ClearPath(old.first[drain], 0)
    BY <1>1, <2>1, NothingPassed DEF LoopsInBounds
  <2>4. PathsFull' /\ PutsFill'
    BY <2>1, <2>3 DEF ClientInv, PathsFull, PutsFill, ClearPath
  <2>5. OldApart'
    <3>1. SUFFICES ASSUME NEW j \in OldLive(old.table_size), drain < j
                   PROVE  /\ \A i \in LiveSlots : first[i] # old.first[j]
                          /\ old.first[drain] # old.first[j]
      BY <2>1 DEF OldApart, OldLive
    <3>. QED  BY <1>1, <2>1, <3>1 DEF ClientInv, OldApart, OldOnce, OldLive
  <2>. QED
    BY <2>1, <2>2, <2>4, <2>5 DEF ClientInv, NoneTwice, RemovalsEmpty, NothingReturned,
                                  CarriedOnce, OldOnce, OldLive
<1>10. CASE GrowSkip /\ UNCHANGED phase
  <2>1. /\ UNCHANGED <<table_size, tag, first, old, op, phase>>
        /\ pc = "grow" /\ pc' = "grow" /\ drain' = drain + 1 /\ drain \in Nat
        /\ Slots' = Slots /\ LiveSlots' = LiveSlots
    BY <1>1, <1>10 DEF GrowSkip, tableVars, Slots, LiveSlots, TypeOK
  <2>2. OldApart'
    <3>1. \A j \in OldLive(old.table_size) : drain' < j \/ drain' = j => drain < j
      BY <2>1 DEF OldLive
    <3>. QED  BY <2>1, <3>1 DEF ClientInv, OldApart, OldLive
  <2>. QED
    BY <2>1, <2>2 DEF ClientInv, NoneTwice, PathsFull, PutsFill, ClearPath, RemovalsEmpty,
                      NothingReturned, CarriedOnce, OldOnce, OldLive
<1>11. CASE GrowDone /\ UNCHANGED phase
  <2>1. /\ UNCHANGED <<table_size, tag, first, op, phase>>
        /\ pc = "grow" /\ pc' = "put" /\ probe_length' = 0
        /\ key' = op.key /\ value' = op.value /\ op.key \in Keys
        /\ Slots' = Slots /\ LiveSlots' = LiveSlots /\ ~ Growing'
        /\ OldLive(old.table_size)' = {}
    BY <1>1, <1>11, TypeNoTable DEF GrowDone, BeginProbe, tableVars, Slots, LiveSlots,
                                    Growing, OldLive, TypeOK
  <2>2. ClearPath(op.key, 0)
    BY <1>1, <2>1, NothingPassed DEF LoopsInBounds
  <2>3. PathsFull' /\ PutsFill'
    BY <2>1, <2>2 DEF ClientInv, PathsFull, PutsFill, ClearPath
  <2>. QED
    BY <2>1, <2>3 DEF ClientInv, NoneTwice, RemovalsEmpty, NothingReturned, CarriedOnce,
                      OldOnce, OldApart
<1>12. CASE (FindSkip \/ FindFail \/ FindReturn) /\ UNCHANGED phase
  <2>1. /\ pc = "find" /\ pc' \in {"idle", "find"} /\ op' = op
        /\ pc' = "find" => ret' = ret
        /\ UNCHANGED <<table_size, tag, first, old, drain, phase>>
    BY <1>12 DEF FindSkip, FindFail, FindReturn, Advance, EndProbe, tableVars, growVars
  <2>2. RemovalsEmpty' /\ NothingReturned'
    BY <2>1 DEF ClientInv, RemovalsEmpty, NothingReturned
  <2>. QED  BY <2>1, <2>2, ClientAfterLookup
<1>13. CASE TakeValue /\ UNCHANGED phase
  <2>1. /\ pc = "find" /\ pc' = "find" /\ op.name = "remove_and_get" /\ op'.name = "remove_got"
        /\ UNCHANGED <<table_size, tag, first, old, drain, phase>>
    BY <1>1, <1>13 DEF TakeValue, BeginProbe, tableVars, growVars, TypeOK
  <2>2. RemovalsEmpty' /\ NothingReturned'
    BY <2>1 DEF ClientInv, RemovalsEmpty, NothingReturned
  <2>. QED  BY <2>1, <2>2, ClientAfterLookup
<1>14. CASE RemoveHit /\ UNCHANGED phase
  <2>1. /\ pc = "find" /\ pc' = "idle" /\ op.name # "find" /\ UNCHANGED <<old, drain>>
        /\ tag' = [tag EXCEPT ![index] = "01"] /\ first' = [first EXCEPT ![index] = NoKey]
        /\ Slots' = Slots /\ index \in Slots
    BY <1>1, <1>14 DEF RemoveHit, EndProbe, growVars, Slots, TypeOK
  <2>2. LiveSlots' = LiveSlots \ {index} /\ \A i \in LiveSlots' : first'[i] = first[i]
    BY <1>1, <2>1 DEF LiveSlots, IsLive, TypeOK, WellFormed, Slots
  <2>3. phase' = "empty"
    BY <1>14, <2>1 DEF ClientInv, RemovalsEmpty
  <2>. QED  BY <2>1, <2>2, <2>3, ClientAfterRemoval
<1>15. CASE UNCHANGED clientVars
  BY <1>15 DEF clientVars, vars, tableVars, growVars, probeVars, ClientInv, NoneTwice,
               PathsFull, ClearPath, PutsFill, RemovalsEmpty, NothingReturned, CarriedOnce,
               OldOnce, OldApart, OldLive, Growing, LiveSlots, Slots
<1>. QED
  BY <1>2, <1>3, <1>4, <1>5, <1>6, <1>7, <1>8, <1>9, <1>10, <1>11, <1>12, <1>13, <1>14, <1>15
     DEF ClientNext, ClientFind, ClientRemove, ClientRemoveAndGet, ClientStep, Step, PutStep,
         GrowStep, FindStep, Find, Remove, RemoveAndGet
-----------------------------------------------------------------------------
(* The map that the table stands for                                       *)

\* The table, the put or what is left of the old table holds v for k.
Held(k, v) ==
  \/ \E i \in LiveSlots : first[i] = k /\ second[i] = v
  \/ pc = "put" /\ key = k /\ value = v
  \/ \E j \in OldLive(old.table_size) :
        drain <= j /\ old.first[j] = k /\ old.second[j] = v

\* The client's pair counts as stored, or its key as removed, before it is.
Pending(k) == op.name = "set" /\ SetPending(k)
Taken(k)   == pc = "find" /\ op.name = "remove_got" /\ op.key = k

AllInv == BaseInv /\ ClientInv

LEMMA HeldMeans ==
  ASSUME NEW k, NEW v
  PROVE  TypeInv => (v \in HeldFor(k) <=> Held(k, v))
<1>1. SUFFICES ASSUME TypeInv PROVE v \in HeldFor(k) <=> Held(k, v)
  OBVIOUS
<1>2. drain \in Nat /\ old.table_size \in Nat
  BY <1>1 DEF TypeInv, TypeOK
<1>3. {j \in drain .. old.table_size - 1 : IsLive(old.tag[j]) /\ old.first[j] = k}
        = {j \in OldLive(old.table_size) : drain <= j /\ old.first[j] = k}
  BY <1>2 DEF OldLive
<1>. QED  BY <1>3 DEF HeldFor, Held

\* A key that is not just being set has one value at most.
LEMMA OneValue ==
  ASSUME AllInv, NEW k, ~ Pending(k), NEW v, NEW w, Held(k, v), Held(k, w)
  PROVE  v = w
<1>. USE DEF AllInv, BaseInv, ClientInv
<1>1. ASSUME NEW i \in LiveSlots, first[i] = k, pc = "put", key = k
      PROVE  FALSE
  <2>1. ~ Growing /\ key = op.key
    BY <1>1 DEF CarriedOnce
  <2>. QED
    BY <1>1, <2>1 DEF Pending, SetPending, TableInv, TypeInv, LoopsInBounds
<1>2. ASSUME NEW j \in OldLive(old.table_size), drain <= j, old.first[j] = k,
             ~ (\A i \in LiveSlots : first[i] # k) \/ (pc = "put" /\ key = k)
      PROVE  /\ j = drain /\ pc = "put" /\ AskedKey = k /\ AskedValue = old.second[j]
             /\ CarriesPair(k, old.second[j]) \/ PutDownPair(k, old.second[j])
  <2>1. Growing /\ drain \in Nat /\ j \in Nat /\ pc \in {"put", "grow"}
    BY <1>2 DEF OldLive, Growing, TableInv, TypeInv, TypeOK, LoopsInBounds
  <2>2. j = drain /\ pc = "put"
    BY <1>2, <2>1 DEF OldApart
  <2>3. AskedKey = k /\ AskedValue = old.second[j]
    BY <1>2, <2>1, <2>2 DEF AskedKey, AskedValue
  <2>. QED  BY <2>2, <2>3, WhileItRuns
<1>3. ASSUME NEW j \in OldLive(old.table_size), drain <= j, old.first[j] = k,
             NEW x, \/ \E i \in LiveSlots : first[i] = k /\ second[i] = x
                    \/ pc = "put" /\ key = k /\ value = x
      PROVE  x = old.second[j]
  <2>1. /\ pc = "put"
        /\ CarriesPair(k, old.second[j]) \/ PutDownPair(k, old.second[j])
    BY <1>2, <1>3
  <2>2. CASE CarriesPair(k, old.second[j])
    BY <1>1, <1>3, <2>1, <2>2 DEF CarriesPair
  <2>3. CASE PutDownPair(k, old.second[j])
    BY <1>1, <1>3, <2>1, <2>3 DEF PutDownPair, IsFirstCopy, NoneTwice
  <2>. QED  BY <2>1, <2>2, <2>3
<1>. QED  BY <1>1, <1>3 DEF Held, NoneTwice, OldOnce

\* The content of a key that is neither being set nor just taken out.
LEMMA ContentIs ==
  ASSUME NEW k, NEW v
  PROVE  AllInv /\ ~ Pending(k) /\ ~ Taken(k) /\ Held(k, v) => ContentOf(k) = v
<1>1. SUFFICES ASSUME AllInv, ~ Pending(k), ~ Taken(k), Held(k, v) PROVE ContentOf(k) = v
  OBVIOUS
<1>2. v \in HeldFor(k) /\ \A w \in HeldFor(k) : w = v
  BY <1>1, HeldMeans, OneValue DEF AllInv, BaseInv, TableInv
<1>3. (CHOOSE w \in HeldFor(k) : TRUE) = v
  BY <1>2
<1>. QED  BY <1>1, <1>2, <1>3 DEF ContentOf, Pending, Taken

LEMMA NoContent ==
  ASSUME NEW k
  PROVE  AllInv /\ ~ Pending(k) /\ (\A v : ~ Held(k, v)) => ContentOf(k) = NoValue
<1>1. SUFFICES ASSUME AllInv, ~ Pending(k), \A v : ~ Held(k, v) PROVE ContentOf(k) = NoValue
  OBVIOUS
<1>2. HeldFor(k) = {}
  BY <1>1, HeldMeans DEF AllInv, BaseInv, TableInv
<1>. QED  BY <1>1, <1>2 DEF ContentOf, Pending

LEMMA PendingContent ==
  ASSUME NEW k
  PROVE  Pending(k) => ContentOf(k) = op.value
  BY DEF ContentOf, Pending

LEMMA TakenContent ==
  ASSUME NEW k
  PROVE  Taken(k) => ContentOf(k) = NoValue
  BY DEF ContentOf, Taken

\* What is held for a key does not change, and what the client is doing to it
\* does not either: its content stays.
LEMMA SameContent ==
  ASSUME AllInv, AllInv', NEW k, ~ Pending(k), ~ Pending(k)', ~ Taken(k), ~ Taken(k)',
         \A v : Held(k, v)' <=> Held(k, v)
  PROVE  ContentOf(k)' = ContentOf(k)
<1>1. CASE \A v : ~ Held(k, v)
  <2>1. ContentOf(k) = NoValue
    BY <1>1, NoContent
  <2>2. (AllInv /\ ~ Pending(k) /\ (\A v : ~ Held(k, v)) => ContentOf(k) = NoValue)'
    BY NoContent, PTL
  <2>. QED  BY <1>1, <2>1, <2>2
<1>2. CASE \E v : Held(k, v)
  <2>1. PICK v : Held(k, v)
    BY <1>2
  <2>2. ContentOf(k) = v
    BY <2>1, ContentIs
  <2>3. (AllInv /\ ~ Pending(k) /\ ~ Taken(k) /\ Held(k, v) => ContentOf(k) = v)'
    BY ContentIs, PTL
  <2>. QED  BY <2>1, <2>2, <2>3
<1>. QED  BY <1>1, <1>2
-----------------------------------------------------------------------------
(* The steps of the table are steps of the map                             *)

\* An exchange of two elements, a put that ends, and the steps of grow() between
\* the puts hold for every key what was held before.
LEMMA HeldAfterSwap ==
  ASSUME AllInv, PutSwap, NEW k, NEW v
  PROVE  Held(k, v)' <=> Held(k, v)
<1>1. /\ pc = "put" /\ pc' = "put" /\ UNCHANGED <<old, drain>>
      /\ index \in LiveSlots /\ LiveSlots' = LiveSlots
      /\ first'[index] = key /\ second'[index] = value
      /\ \A i \in LiveSlots : i # index => first'[i] = first[i] /\ second'[i] = second[i]
      /\ key' = first[index] /\ value' = second[index]
  <2>1. /\ index \in Slots /\ \A i \in LiveSlots : i \in Slots
        /\ first \in [Slots -> KeyOrNone] /\ second \in [Slots -> ValueOrNone]
    BY PutAtIndex DEF PutSwap, AllInv
  <2>. QED  BY <2>1 DEF PutSwap, Advance, growVars, LiveSlots, Slots
<1>2. (\E j \in OldLive(old.table_size) :
          drain <= j /\ old.first[j] = k /\ old.second[j] = v)'
        <=> \E j \in OldLive(old.table_size) :
              drain <= j /\ old.first[j] = k /\ old.second[j] = v
  BY <1>1 DEF OldLive
<1>3. (\E i \in LiveSlots : first[i] = k /\ second[i] = v)' \/ (key' = k /\ value' = v)
        <=> (\E i \in LiveSlots : first[i] = k /\ second[i] = v) \/ (key = k /\ value = v)
  BY <1>1
<1>. QED  BY <1>1, <1>2, <1>3 DEF Held

LEMMA HeldAfterInsert ==
  ASSUME AllInv, PutInsert, NEW k, NEW v
  PROVE  Held(k, v)' <=> Held(k, v)
<1>1. /\ pc = "put" /\ pc' # "put" /\ old' = old
      /\ LiveSlots' = LiveSlots \cup {index} /\ index \notin LiveSlots
      /\ first'[index] = key /\ second'[index] = value
      /\ \A i \in LiveSlots : first'[i] = first[i] /\ second'[i] = second[i]
  <2>1. /\ index \in Slots /\ \A i \in LiveSlots : i \in Slots
        /\ first \in [Slots -> KeyOrNone] /\ second \in [Slots -> ValueOrNone]
        /\ tag \in [Slots -> Tags]
    BY PutAtIndex DEF PutInsert, AllInv
  <2>2. IsLive(TagFor(tag[index])) /\ Slots' = Slots /\ index \notin LiveSlots
    BY DEF PutInsert, TagFor, IsLive, Slots, LiveSlots
  <2>3. LiveSlots' = LiveSlots \cup {index}
    BY <2>1, <2>2 DEF PutInsert, LiveSlots
  <2>. QED  BY <2>1, <2>2, <2>3 DEF PutInsert, PutReturn, EndProbe
<1>2. (\E i \in LiveSlots : first[i] = k /\ second[i] = v)'
        <=> (\E i \in LiveSlots : first[i] = k /\ second[i] = v) \/ (key = k /\ value = v)
  BY <1>1
<1>3. CASE ~ Growing
  <2>1. OldLive(old.table_size) = {} /\ OldLive(old.table_size)' = {}
    BY <1>1, <1>3 DEF OldLive, Growing, AllInv, BaseInv, TableInv, TypeInv, TypeOK
  <2>. QED  BY <1>1, <1>2, <2>1 DEF Held
<1>4. CASE Growing
  <2>1. /\ drain' = drain + 1 /\ drain \in Nat
        /\ OldLive(old.table_size)' = OldLive(old.table_size)
        /\ \A j \in OldLive(old.table_size) : j \in Nat
    BY <1>1, <1>4 DEF PutInsert, PutReturn, OldLive, AllInv, BaseInv, TableInv, TypeInv, TypeOK
  <2>2. \E i \in LiveSlots' : first'[i] = old.first[drain] /\ second'[i] = old.second[drain]
    <3>1. PICK i \in LiveSlots' : first'[i] = AskedKey /\ second'[i] = AskedValue
      BY PutStores DEF AllInv, BaseInv
    <3>2. AskedKey = old.first[drain] /\ AskedValue = old.second[drain]
      BY <1>4 DEF AskedKey, AskedValue
    <3>. QED  BY <3>1, <3>2
  <2>3. \A j \in OldLive(old.table_size) : drain <= j <=> j = drain \/ drain' <= j
    BY <2>1
  <2>. QED  BY <1>1, <1>2, <2>1, <2>2, <2>3 DEF Held
<1>. QED  BY <1>3, <1>4

LEMMA HeldInGrow ==
  ASSUME AllInv, GrowMove \/ GrowSkip, NEW k, NEW v
  PROVE  Held(k, v)' <=> Held(k, v)
<1>1. /\ pc = "grow" /\ UNCHANGED <<table_size, tag, first, second, old>>
      /\ LiveSlots' = LiveSlots /\ OldLive(old.table_size)' = OldLive(old.table_size)
      /\ drain \in Nat /\ old.table_size \in Nat
      /\ \A j \in OldLive(old.table_size) : j \in Nat
  BY DEF GrowMove, GrowSkip, tableVars, growVars, LiveSlots, Slots, OldLive, AllInv, BaseInv,
         TableInv, TypeInv, TypeOK
<1>2. CASE GrowMove
  <2>1. /\ drain' = drain /\ pc' = "put" /\ drain \in OldLive(old.table_size)
        /\ key' = old.first[drain] /\ value' = old.second[drain]
    BY <1>1, <1>2 DEF GrowMove, BeginProbe, growVars, OldLive
  <2>2. CASE key' = k /\ value' = v
    <3>1. drain <= drain /\ old.first[drain] = k /\ old.second[drain] = v
      BY <1>1, <2>1, <2>2
    <3>2. Held(k, v) /\ Held(k, v)'
      BY <2>1, <2>2, <3>1 DEF Held
    <3>. QED  BY <3>2
  <2>3. CASE ~ (key' = k /\ value' = v)
    BY <1>1, <2>1, <2>3 DEF Held
  <2>. QED  BY <2>2, <2>3
<1>3. CASE GrowSkip
  <2>1. drain' = drain + 1 /\ pc' = "grow" /\ drain \notin OldLive(old.table_size)
    BY <1>1, <1>3 DEF GrowSkip, OldLive
  <2>2. \A j \in OldLive(old.table_size) : drain <= j <=> drain' <= j
    BY <1>1, <2>1
  <2>. QED  BY <1>1, <2>1, <2>2 DEF Held
<1>. QED  BY <1>2, <1>3

\* Outside a put or a growth nothing but the table holds anything.
LEMMA HeldByTable ==
  ASSUME NEW k, NEW v
  PROVE  TypeInv /\ pc \notin {"put", "grow"}
           => (Held(k, v) <=> \E i \in LiveSlots : first[i] = k /\ second[i] = v)
<1>1. TypeInv /\ pc \notin {"put", "grow"} => OldLive(old.table_size) = {}
  BY DEF OldLive, Growing, TypeInv, TypeOK, LoopsInBounds
<1>. QED  BY <1>1 DEF Held

Contents == [k \in Keys |-> ContentOf(k)]

\* No key is being set or taken out when no call runs, or a lookup starts.
LEMMA NothingUnderWay ==
  ASSUME NEW k
  PROVE  /\ pc \in {"idle", "find"} => ~ Pending(k)
         /\ pc # "find" \/ op.name # "remove_got" => ~ Taken(k)
  BY DEF Pending, SetPending, Taken

LEMMA MapAfterSet ==
  ASSUME AllInv, AllInv', NEW k \in Keys, NEW v \in Values, ClientSet(k, v)
  PROVE  Map!Set(k, v)
<1>1. /\ pc = "idle" /\ ret' = NoValue /\ pc' \in {"put", "grow"} /\ old.table_size = 0
      /\ op' = [name |-> "set", key |-> k, value |-> v]
      /\ pc' = "put" => key' = k
  BY DEF ClientSet, Set, BeginGrow, BeginProbe, AllInv, BaseInv, TableInv, TypeInv, TypeOK,
         LoopsInBounds, Growing
<1>2. ContentOf(k)' = v
  <2>1. Pending(k)'
    BY <1>1 DEF Pending, SetPending
  <2>2. (Pending(k) => ContentOf(k) = op.value)'
    BY PendingContent, PTL
  <2>. QED  BY <1>1, <2>1, <2>2
<1>3. ASSUME NEW l \in Keys, l # k
      PROVE  ContentOf(l)' = ContentOf(l)
  <2>1. ASSUME NEW w
        PROVE  Held(l, w)' <=> Held(l, w)
    <3>1. Held(l, w) <=> \E i \in LiveSlots : first[i] = l /\ second[i] = w
      BY <1>1, HeldByTable DEF AllInv, BaseInv, TableInv
    <3>2. CASE remaining_elems = 0 /\ BeginGrow
      <4>1. /\ pc' = "grow" /\ LiveSlots' = {} /\ drain' = 0
            /\ old' = [table_size |-> table_size, tag |-> tag,
                       first |-> first, second |-> second]
        BY <3>2 DEF BeginGrow, EmptyTags, LiveSlots, Slots, IsLive
      <4>2. OldLive(old.table_size)' = LiveSlots /\ \A i \in LiveSlots : 0 <= i
        BY <4>1 DEF OldLive, LiveSlots, Slots
      <4>. QED  BY <3>1, <4>1, <4>2 DEF Held
    <3>3. CASE remaining_elems # 0 /\ BeginProbe(k, v, "put") /\ UNCHANGED <<tableVars, growVars>>
      <4>1. /\ key' = k /\ UNCHANGED <<first, second>> /\ LiveSlots' = LiveSlots
            /\ OldLive(old.table_size)' = {}
        BY <1>1, <3>3 DEF BeginProbe, tableVars, growVars, LiveSlots, Slots, OldLive
      <4>. QED  BY <1>3, <3>1, <4>1 DEF Held
    <3>. QED  BY <3>2, <3>3 DEF ClientSet, Set
  <2>2. ~ Pending(l) /\ ~ Pending(l)' /\ ~ Taken(l) /\ ~ Taken(l)'
    BY <1>1, <1>3 DEF Pending, SetPending, Taken
  <2>. QED  BY <2>1, <2>2, SameContent
<1>4. Contents' = [Contents EXCEPT ![k] = v]
  BY <1>2, <1>3 DEF Contents
<1>. QED  BY <1>1, <1>4 DEF Map!Set, Contents

\* The steps of set() after the call: the map has changed already.
LEMMA MapDuringPut ==
  ASSUME AllInv, AllInv', PutStep \/ GrowStep
  PROVE  UNCHANGED <<Contents, ret>>
<1>1. /\ pc \in {"put", "grow"} /\ op.name = "set" /\ ret' = ret /\ op' = op
      /\ \A k : ~ Taken(k) /\ ~ Taken(k)'
  BY DEF PutStep, GrowStep, PutUpdate, PutSwap, PutSkip, PutInsert, GrowMove, GrowSkip,
         GrowDone, PutReturn, EndProbe, Advance, BeginProbe, Taken, AllInv, BaseInv, TableInv,
         TypeInv, LoopsInBounds
<1>2. SUFFICES ASSUME NEW k \in Keys PROVE ContentOf(k)' = ContentOf(k)
  BY <1>1 DEF Contents
\* The key that is being set keeps its new value, for one of two reasons.
<1>3. ASSUME Pending(k), Pending(k)' \/ Held(k, op.value)'
      PROVE  ContentOf(k)' = ContentOf(k)
  <2>1. ContentOf(k) = op.value
    BY <1>3, PendingContent
  <2>2. CASE Pending(k)'
    <3>1. (Pending(k) => ContentOf(k) = op.value)'
      BY PendingContent, PTL
    <3>. QED  BY <1>1, <2>1, <2>2, <3>1
  <2>3. CASE ~ Pending(k)' /\ Held(k, op.value)'
    <3>1. PICK v : v = op.value
      OBVIOUS
    <3>2. (AllInv /\ ~ Pending(k) /\ ~ Taken(k) /\ Held(k, v) => ContentOf(k) = v)'
      BY ContentIs, PTL
    <3>3. Held(k, v)'
      BY <1>1, <2>3, <3>1
    <3>. QED  BY <1>1, <2>1, <2>3, <3>1, <3>2, <3>3
  <2>. QED  BY <1>3, <2>2, <2>3
\* The others keep what is held for them.
<1>4. ASSUME ~ Pending(k), ~ Pending(k)', \A v : Held(k, v)' <=> Held(k, v)
      PROVE  ContentOf(k)' = ContentOf(k)
  BY <1>1, <1>4, SameContent
<1>5. CASE PutUpdate
  <2>1. /\ ~ Growing /\ key = op.key /\ value = op.value /\ index \in LiveSlots
        /\ index \in Slots /\ first[index] = key /\ pc = "put" /\ pc' = "idle"
        /\ second \in [Slots -> ValueOrNone] /\ second' = [second EXCEPT ![index] = value]
        /\ UNCHANGED <<first, old>> /\ LiveSlots' = LiveSlots
    BY <1>5, OnlyOwnUpdated, PutAtIndex
       DEF PutUpdate, PutReturn, EndProbe, LiveSlots, Slots, AllInv
  <2>2. OldLive(old.table_size) = {} /\ OldLive(old.table_size)' = {}
    BY <2>1 DEF OldLive, Growing, AllInv, BaseInv, TableInv, TypeInv, TypeOK
  <2>3. ~ Pending(k)' /\ (Pending(k) <=> k = op.key)
    BY <1>1, <2>1 DEF Pending, SetPending
  <2>4. CASE k = op.key
    BY <1>1, <1>3, <2>1, <2>3, <2>4 DEF Held
  <2>5. CASE k # op.key
    <3>1. \A v : Held(k, v)' <=> Held(k, v)
      BY <2>1, <2>2, <2>5 DEF Held, LiveSlots
    <3>. QED  BY <1>4, <2>3, <2>5, <3>1
  <2>. QED  BY <2>4, <2>5
<1>6. CASE PutSwap \/ PutInsert
  <2>1. \A v : Held(k, v)' <=> Held(k, v)
    BY <1>6, HeldAfterSwap, HeldAfterInsert
  <2>2. CASE Growing
    <3>1. pc \in {"put", "grow"} /\ pc' \in {"put", "grow"} /\ Growing'
      BY <1>6, <2>2 DEF PutSwap, PutInsert, PutReturn, EndProbe, Advance, Growing, growVars
    <3>2. (Pending(k) <=> k = op.key) /\ (Pending(k)' <=> k = op.key)
      BY <1>1, <2>2, <3>1 DEF Pending, SetPending
    <3>. QED  BY <1>3, <1>4, <2>1, <3>2
  <2>3. CASE ~ Growing
    <3>1. pc = "put" /\ pc' \in {"put", "idle"} /\ ~ Growing' /\ (pc' = "put" => key' # key)
      BY <1>6, <2>3 DEF PutSwap, PutInsert, PutReturn, EndProbe, Advance, Growing, growVars
    <3>2. Pending(k) <=> k = op.key /\ key = k
      BY <1>1, <2>3, <3>1 DEF Pending, SetPending
    <3>3. CASE Pending(k)
      <4>1. Held(k, op.value)
        BY <2>3, <3>1, <3>2, <3>3 DEF Held, AllInv, ClientInv, CarriedOnce
      <4>2. PICK v : v = op.value
        OBVIOUS
      <4>3. Held(k, v)'
        BY <2>1, <4>1, <4>2
      <4>. QED  BY <1>1, <1>3, <3>3, <4>2, <4>3
    <3>4. CASE ~ Pending(k)
      <4>1. ~ Pending(k)'
        <5>1. SUFFICES ASSUME pc' = "put", k = op.key, key' = k PROVE FALSE
          BY <1>1, <3>1 DEF Pending, SetPending
        <5>2. ClientInv' /\ BaseInv' /\ BaseInv /\ ClientInv
          BY DEF AllInv
        <5>3. PutSwap
          BY <1>6, <2>3, <5>1 DEF PutInsert, PutReturn, EndProbe
        <5>4. CarriesPair(k, op.value) \/ PutDownPair(k, op.value)
          BY <2>3, <3>1, <5>1, <5>2, WhileItRuns DEF BaseInv, AskedKey, AskedValue
        <5>5. key # k /\ first[index] = k /\ index \in LiveSlots
          BY <3>1, <5>1, <5>2, <5>3, PutAtIndex DEF PutSwap, Advance, LiveSlots
        <5>6. PICK i \in LiveSlots : first[i] = k /\ Distance(table_size, k, i)
                                                       < Distance(table_size, k, index)
          BY <5>4, <5>5 DEF CarriesPair, PutDownPair, IsFirstCopy
        <5>7. i = index /\ Distance(table_size, k, i) \in Int
          BY <3>1, <5>2, <5>5, <5>6, PutAtIndex DEF ClientInv, NoneTwice
        <5>. QED  BY <5>6, <5>7
      <4>. QED  BY <1>4, <2>1, <3>4, <4>1
    <3>. QED  BY <3>3, <3>4
  <2>. QED  BY <2>2, <2>3
<1>7. CASE PutSkip
  <2>1. /\ UNCHANGED <<first, second, old, drain, key, value, pc>>
        /\ LiveSlots' = LiveSlots
    BY <1>7 DEF PutSkip, Advance, tableVars, growVars, LiveSlots, Slots
  <2>2. \A v : Held(k, v)' <=> Held(k, v)
    BY <2>1 DEF Held, OldLive
  <2>3. Pending(k)' <=> Pending(k)
    BY <1>1, <2>1 DEF Pending, SetPending, Growing
  <2>. QED  BY <1>3, <1>4, <2>2, <2>3
<1>8. CASE GrowMove \/ GrowSkip
  <2>1. \A v : Held(k, v)' <=> Held(k, v)
    BY <1>8, HeldInGrow
  <2>2. pc = "grow" /\ pc' \in {"put", "grow"} /\ (pc' = "put" => Growing')
    BY <1>8 DEF GrowMove, GrowSkip, BeginProbe, growVars, Growing, AllInv, BaseInv, TableInv,
                TypeInv, TypeOK
  <2>3. (Pending(k) <=> k = op.key) /\ (Pending(k)' <=> k = op.key)
    BY <1>1, <2>2 DEF Pending, SetPending
  <2>. QED  BY <1>3, <1>4, <2>1, <2>3
<1>9. CASE GrowDone
  <2>1. /\ pc = "grow" /\ pc' = "put" /\ key' = op.key /\ UNCHANGED <<first, second>>
        /\ LiveSlots' = LiveSlots /\ OldLive(old.table_size)' = {}
        /\ \A j \in OldLive(old.table_size) : ~ drain <= j
    BY <1>9, TypeNoTable DEF GrowDone, BeginProbe, tableVars, LiveSlots, Slots, OldLive, AllInv,
                             BaseInv, TableInv, TypeInv, TypeOK
  <2>2. (Pending(k) <=> k = op.key) /\ (Pending(k)' <=> k = op.key)
    BY <1>1, <2>1 DEF Pending, SetPending
  <2>3. CASE k # op.key
    <3>1. \A v : Held(k, v)' <=> Held(k, v)
      BY <2>1, <2>3 DEF Held
    <3>. QED  BY <1>4, <2>2, <2>3, <3>1
  <2>. QED  BY <1>3, <2>2, <2>3
<1>. QED  BY <1>5, <1>6, <1>7, <1>8, <1>9 DEF PutStep, GrowStep

\* A lookup touches nothing of a key that is not being taken out.
LEMMA ContentInLookup ==
  ASSUME AllInv, AllInv', pc \in {"idle", "find"}, pc' \in {"idle", "find"},
         UNCHANGED <<tableVars, growVars>>, NEW k, ~ Taken(k), ~ Taken(k)'
  PROVE  ContentOf(k)' = ContentOf(k)
<1>1. \A v : Held(k, v)' <=> Held(k, v)
  <2>1. OldLive(old.table_size) = {} /\ OldLive(old.table_size)' = {}
    BY DEF OldLive, Growing, growVars, AllInv, BaseInv, TableInv, TypeInv, TypeOK, LoopsInBounds
  <2>. QED  BY <2>1 DEF Held, tableVars, LiveSlots, Slots
<1>2. ~ Pending(k) /\ ~ Pending(k)'
  BY DEF Pending, SetPending
<1>. QED  BY <1>1, <1>2, SameContent

\* The slot that a search has hit holds its key, and no other slot does.
LEMMA AtHit ==
  ASSUME AllInv, pc = "find", FindHit
  PROVE  /\ index \in LiveSlots /\ first[index] = op.key /\ op.key \in Keys /\ index \in Slots
         /\ \A i \in LiveSlots : first[i] = op.key => i = index
         /\ ~ Pending(op.key) /\ Held(op.key, second[index])
<1>1. /\ index \in LiveSlots /\ first[index] = op.key /\ op.key \in Keys /\ index \in Slots
  BY DEF FindHit, LiveSlots, AllInv, BaseInv, TableInv, TypeInv, TypeOK, PathInv,
         SearchedInVain
<1>2. ~ Pending(op.key)
  BY DEF Pending, SetPending
<1>. QED  BY <1>1, <1>2 DEF AllInv, ClientInv, NoneTwice, Held

LEMMA MapDuringFind ==
  ASSUME AllInv, AllInv', FindSkip \/ FindFail \/ FindReturn \/ TakeValue
  PROVE  [Map!Next]_<<Contents, ret>>
<1>1. /\ pc = "find" /\ pc' \in {"idle", "find"} /\ UNCHANGED <<tableVars, growVars>>
      /\ op.key \in Keys /\ op'.key = op.key
  BY DEF FindSkip, FindFail, FindReturn, TakeValue, Advance, EndProbe, BeginProbe, AllInv,
         BaseInv, TableInv, TypeInv, TypeOK
<1>2. ASSUME NEW k, ~ Taken(k), ~ Taken(k)'
      PROVE  ContentOf(k)' = ContentOf(k)
  BY <1>1, <1>2, ContentInLookup
<1>3. ASSUME NEW k
      PROVE  /\ Taken(k) => ContentOf(k) = NoValue
             /\ Taken(k)' => ContentOf(k)' = NoValue
  <2>1. (Taken(k) => ContentOf(k) = NoValue)'
    BY TakenContent, PTL
  <2>. QED  BY <2>1, TakenContent
<1>4. CASE FindSkip
  <2>1. op' = op /\ ret' = ret /\ pc' = "find"
    BY <1>4 DEF FindSkip, Advance
  <2>2. \A k : Taken(k)' <=> Taken(k)
    BY <1>1, <2>1 DEF Taken
  <2>3. \A k \in Keys : ContentOf(k)' = ContentOf(k)
    BY <1>2, <1>3, <2>2
  <2>. QED  BY <2>1, <2>3 DEF Contents
<1>5. CASE FindFail
  <2>1. op' = op /\ ret' = NoValue /\ pc' = "idle" /\ \A k : ~ Taken(k)'
    BY <1>5 DEF FindFail, EndProbe, Taken
  <2>2. ASSUME NEW k \in Keys, Taken(k)
        PROVE  ContentOf(k)' = ContentOf(k)
    <3>1. \A i \in LiveSlots : first[i] # k
      BY <1>5, <2>2, GivesUpInVain DEF Taken, AllInv, BaseInv, TableInv
    <3>2. \A v : ~ Held(k, v)'
      <4>1. SUFFICES ASSUME NEW v PROVE ~ Held(k, v)'
        OBVIOUS
      <4>2. (TypeInv /\ pc \notin {"put", "grow"}
              => (Held(k, v) <=> \E i \in LiveSlots : first[i] = k /\ second[i] = v))'
        BY HeldByTable, PTL
      <4>3. LiveSlots' = LiveSlots /\ first' = first
        BY <1>1 DEF tableVars, LiveSlots, Slots
      <4>. QED  BY <2>1, <3>1, <4>2, <4>3 DEF AllInv, BaseInv, TableInv
    <3>3. (AllInv /\ ~ Pending(k) /\ (\A v : ~ Held(k, v)) => ContentOf(k) = NoValue)'
      BY NoContent, PTL
    <3>4. ~ Pending(k)'
      BY <2>1 DEF Pending, SetPending
    <3>. QED  BY <1>3, <2>2, <3>2, <3>3, <3>4
  <2>3. \A k \in Keys : ContentOf(k)' = ContentOf(k)
    BY <1>2, <2>1, <2>2
  <2>. QED  BY <2>1, <2>3 DEF Contents, Map!Next, Map!BeginCall
<1>6. CASE FindReturn
  <2>1. /\ op' = op /\ ret' = second[index] /\ FindHit /\ op.name = "find"
        /\ \A k : ~ Taken(k) /\ ~ Taken(k)'
    BY <1>6 DEF FindReturn, EndProbe, Taken
  <2>2. \A k \in Keys : ContentOf(k)' = ContentOf(k)
    BY <1>2, <2>1
  <2>3. ContentOf(op.key) = second[index]
    <3>1. PICK k, v : k = op.key /\ v = second[index]
      OBVIOUS
    <3>. QED  BY <1>1, <2>1, <3>1, AtHit, ContentIs
  <2>4. Map!Get(op.key)
    BY <1>1, <2>1, <2>2, <2>3 DEF Map!Get, Contents
  <2>. QED  BY <1>1, <2>4 DEF Map!Next
<1>7. CASE TakeValue
  <2>1. /\ op'.name = "remove_got" /\ pc' = "find" /\ ret' = second[index] /\ FindHit
        /\ \A k : ~ Taken(k) /\ (Taken(k)' <=> k = op.key)
    BY <1>1, <1>7 DEF TakeValue, BeginProbe, Taken, AllInv, BaseInv, TableInv, TypeInv, TypeOK
  <2>2. \A k \in Keys : ContentOf(k)' = IF k = op.key THEN NoValue ELSE ContentOf(k)
    BY <1>2, <1>3, <2>1
  <2>3. ContentOf(op.key) = second[index]
    <3>1. PICK k, v : k = op.key /\ v = second[index]
      OBVIOUS
    <3>. QED  BY <1>1, <2>1, <3>1, AtHit, ContentIs
  <2>4. Map!RemoveAndGet(op.key)
    BY <1>1, <2>1, <2>2, <2>3 DEF Map!RemoveAndGet, Contents
  <2>. QED  BY <1>1, <2>4 DEF Map!Next
<1>. QED  BY <1>4, <1>5, <1>6, <1>7

\* remove() takes the key out of the map when it takes it out of the table;
\* remove_and_get() has done so when it took the value.
LEMMA MapAfterRemoval ==
  ASSUME AllInv, AllInv', RemoveHit
  PROVE  [Map!Next]_<<Contents, ret>>
<1>1. /\ pc = "find" /\ pc' = "idle" /\ op.name \in {"remove", "remove_got"} /\ FindHit
      /\ op' = op /\ ret' = ret /\ UNCHANGED <<old, drain>> /\ \A k : ~ Taken(k)'
      /\ \A k : Taken(k) <=> op.name = "remove_got" /\ k = op.key
  BY DEF RemoveHit, EndProbe, growVars, Taken
<1>2. /\ index \in LiveSlots /\ index \in Slots /\ first[index] = op.key /\ op.key \in Keys
      /\ \A i \in LiveSlots : first[i] = op.key => i = index
  BY <1>1, AtHit
<1>3. /\ LiveSlots' = LiveSlots \ {index}
      /\ \A i \in LiveSlots' : first'[i] = first[i] /\ second'[i] = second[i]
  <2>1. /\ tag \in [Slots -> Tags] /\ first \in [Slots -> KeyOrNone]
        /\ second \in [Slots -> ValueOrNone]
    BY DEF AllInv, BaseInv, TableInv, TypeInv, TypeOK, WellFormed, Slots
  <2>2. Slots' = Slots
    BY DEF RemoveHit, Slots
  <2>3. LiveSlots' = LiveSlots \ {index}
    BY <1>2, <2>1, <2>2 DEF RemoveHit, LiveSlots, IsLive
  <2>4. \A i \in LiveSlots' : i \in Slots /\ i # index
    BY <2>2, <2>3 DEF LiveSlots
  <2>. QED  BY <2>1, <2>3, <2>4 DEF RemoveHit
<1>4. ASSUME NEW k, NEW v
      PROVE  Held(k, v)' <=> k # op.key /\ Held(k, v)
  <2>1. (TypeInv /\ pc \notin {"put", "grow"}
          => (Held(k, v) <=> \E i \in LiveSlots : first[i] = k /\ second[i] = v))'
    BY HeldByTable, PTL
  <2>2. Held(k, v) <=> \E i \in LiveSlots : first[i] = k /\ second[i] = v
    BY <1>1, HeldByTable DEF AllInv, BaseInv, TableInv
  <2>. QED  BY <1>1, <1>2, <1>3, <2>1, <2>2 DEF AllInv, BaseInv, TableInv
<1>5. \A k : ~ Pending(k) /\ ~ Pending(k)'
  BY <1>1 DEF Pending, SetPending
<1>6. \A k \in Keys : k # op.key => ContentOf(k)' = ContentOf(k)
  BY <1>1, <1>4, <1>5, SameContent
<1>7. ContentOf(op.key)' = NoValue
  <2>1. PICK k : k = op.key
    OBVIOUS
  <2>2. (AllInv /\ ~ Pending(k) /\ (\A v : ~ Held(k, v)) => ContentOf(k) = NoValue)'
    BY NoContent, PTL
  <2>. QED  BY <1>1, <1>4, <1>5, <2>1, <2>2
<1>8. CASE op.name = "remove"
  <2>1. ret = NoValue
    BY <1>1, <1>8 DEF AllInv, ClientInv, NothingReturned
  <2>2. Map!Remove(op.key)
    BY <1>1, <1>6, <1>7, <2>1 DEF Map!Remove, Contents
  <2>. QED  BY <1>2, <2>2 DEF Map!Next
<1>9. CASE op.name = "remove_got"
  <2>1. ContentOf(op.key) = NoValue
    BY <1>1, <1>9, TakenContent
  <2>. QED  BY <1>1, <1>6, <1>7, <2>1 DEF Contents
<1>. QED  BY <1>1, <1>8, <1>9

LEMMA MapAfterClear ==
  ASSUME AllInv, AllInv', Clear
  PROVE  Map!Clear
<1>1. /\ pc = "idle" /\ pc' = "idle" /\ ret' = NoValue /\ LiveSlots' = {}
  BY DEF Clear, LiveSlots, Slots, IsLive
<1>2. ASSUME NEW k \in Keys
      PROVE  ContentOf(k)' = NoValue
  <2>1. \A v : ~ Held(k, v)'
    <3>1. SUFFICES ASSUME NEW v PROVE ~ Held(k, v)'
      OBVIOUS
    <3>2. (TypeInv /\ pc \notin {"put", "grow"}
            => (Held(k, v) <=> \E i \in LiveSlots : first[i] = k /\ second[i] = v))'
      BY HeldByTable, PTL
    <3>. QED  BY <1>1, <3>2 DEF AllInv, BaseInv, TableInv
  <2>2. (AllInv /\ ~ Pending(k) /\ (\A v : ~ Held(k, v)) => ContentOf(k) = NoValue)'
    BY NoContent, PTL
  <2>3. ~ Pending(k)'
    BY <1>1 DEF Pending, SetPending
  <2>. QED  BY <2>1, <2>2, <2>3
<1>. QED  BY <1>1, <1>2 DEF Map!Clear, Contents

LEMMA MapNext ==
  AllInv /\ AllInv' /\ [ClientNext]_clientVars => [Map!Next]_<<Contents, ret>>
<1>. SUFFICES ASSUME AllInv, AllInv', [ClientNext]_clientVars
              PROVE  [Map!Next]_<<Contents, ret>>
  OBVIOUS
<1>1. ASSUME NEW k \in Keys, NEW v \in Values, ClientSet(k, v)
      PROVE  [Map!Next]_<<Contents, ret>>
  <2>1. Map!Set(k, v)
    BY <1>1, MapAfterSet
  <2>. QED  BY <2>1 DEF Map!Next
<1>2. ASSUME NEW k \in Keys, NEW name \in {"find", "remove", "remove_and_get"},
             Lookup(name, k)
      PROVE  [Map!Next]_<<Contents, ret>>
  <2>1. /\ pc = "idle" /\ pc' \in {"idle", "find"} /\ ret' = NoValue /\ op'.name = name
        /\ UNCHANGED <<tableVars, growVars>>
    BY <1>2 DEF Lookup, BeginProbe
  <2>2. \A l : ~ Taken(l) /\ ~ Taken(l)'
    BY <2>1 DEF Taken
  <2>3. \A l \in Keys : ContentOf(l)' = ContentOf(l)
    BY <2>1, <2>2, ContentInLookup
  <2>. QED  BY <2>1, <2>3 DEF Contents, Map!Next, Map!BeginCall
<1>3. CASE Clear
  BY <1>3, MapAfterClear DEF Map!Next
<1>4. CASE PutStep \/ GrowStep
  BY <1>4, MapDuringPut
<1>5. CASE FindSkip \/ FindFail \/ FindReturn \/ TakeValue
  BY <1>5, MapDuringFind
<1>6. CASE RemoveHit
  BY <1>6, MapAfterRemoval
<1>7. CASE UNCHANGED clientVars
  <2>1. \A k \in Keys : ContentOf(k)' = ContentOf(k)
    BY <1>7 DEF clientVars, vars, tableVars, growVars, probeVars, ContentOf, HeldFor,
                SetPending, Growing, LiveSlots, Slots
  <2>. QED  BY <1>7, <2>1 DEF Contents, clientVars, vars
<1>. QED
  BY <1>1, <1>2, <1>3, <1>4, <1>5, <1>6, <1>7
     DEF ClientNext, ClientFind, ClientRemove, ClientRemoveAndGet, ClientClear, ClientStep,
         Step, FindStep, Find, Remove, RemoveAndGet
-----------------------------------------------------------------------------
(* The theorems                                                            *)

LEMMA ClientInvariant == ClientSpec => []AllInv
<1>1. ClientInit => Init
  BY DEF ClientInit
<1>2. [ClientNext]_clientVars => [Next]_vars
  BY DEF ClientNext, ClientSet, ClientFind, ClientRemove, ClientRemoveAndGet, ClientClear,
         ClientStep, clientVars, Next, Call
<1>3. Init => TypeInv /\ CountInv /\ PathInv /\ StoreInv
  BY TypeInit, CountInit, PathInit, StoreInit
<1>4. TypeInv /\ CountInv /\ PathInv <=> TableInv
  BY DEF TableInv
<1>5. ClientSpec => [](TypeInv /\ CountInv /\ PathInv /\ StoreInv)
  BY <1>1, <1>2, <1>3, <1>4, TypeNext, CountNext, PathNext, StoreNext, PTL DEF ClientSpec
<1>6. TypeInv /\ CountInv /\ PathInv /\ StoreInv <=> BaseInv
  BY <1>4 DEF BaseInv
<1>7. ClientSpec => []BaseInv
  BY <1>5, <1>6, PTL
<1>8. ClientSpec => []ClientInv
  BY <1>7, ClientInvInit, ClientInvNext, PTL DEF ClientSpec
<1>9. BaseInv /\ ClientInv <=> AllInv
  BY DEF AllInv
<1>. QED  BY <1>7, <1>8, <1>9, PTL

LEMMA MapInit == ClientInit => Map!Init
<1>1. SUFFICES ASSUME ClientInit PROVE Map!Init
  OBVIOUS
<1>2. pc = "idle" /\ ret = NoValue /\ table_size = 0 /\ old = NoTable
  BY <1>1 DEF ClientInit, Init
<1>3. ASSUME NEW k \in Keys
      PROVE  ContentOf(k) = NoValue
  <2>1. old.table_size = 0 /\ drain = 0 /\ LiveSlots = {}
    BY <1>1, <1>2, TypeNoTable DEF ClientInit, Init, LiveSlots, Slots
  <2>2. HeldFor(k) = {}
    <3>1. 0 .. -1 = {}
      OBVIOUS
    <3>. QED  BY <1>2, <2>1, <3>1 DEF HeldFor
  <2>. QED  BY <1>2, <2>2 DEF ContentOf, SetPending
<1>. QED  BY <1>2, <1>3 DEF Map!Init

\* Used in phases, the hash table implements the abstract map, whatever the keys
\* and their hashes: set() puts, get() gets, remove() removes, and neither
\* displacements nor tombstones nor growths show.
THEOREM TableImplementsMap == ClientSpec => ImplementsMap
<1>1. AllInv /\ AllInv' /\ [ClientNext]_clientVars
        => [Map!Next]_<<[k \in Keys |-> ContentOf(k)], ret>>
  BY MapNext DEF Contents
<1>. QED
  BY <1>1, ClientInvariant, MapInit, PTL DEF ClientSpec, ImplementsMap, Map!Spec

\* The live slots and the keys of the map are as many: no key is in two slots.
LEMMA SizeFollows == AllInv => SizeIsMapSize
<1>1. SUFFICES ASSUME AllInv, pc = "idle" PROVE live_elems = Map!Size
  BY DEF SizeIsMapSize
<1>. DEFINE K == {k \in Keys : Contents[k] # NoValue}
            f == [i \in LiveSlots |-> first[i]]
<1>2. /\ \A i \in LiveSlots : first[i] \in Keys /\ second[i] \in Values
      /\ \A i, j \in LiveSlots : first[i] = first[j] => i = j
  BY <1>1 DEF LiveSlots, Slots, AllInv, BaseInv, ClientInv, NoneTwice, TableInv, TypeInv, TypeOK,
         WellFormed
<1>3. \A k, v : Held(k, v) <=> \E i \in LiveSlots : first[i] = k /\ second[i] = v
  BY <1>1, HeldByTable DEF AllInv, BaseInv, TableInv
<1>4. \A k : ~ Pending(k) /\ ~ Taken(k)
  BY <1>1 DEF Pending, SetPending, Taken
<1>5. K = {first[i] : i \in LiveSlots}
  <2>1. ASSUME NEW i \in LiveSlots
        PROVE  first[i] \in K
    <3>1. Held(first[i], second[i])
      BY <1>3
    <3>2. ContentOf(first[i]) = second[i]
      BY <1>1, <1>4, <3>1, ContentIs
    <3>. QED  BY <1>2, <3>2, HashTableAssumption DEF Contents
  <2>2. ASSUME NEW k \in K
        PROVE  \E i \in LiveSlots : first[i] = k
    <3>1. ~ \A v : ~ Held(k, v)
      BY <1>1, <1>4, <2>2, NoContent DEF Contents
    <3>. QED  BY <1>3, <3>1
  <2>. QED  BY <2>1, <2>2
<1>6. f \in Bijection(LiveSlots, K)
  <2>1. f \in Injection(LiveSlots, K)
    BY <1>2, <1>5 DEF Injection, IsInjective
  <2>2. f \in Surjection(LiveSlots, K)
    BY <1>5 DEF Surjection
  <2>. QED  BY <2>1, <2>2 DEF Bijection
<1>7. IsFiniteSet(LiveSlots)
  <2>1. LiveSlots \in SUBSET (0 .. table_size - 1) /\ table_size \in Nat
    BY <1>1 DEF LiveSlots, Slots, AllInv, BaseInv, TableInv, TypeInv, TypeOK
  <2>. QED  BY <2>1, SlotsFinite
<1>8. Cardinality(LiveSlots) = Cardinality(K)
  BY <1>6, <1>7, FS_Bijection DEF ExistsBijection
<1>9. live_elems = Cardinality(LiveSlots)
  BY <1>1 DEF AllInv, BaseInv, TableInv, CountInv, Counters
<1>10. K = {k \in Keys : [j \in Keys |-> ContentOf(j)][k] # NoValue}
  BY DEF Contents
<1>11. Map!Cardinality(K) = Cardinality(K)
  BY DEF Map!Cardinality, Cardinality
<1>. QED  BY <1>8, <1>9, <1>10, <1>11 DEF Map!Size

\* size() is the number of keys that the map has, between any two calls.
THEOREM SizeIsExact == ClientSpec => []SizeIsMapSize
  BY ClientInvariant, SizeFollows, PTL
=============================================================================
