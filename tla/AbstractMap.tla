----------------------------- MODULE AbstractMap -----------------------------
(***************************************************************************)
(* What a Map promises: a partial function from keys to values, as the     *)
(* interface util/data/abstract_map.hpp declares it and map_test.cpp uses  *)
(* it.  A key without a value is mapped to NoValue.                        *)
(***************************************************************************)
EXTENDS FiniteSets

CONSTANTS Keys, Values, NoValue

VARIABLES
  contents,   \* the value of every key, or NoValue
  result      \* what the last call returned, or NoValue

Init ==
  /\ contents = [k \in Keys |-> NoValue]
  /\ result = NoValue

Set(k, v) ==
  /\ contents' = [contents EXCEPT ![k] = v]
  /\ result' = NoValue

\* has(), get() and find(): nothing is returned for a key that is not there
\* (get() throws).
Get(k) ==
  /\ result' = contents[k]
  /\ UNCHANGED contents

Remove(k) ==
  /\ contents' = [contents EXCEPT ![k] = NoValue]
  /\ result' = NoValue

RemoveAndGet(k) ==
  /\ contents' = [contents EXCEPT ![k] = NoValue]
  /\ result' = contents[k]

Clear ==
  /\ contents' = [k \in Keys |-> NoValue]
  /\ result' = NoValue

\* A call begins: it has returned nothing yet.
BeginCall ==
  /\ result' = NoValue
  /\ UNCHANGED contents

Next ==
  \/ \E k \in Keys, v \in Values : Set(k, v)
  \/ \E k \in Keys : Get(k) \/ Remove(k) \/ RemoveAndGet(k)
  \/ Clear
  \/ BeginCall

Spec == Init /\ [][Next]_<<contents, result>>

\* size()
Size == Cardinality({k \in Keys : contents[k] # NoValue})
=============================================================================
