-------------------------------- MODULE Deque --------------------------------
(***************************************************************************)
(* The double-ended queue of util/data/deque.hpp.  An item has a global    *)
(* index, from m_start to m_start + m_size - 1, which may be negative; the *)
(* indexes from 0 up live in the positive chunks, those from -1 down in    *)
(* the negative ones, and every chunk is twice as large as the one before. *)
(* Chunks are added as indexes need them and are not given back by pops.   *)
(*                                                                         *)
(* The deques are objects of one sequential client: a call is one step.    *)
(***************************************************************************)
EXTENDS Integers, Sequences

CONSTANTS
  Deques,        \* the deque objects
  Values,        \* what the client stores
  FirstChunk,    \* items in the first chunk (16 in the source)
  MaxIndex,      \* bound: global indexes are in -MaxIndex .. MaxIndex - 1
  MaxLength,     \* bound: the client makes no deque longer than this
  Error          \* an exception; also what is in a slot without an item

\* Number of items in chunk c, the first index it holds, and whether it is the
\* chunk of index i.
ChunkSize(c) == FirstChunk * 2 ^ c
ChunkStart(c) == ChunkSize(c) - FirstChunk
Covers(c, i) == ChunkStart(c) <= i /\ i < ChunkStart(c) + ChunkSize(c)

\* The last parts are the comment in chunk_index(): the chunks cover the indexes
\* one after the other, 0-15, 16-47, 48-111 and so on.
ASSUME DequeAssumption ==
  /\ FirstChunk \in Nat \ {0} /\ MaxIndex \in Nat /\ MaxLength \in Nat
  /\ Error \notin Values
  /\ \A c \in 0 .. MaxIndex : ChunkSize(c) \in Nat /\ ChunkStart(c) \in Nat
  /\ \A c \in 0 .. MaxIndex : \A e \in 0 .. c - 1 :
        ChunkStart(e) + ChunkSize(e) <= ChunkStart(c)
  /\ \A i \in 0 .. MaxIndex : \E c \in 0 .. i : Covers(c, i)

VARIABLES
  m_start, m_size,    \* of every deque
  chunk_count,        \* the number of chunks of every deque, by side
  memory,             \* what is in the slots of these chunks
  result              \* what the last get() or pop returned, if it did

vars == <<m_start, m_size, chunk_count, memory, result>>

-----------------------------------------------------------------------------
(* Where an item is                                                        *)

\* chunk_index() and chunk_offset().  (The code counts leading zeros.)
chunk_index(i) == CHOOSE c \in 0 .. i : Covers(c, i)
chunk_offset(c, i) == i - ChunkStart(c)

GlobalIndexes == -MaxIndex .. MaxIndex - 1

Sides == {"positive", "negative"}
Side(g) == IF g >= 0 THEN "positive" ELSE "negative"
SideIndex(g) == IF g >= 0 THEN g ELSE -1 - g

\* get_item(): side, chunk and offset of a global index.
SlotOf ==
  [g \in GlobalIndexes |->
     LET i == SideIndex(g)
     IN  <<Side(g), chunk_index(i), chunk_offset(chunk_index(i), i)>>]

AllSlots ==
  {s \in Sides \X (0 .. MaxIndex) \X (0 .. MaxIndex) : s[3] < ChunkSize(s[2])}

Live(d) == m_start[d] .. m_start[d] + m_size[d] - 1
Indexes == 0 .. MaxLength

\* The chunks after insert_item(g): as many more as g needs on its side.
\* Bug: one chunk less.
ChunksForLess(count, g) ==
  [count EXCEPT ![Side(g)] =
     IF chunk_index(SideIndex(g)) > @ THEN chunk_index(SideIndex(g)) ELSE @]
ChunksFor(count, g) ==
  [count EXCEPT ![Side(g)] =
     IF chunk_index(SideIndex(g)) >= @ THEN chunk_index(SideIndex(g)) + 1 ELSE @]

NoChunks == [s \in Sides |-> 0]
NoMemory == [s \in AllSlots |-> Error]

Init ==
  /\ m_start = [d \in Deques |-> 0]
  /\ m_size = [d \in Deques |-> 0]
  /\ chunk_count = [d \in Deques |-> NoChunks]
  /\ memory = [d \in Deques |-> NoMemory]
  /\ result = Error

-----------------------------------------------------------------------------
(* push_back() and push_front(), and the emplace_ forms                    *)

Insert(d, g, v) ==
  /\ m_size[d] < MaxLength /\ g \in GlobalIndexes
  /\ chunk_count' = [chunk_count EXCEPT ![d] = ChunksFor(@, g)]
  /\ memory' = [memory EXCEPT ![d][SlotOf[g]] = v]
  /\ m_size' = [m_size EXCEPT ![d] = @ + 1]
  /\ UNCHANGED result

PushBack(d, v) ==
  /\ Insert(d, m_start[d] + m_size[d], v)
  /\ UNCHANGED m_start

\* Bug: the item goes where the first one is.
PushFrontAtStart(d, v) ==
  /\ Insert(d, m_start[d], v)
  /\ m_start' = [m_start EXCEPT ![d] = @ - 1]

PushFront(d, v) ==
  /\ Insert(d, m_start[d] - 1, v)
  /\ m_start' = [m_start EXCEPT ![d] = @ - 1]

-----------------------------------------------------------------------------
(* pop_back(), pop_front() and get()                                       *)

\* Bug: nothing stops a pop from an empty deque.
DiscardUnchecked(d, g) ==
  /\ memory' = [memory EXCEPT ![d][SlotOf[g]] = Error]
  /\ m_size' = [m_size EXCEPT ![d] = @ - 1]
  /\ UNCHANGED <<chunk_count, result>>

Discard(d, g) ==
  /\ m_size[d] # 0
  /\ memory' = [memory EXCEPT ![d][SlotOf[g]] = Error]
  /\ m_size' = [m_size EXCEPT ![d] = @ - 1]
  /\ UNCHANGED <<chunk_count, result>>

PopBack(d) ==
  /\ Discard(d, m_start[d] + m_size[d] - 1)
  /\ UNCHANGED m_start

PopFront(d) ==
  /\ Discard(d, m_start[d])
  /\ m_start' = [m_start EXCEPT ![d] = @ + 1]

\* Both throw when there is nothing to pop.
PopNothing(d) ==
  /\ m_size[d] = 0
  /\ result' = Error
  /\ UNCHANGED <<m_start, m_size, chunk_count, memory>>

Get(d, index) ==
  /\ result' = IF index >= m_size[d] THEN Error ELSE memory[d][SlotOf[m_start[d] + index]]
  /\ UNCHANGED <<m_start, m_size, chunk_count, memory>>

-----------------------------------------------------------------------------
(* Copying, moving, destroying                                             *)

\* clone(): the slots of a deque that starts at b, with the n items that start
\* at e in mem.
Copied(b, e, n, mem) ==
  [s \in AllSlots |->
     LET from == {i \in 0 .. n - 1 : SlotOf[b + i] = s}
     IN  IF from = {} THEN Error ELSE mem[SlotOf[e + CHOOSE i \in from : TRUE]]]

\* operator=(const Deque &): pops everything, then pushes the other's items
\* from its own start on.  The copy constructor is this on a new deque.
Copy(d, other) ==
  /\ d # other
  /\ \A i \in 0 .. m_size[other] - 1 : m_start[d] + i \in GlobalIndexes
  /\ m_size' = [m_size EXCEPT ![d] = m_size[other]]
  /\ chunk_count' = [chunk_count EXCEPT ![d] =
        IF m_size[other] = 0 THEN @
        ELSE ChunksFor(ChunksFor(@, m_start[d]), m_start[d] + m_size[other] - 1)]
  /\ memory' = [memory EXCEPT ![d] =
        Copied(m_start[d], m_start[other], m_size[other], memory[other])]
  /\ UNCHANGED <<m_start, result>>

\* Bug: the start stays behind.
MoveKeepsStart(d, other) ==
  /\ d # other
  /\ m_size' = [m_size EXCEPT ![d] = m_size[other], ![other] = 0]
  /\ chunk_count' = [chunk_count EXCEPT ![d] = chunk_count[other], ![other] = NoChunks]
  /\ memory' = [memory EXCEPT ![d] = memory[other], ![other] = NoMemory]
  /\ UNCHANGED <<m_start, result>>

\* operator=(Deque &&): pops everything, takes the other's chunks, start and
\* size and leaves it a new deque.  (Its own chunks are not freed: they leak.)
\* The move constructor is this on a new deque.
Move(d, other) ==
  /\ d # other
  /\ m_start' = [m_start EXCEPT ![d] = m_start[other], ![other] = 0]
  /\ m_size' = [m_size EXCEPT ![d] = m_size[other], ![other] = 0]
  /\ chunk_count' = [chunk_count EXCEPT ![d] = chunk_count[other], ![other] = NoChunks]
  /\ memory' = [memory EXCEPT ![d] = memory[other], ![other] = NoMemory]
  /\ UNCHANGED result

\* The deque is destroyed, and a new one takes its place.
Reset(d) ==
  /\ m_start' = [m_start EXCEPT ![d] = 0]
  /\ m_size' = [m_size EXCEPT ![d] = 0]
  /\ chunk_count' = [chunk_count EXCEPT ![d] = NoChunks]
  /\ memory' = [memory EXCEPT ![d] = NoMemory]
  /\ UNCHANGED result

Next ==
  \E d \in Deques :
    \/ \E v \in Values : PushBack(d, v) \/ PushFront(d, v)
    \/ PopBack(d) \/ PopFront(d) \/ PopNothing(d)
    \/ \E index \in Indexes : Get(d, index)
    \/ \E other \in Deques : Copy(d, other) \/ Move(d, other)
    \/ Reset(d)

Spec == Init /\ [][Next]_vars

-----------------------------------------------------------------------------
\* Type invariant.
TypeOK ==
  /\ m_start \in [Deques -> -MaxIndex .. MaxIndex]
  /\ m_size \in [Deques -> 0 .. MaxLength]
  /\ chunk_count \in [Deques -> [Sides -> 0 .. MaxIndex + 1]]
  /\ memory \in [Deques -> [AllSlots -> Values \cup {Error}]]
  /\ result \in Values \cup {Error}

\* get_item() asks no chunk_manager for a chunk that it does not have: the chunk
\* of every item is there, also after the deque has moved away from where it was
\* filled, and after copies and moves.
ItemsInChunks ==
  \A d \in Deques : \A g \in Live(d) :
    /\ g \in GlobalIndexes
    /\ chunk_index(SideIndex(g)) < chunk_count[d][Side(g)]

\* The slots without an item are empty: no item is left behind when the deque
\* shrinks, is copied over or is moved from, which would be a destructor that
\* never runs.
NothingLeftBehind ==
  \A d \in Deques : \A s \in AllSlots :
    memory[d][s] # Error <=> \E g \in Live(d) : s = SlotOf[g]

\* The items, from front to back, of a deque that starts at b, has n items, and
\* the slots mem.
Items(b, n, mem) == [i \in 1 .. n |-> mem[SlotOf[b + i - 1]]]

Abstract == INSTANCE AbstractDeque WITH
              items <- [d \in Deques |-> Items(m_start[d], m_size[d], memory[d])]

\* Chunks, sides and the wandering start are invisible: the deques are sequences.
ImplementsSequences == Abstract!Spec
=============================================================================
