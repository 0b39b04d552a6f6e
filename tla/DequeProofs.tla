---------------------------- MODULE DequeProofs ----------------------------
(***************************************************************************)
(* Deque implements a sequence, for every chunk layout that covers the     *)
(* indexes, every set of deques and values and every bound.                *)
(***************************************************************************)
EXTENDS Deque, TLAPS

LEMMA SideIndexIn == \A g \in GlobalIndexes : SideIndex(g) \in 0 .. MaxIndex
<1>1. MaxIndex \in Nat
  BY DequeAssumption
<1>. QED  BY <1>1 DEF GlobalIndexes, SideIndex

\* Every global index has a slot, in a chunk of its side.
LEMMA SlotExists ==
  ASSUME NEW g \in GlobalIndexes
  PROVE  /\ Side(g) \in Sides
         /\ chunk_index(SideIndex(g)) \in 0 .. MaxIndex
         /\ SlotOf[g] \in AllSlots
         /\ SlotOf[g] = <<Side(g), chunk_index(SideIndex(g)),
                          chunk_offset(chunk_index(SideIndex(g)), SideIndex(g))>>
<1>1. PICK i \in 0 .. MaxIndex : i = SideIndex(g)
  BY SideIndexIn
<1>2. PICK c \in 0 .. i : c = chunk_index(i) /\ Covers(c, i)
  BY DequeAssumption DEF chunk_index
<1>3. SlotOf[g] = <<Side(g), c, chunk_offset(c, i)>>
  BY <1>1, <1>2 DEF SlotOf
<1>4. Side(g) \in Sides /\ c \in 0 .. MaxIndex
  BY <1>2, DequeAssumption DEF Side, Sides
<1>5. ChunkSize(c) \in Nat /\ ChunkStart(c) \in Nat
  BY <1>4, DequeAssumption
<1>6. chunk_offset(c, i) \in 0 .. MaxIndex /\ chunk_offset(c, i) < ChunkSize(c)
  BY <1>2, <1>5, DequeAssumption DEF chunk_offset, Covers
<1>7. SlotOf[g] \in AllSlots
  BY <1>3, <1>4, <1>6 DEF AllSlots
<1>. QED  BY <1>1, <1>2, <1>3, <1>4, <1>7

\* No two indexes share a slot.
LEMMA SlotsDiffer ==
  ASSUME NEW g \in GlobalIndexes, NEW h \in GlobalIndexes, SlotOf[g] = SlotOf[h]
  PROVE  g = h
<1>1. PICK i \in Int, j \in Int : i = SideIndex(g) /\ j = SideIndex(h)
  BY SideIndexIn
<1>2. PICK c \in 0 .. MaxIndex : c = chunk_index(i) /\ c = chunk_index(j)
  BY <1>1, SlotExists
<1>3. chunk_offset(c, i) = chunk_offset(c, j) /\ Side(g) = Side(h)
  BY <1>1, <1>2, SlotExists
<1>4. ChunkStart(c) \in Int
  BY <1>2, DequeAssumption
<1>5. i = j
  BY <1>1, <1>3, <1>4 DEF chunk_offset
<1>. QED  BY <1>1, <1>3, <1>5, DequeAssumption DEF Side, SideIndex, GlobalIndexes
-----------------------------------------------------------------------------
(* The inductive invariant, deque by deque                                 *)

\* A deque that starts at b and has n items, in count chunks of memory mem.
DequeOK(b, n, count, mem) ==
  /\ b \in -MaxIndex .. MaxIndex /\ n \in 0 .. MaxLength
  /\ count \in [Sides -> 0 .. MaxIndex + 1]
  /\ mem \in [AllSlots -> Values \cup {Error}]
  /\ \A g \in b .. b + n - 1 :
        g \in GlobalIndexes /\ chunk_index(SideIndex(g)) < count[Side(g)]
  /\ \A s \in AllSlots : mem[s] # Error <=> \E g \in b .. b + n - 1 : s = SlotOf[g]

DequeInv ==
  /\ TypeOK
  /\ \A d \in Deques : DequeOK(m_start[d], m_size[d], chunk_count[d], memory[d])

LEMMA DequeInvMeans == DequeInv <=> TypeOK /\ ItemsInChunks /\ NothingLeftBehind
  BY DEF DequeInv, DequeOK, TypeOK, ItemsInChunks, NothingLeftBehind, Live

LEMMA NewDequeOK == DequeOK(0, 0, NoChunks, NoMemory)
  BY DequeAssumption DEF DequeOK, NoChunks, NoMemory

\* insert_item() takes away no chunk, and adds the one it needs.
LEMMA ChunksAdded ==
  ASSUME NEW count \in [Sides -> 0 .. MaxIndex + 1], NEW g \in GlobalIndexes
  PROVE  /\ ChunksFor(count, g) \in [Sides -> 0 .. MaxIndex + 1]
         /\ \A side \in Sides : count[side] <= ChunksFor(count, g)[side]
         /\ chunk_index(SideIndex(g)) < ChunksFor(count, g)[Side(g)]
<1>1. PICK c \in 0 .. MaxIndex : c = chunk_index(SideIndex(g))
  BY SlotExists
<1>2. Side(g) \in Sides
  BY SlotExists
<1>. QED  BY <1>1, <1>2, DequeAssumption DEF ChunksFor

LEMMA InsertOK ==
  ASSUME NEW b, NEW n, NEW count, NEW mem, DequeOK(b, n, count, mem),
         NEW v \in Values, NEW g \in GlobalIndexes, n < MaxLength,
         NEW b2, (g = b + n /\ b2 = b) \/ (g = b - 1 /\ b2 = b - 1)
  PROVE  DequeOK(b2, n + 1, ChunksFor(count, g), [mem EXCEPT ![SlotOf[g]] = v])
<1>1. /\ b \in Int /\ n \in Nat /\ count \in [Sides -> 0 .. MaxIndex + 1]
      /\ mem \in [AllSlots -> Values \cup {Error}]
      /\ n + 1 \in 0 .. MaxLength /\ b2 \in -MaxIndex .. MaxIndex
  BY DequeAssumption DEF DequeOK, GlobalIndexes
<1>2. \A h \in b2 .. b2 + n : h = g \/ h \in b .. b + n - 1
  BY <1>1
<1>3. g \in b2 .. b2 + n /\ \A h \in b .. b + n - 1 : h \in b2 .. b2 + n
  BY <1>1
<1>4. \A h \in b2 .. b2 + n : /\ h \in GlobalIndexes
                              /\ chunk_index(SideIndex(h)) < ChunksFor(count, g)[Side(h)]
  <2>1. TAKE h \in b2 .. b2 + n
  <2>2. CASE h = g
    BY <1>1, <2>2, ChunksAdded
  <2>3. CASE h # g
    <3>1. h \in GlobalIndexes /\ chunk_index(SideIndex(h)) < count[Side(h)]
      BY <1>2, <2>3 DEF DequeOK
    <3>2. /\ Side(h) \in Sides /\ chunk_index(SideIndex(h)) \in Int
          /\ count[Side(h)] <= ChunksFor(count, g)[Side(h)]
          /\ count[Side(h)] \in Int /\ ChunksFor(count, g)[Side(h)] \in Int
      BY <1>1, <3>1, SlotExists, ChunksAdded
    <3>. QED  BY <3>1, <3>2
  <2>. QED  BY <2>2, <2>3
<1>5. [mem EXCEPT ![SlotOf[g]] = v] \in [AllSlots -> Values \cup {Error}]
  BY <1>1, SlotExists
<1>6. ASSUME NEW s \in AllSlots
      PROVE  [mem EXCEPT ![SlotOf[g]] = v][s] # Error
               <=> \E h \in b2 .. b2 + n : s = SlotOf[h]
  <2>1. CASE s = SlotOf[g]
    BY <1>1, <1>3, <2>1, DequeAssumption, SlotExists
  <2>2. CASE s # SlotOf[g]
    <3>1. [mem EXCEPT ![SlotOf[g]] = v][s] = mem[s]
      BY <1>1, <2>2
    <3>2. mem[s] # Error <=> \E h \in b .. b + n - 1 : s = SlotOf[h]
      BY DEF DequeOK
    <3>. QED  BY <1>2, <1>3, <2>2, <3>1, <3>2
  <2>. QED  BY <2>1, <2>2
<1>7. ChunksFor(count, g) \in [Sides -> 0 .. MaxIndex + 1]
  BY <1>1, ChunksAdded
<1>8. b2 + (n + 1) - 1 = b2 + n
  BY <1>1
<1>. QED  BY <1>1, <1>4, <1>5, <1>6, <1>7, <1>8 DEF DequeOK

LEMMA DiscardOK ==
  ASSUME NEW b, NEW n, NEW count, NEW mem, DequeOK(b, n, count, mem), n # 0,
         NEW g, NEW b2, (g = b + n - 1 /\ b2 = b) \/ (g = b /\ b2 = b + 1)
  PROVE  /\ DequeOK(b2, n - 1, count, [mem EXCEPT ![SlotOf[g]] = Error])
         /\ g \in GlobalIndexes
<1>1. /\ b \in Int /\ n \in Nat /\ n - 1 \in 0 .. MaxLength
      /\ count \in [Sides -> 0 .. MaxIndex + 1]
      /\ mem \in [AllSlots -> Values \cup {Error}]
      /\ g \in b .. b + n - 1
  BY DequeAssumption DEF DequeOK
<1>2. /\ g \in GlobalIndexes /\ b2 \in -MaxIndex .. MaxIndex
  <2>1. g \in GlobalIndexes /\ b \in GlobalIndexes
    BY <1>1 DEF DequeOK
  <2>. QED  BY <2>1, <1>1, DequeAssumption DEF GlobalIndexes
<1>3. \A h \in Int : h \in b2 .. b2 + (n - 1) - 1 <=> h \in b .. b + n - 1 /\ h # g
  BY <1>1
<1>4. \A h \in b2 .. b2 + (n - 1) - 1 :
        h \in GlobalIndexes /\ chunk_index(SideIndex(h)) < count[Side(h)]
  BY <1>1, <1>3 DEF DequeOK
<1>5. [mem EXCEPT ![SlotOf[g]] = Error] \in [AllSlots -> Values \cup {Error}]
  BY <1>1
<1>6. ASSUME NEW s \in AllSlots
      PROVE  [mem EXCEPT ![SlotOf[g]] = Error][s] # Error
               <=> \E h \in b2 .. b2 + (n - 1) - 1 : s = SlotOf[h]
  <2>1. mem[s] # Error <=> \E h \in b .. b + n - 1 : s = SlotOf[h]
    BY DEF DequeOK
  <2>2. CASE s = SlotOf[g]
    <3>1. \A h \in b2 .. b2 + (n - 1) - 1 : s # SlotOf[h]
      BY <1>1, <1>2, <1>3, <1>4, <2>2, SlotsDiffer
    <3>. QED  BY <1>1, <2>2, <3>1
  <2>3. CASE s # SlotOf[g]
    <3>1. [mem EXCEPT ![SlotOf[g]] = Error][s] = mem[s]
      BY <1>1, <2>3
    <3>2. (\E h \in b .. b + n - 1 : s = SlotOf[h])
             <=> \E h \in b2 .. b2 + (n - 1) - 1 : s = SlotOf[h]
      BY <1>1, <1>3, <2>3
    <3>. QED  BY <2>1, <3>1, <3>2
  <2>. QED  BY <2>2, <2>3
<1>. QED  BY <1>1, <1>2, <1>4, <1>5, <1>6 DEF DequeOK
\* Farther out on a side, the chunk number is not smaller.
LEMMA ChunksInOrder ==
  ASSUME NEW g \in GlobalIndexes, NEW h \in GlobalIndexes, Side(g) = Side(h),
         SideIndex(g) <= SideIndex(h)
  PROVE  chunk_index(SideIndex(g)) <= chunk_index(SideIndex(h))
<1>1. PICK i \in 0 .. MaxIndex, j \in 0 .. MaxIndex : i = SideIndex(g) /\ j = SideIndex(h)
  BY SideIndexIn
<1>2. PICK c \in 0 .. i, e \in 0 .. j :
        /\ c = chunk_index(i) /\ Covers(c, i)
        /\ e = chunk_index(j) /\ Covers(e, j)
  BY DequeAssumption DEF chunk_index
<1>3. c <= e
  <2>1. SUFFICES ASSUME e < c PROVE FALSE
    BY <1>2
  <2>2. ChunkStart(e) + ChunkSize(e) <= ChunkStart(c)
    BY <1>1, <1>2, <2>1, DequeAssumption
  <2>3. /\ ChunkStart(e) \in Int /\ ChunkSize(e) \in Int /\ ChunkStart(c) \in Int
    BY <1>1, <1>2, DequeAssumption
  <2>. QED  BY <1>1, <1>2, <2>2, <2>3 DEF Covers
<1>. QED  BY <1>1, <1>2, <1>3

LEMMA CopyOK ==
  ASSUME NEW b, NEW n, NEW count, NEW mem, DequeOK(b, n, count, mem),
         NEW e, NEW m, NEW ecount, NEW emem, DequeOK(e, m, ecount, emem),
         \A i \in 0 .. m - 1 : b + i \in GlobalIndexes
  PROVE  DequeOK(b, m,
                 IF m = 0 THEN count ELSE ChunksFor(ChunksFor(count, b), b + m - 1),
                 Copied(b, e, m, emem))
<1>. DEFINE last  == b + m - 1
            after == IF m = 0 THEN count ELSE ChunksFor(ChunksFor(count, b), last)
            slots == Copied(b, e, m, emem)
<1>1. /\ b \in Int /\ e \in Int /\ m \in 0 .. MaxLength /\ m \in Nat
      /\ b \in -MaxIndex .. MaxIndex
      /\ count \in [Sides -> 0 .. MaxIndex + 1]
      /\ emem \in [AllSlots -> Values \cup {Error}]
  BY DequeAssumption DEF DequeOK
<1>2. \A h \in b .. last : h \in GlobalIndexes
  <2>1. TAKE h \in b .. last
  <2>2. PICK i \in 0 .. m - 1 : i = h - b
    BY <1>1
  <2>3. b + i = h
    BY <1>1, <2>2
  <2>. QED  BY <2>2, <2>3
<1>3. /\ after \in [Sides -> 0 .. MaxIndex + 1]
      /\ \A h \in b .. last : chunk_index(SideIndex(h)) < after[Side(h)]
  <2>1. CASE m = 0
    BY <1>1, <2>1
  <2>2. CASE m # 0
    <3>. DEFINE middle == ChunksFor(count, b)
    <3>1. b \in GlobalIndexes /\ last \in GlobalIndexes
      BY <1>1, <1>2, <2>2
    <3>2. /\ middle \in [Sides -> 0 .. MaxIndex + 1]
          /\ chunk_index(SideIndex(b)) < middle[Side(b)]
      BY <1>1, <3>1, ChunksAdded
    <3>3. /\ after \in [Sides -> 0 .. MaxIndex + 1]
          /\ \A side \in Sides : middle[side] <= after[side]
          /\ chunk_index(SideIndex(last)) < after[Side(last)]
      <4>1. after = ChunksFor(middle, last)
        BY <2>2
      <4>. HIDE DEF after, middle
      <4>. QED  BY <3>1, <3>2, <4>1, ChunksAdded
    <3>. HIDE DEF after, middle
    <3>4. ASSUME NEW h \in b .. last PROVE chunk_index(SideIndex(h)) < after[Side(h)]
      <4>1. /\ h \in GlobalIndexes /\ Side(h) \in Sides
            /\ chunk_index(SideIndex(h)) \in Int
            /\ middle[Side(h)] \in Int /\ after[Side(h)] \in Int
            /\ middle[Side(h)] <= after[Side(h)]
        BY <1>2, <3>2, <3>3, <3>4, SlotExists
      <4>2. CASE h >= 0
        <5>1. Side(h) = Side(last) /\ SideIndex(h) <= SideIndex(last)
          BY <1>1, <3>4, <4>2 DEF Side, SideIndex
        <5>2. chunk_index(SideIndex(h)) <= chunk_index(SideIndex(last))
          BY <3>1, <4>1, <5>1, ChunksInOrder
        <5>3. chunk_index(SideIndex(last)) \in Int
          BY <3>1, SlotExists
        <5>. QED  BY <3>3, <4>1, <5>1, <5>2, <5>3
      <4>3. CASE h < 0
        <5>1. Side(h) = Side(b) /\ SideIndex(h) <= SideIndex(b)
          BY <1>1, <3>4, <4>3 DEF Side, SideIndex
        <5>2. chunk_index(SideIndex(h)) <= chunk_index(SideIndex(b))
          BY <3>1, <4>1, <5>1, ChunksInOrder
        <5>3. chunk_index(SideIndex(b)) \in Int
          BY <3>1, SlotExists
        <5>. QED  BY <3>2, <4>1, <5>1, <5>2, <5>3
      <4>. QED  BY <4>2, <4>3, <1>1, <3>4
    <3>. QED  BY <3>3, <3>4
  <2>. QED  BY <2>1, <2>2
<1>4. ASSUME NEW i \in 0 .. m - 1
      PROVE  emem[SlotOf[e + i]] \in Values
  <2>1. e + i \in e .. e + m - 1 /\ e + i \in GlobalIndexes
    BY <1>1 DEF DequeOK
  <2>2. SlotOf[e + i] \in AllSlots /\ emem[SlotOf[e + i]] # Error
    BY <2>1, SlotExists DEF DequeOK
  <2>. QED  BY <1>1, <2>2
<1>5. ASSUME NEW s \in AllSlots
      PROVE  /\ slots[s] \in Values \cup {Error}
             /\ slots[s] # Error <=> \E h \in b .. last : s = SlotOf[h]
  <2>. DEFINE from == {i \in 0 .. m - 1 : SlotOf[b + i] = s}
  <2>1. slots[s] = IF from = {} THEN Error ELSE emem[SlotOf[e + CHOOSE i \in from : TRUE]]
    BY DEF Copied
  <2>2. from = {} <=> ~ \E h \in b .. last : s = SlotOf[h]
    <3>1. ASSUME NEW i \in from PROVE b + i \in b .. last /\ s = SlotOf[b + i]
      BY <1>1
    <3>2. ASSUME NEW h \in b .. last, s = SlotOf[h] PROVE h - b \in from
      <4>1. h - b \in 0 .. m - 1 /\ b + (h - b) = h
        BY <1>1
      <4>. QED  BY <3>2, <4>1
    <3>. QED  BY <3>1, <3>2
  <2>3. CASE from = {}
    BY <2>1, <2>2, <2>3
  <2>4. CASE from # {}
    <3>1. PICK i \in from : i = CHOOSE x \in from : TRUE
      BY <2>4
    <3>2. slots[s] \in Values
      <4>1. slots[s] = emem[SlotOf[e + i]]
        BY <2>1, <2>4, <3>1
      <4>. QED  BY <1>4, <4>1
    <3>. QED  BY <2>2, <2>4, <3>2, DequeAssumption
  <2>. QED  BY <2>3, <2>4
<1>6. slots \in [AllSlots -> Values \cup {Error}]
  <2>1. slots = [s \in AllSlots |-> slots[s]]
    BY DEF Copied
  <2>. QED  BY <1>5, <2>1
<1>. HIDE DEF after, slots
<1>7. DequeOK(b, m, after, slots)
  BY <1>1, <1>2, <1>3, <1>5, <1>6 DEF DequeOK
<1>. QED  BY <1>7 DEF after, slots
LEMMA DequeInit == Init => DequeInv
<1>1. SUFFICES ASSUME Init PROVE DequeInv
  OBVIOUS
<1>2. \A d \in Deques : DequeOK(m_start[d], m_size[d], chunk_count[d], memory[d])
  BY <1>1, NewDequeOK DEF Init
<1>3. TypeOK
  BY <1>1, DequeAssumption DEF Init, TypeOK, NoChunks, NoMemory
<1>. QED  BY <1>2, <1>3 DEF DequeInv

\* The types follow from the deques being as they should.
LEMMA TypesFollow ==
  ASSUME TypeOK,
         m_start' = [d \in Deques |-> m_start'[d]], m_size' = [d \in Deques |-> m_size'[d]],
         chunk_count' = [d \in Deques |-> chunk_count'[d]],
         memory' = [d \in Deques |-> memory'[d]],
         result' \in Values \cup {Error},
         \A d \in Deques : DequeOK(m_start'[d], m_size'[d], chunk_count'[d], memory'[d])
  PROVE  DequeInv'
<1>1. TypeOK'
  BY DEF TypeOK, DequeOK
<1>. QED  BY <1>1 DEF DequeInv

LEMMA DequeNext == DequeInv /\ [Next]_vars => DequeInv'
<1>. SUFFICES ASSUME DequeInv, [Next]_vars PROVE DequeInv'
  OBVIOUS
<1>. USE DEF DequeInv
<1>1. ASSUME NEW d \in Deques, NEW v \in Values, PushBack(d, v)
      PROVE  DequeInv'
  <2>1. DequeOK(m_start[d], m_size[d] + 1, chunk_count'[d], memory'[d])
    <3>1. /\ m_start[d] + m_size[d] \in GlobalIndexes /\ m_size[d] < MaxLength
          /\ chunk_count'[d] = ChunksFor(chunk_count[d], m_start[d] + m_size[d])
          /\ memory'[d] = [memory[d] EXCEPT ![SlotOf[m_start[d] + m_size[d]]] = v]
      BY <1>1 DEF PushBack, Insert, TypeOK
    <3>. QED  BY <3>1, InsertOK
  <2>. QED  BY <1>1, <2>1, TypesFollow DEF PushBack, Insert, TypeOK
<1>2. ASSUME NEW d \in Deques, NEW v \in Values, PushFront(d, v)
      PROVE  DequeInv'
  <2>1. DequeOK(m_start[d] - 1, m_size[d] + 1, chunk_count'[d], memory'[d])
    <3>1. /\ m_start[d] - 1 \in GlobalIndexes /\ m_size[d] < MaxLength
          /\ chunk_count'[d] = ChunksFor(chunk_count[d], m_start[d] - 1)
          /\ memory'[d] = [memory[d] EXCEPT ![SlotOf[m_start[d] - 1]] = v]
      BY <1>2 DEF PushFront, Insert, TypeOK
    <3>. QED  BY <3>1, InsertOK
  <2>. QED  BY <1>2, <2>1, TypesFollow DEF PushFront, Insert, TypeOK
<1>3. ASSUME NEW d \in Deques, PopBack(d)
      PROVE  DequeInv'
  <2>1. DequeOK(m_start[d], m_size[d] - 1, chunk_count[d], memory'[d])
    <3>1. /\ m_size[d] # 0
          /\ memory'[d] = [memory[d] EXCEPT ![SlotOf[m_start[d] + m_size[d] - 1]] = Error]
      BY <1>3 DEF PopBack, Discard, TypeOK
    <3>. QED  BY <3>1, DiscardOK
  <2>. QED  BY <1>3, <2>1, TypesFollow DEF PopBack, Discard, TypeOK
<1>4. ASSUME NEW d \in Deques, PopFront(d)
      PROVE  DequeInv'
  <2>1. DequeOK(m_start[d] + 1, m_size[d] - 1, chunk_count[d], memory'[d])
    <3>1. /\ m_size[d] # 0
          /\ memory'[d] = [memory[d] EXCEPT ![SlotOf[m_start[d]]] = Error]
      BY <1>4 DEF PopFront, Discard, TypeOK
    <3>. QED  BY <3>1, DiscardOK
  <2>. QED  BY <1>4, <2>1, TypesFollow DEF PopFront, Discard, TypeOK
<1>5. ASSUME NEW d \in Deques, PopNothing(d)
      PROVE  DequeInv'
  BY <1>5, TypesFollow DEF PopNothing, TypeOK
<1>6. ASSUME NEW d \in Deques, NEW index \in Indexes, Get(d, index)
      PROVE  DequeInv'
  <2>1. result' \in Values \cup {Error}
    <3>1. CASE index >= m_size[d]
      BY <1>6, <3>1 DEF Get
    <3>2. CASE index < m_size[d]
      <4>1. m_start[d] + index \in m_start[d] .. m_start[d] + m_size[d] - 1
        BY <3>2, DequeAssumption DEF TypeOK, Indexes
      <4>2. SlotOf[m_start[d] + index] \in AllSlots
        BY <4>1, SlotExists DEF DequeOK
      <4>3. result' = memory[d][SlotOf[m_start[d] + index]]
        BY <1>6, <3>2, DequeAssumption DEF Get, TypeOK, Indexes
      <4>. QED  BY <4>2, <4>3 DEF TypeOK
    <3>. QED  BY <3>1, <3>2, DequeAssumption DEF TypeOK, Indexes
  <2>. QED  BY <1>6, <2>1, TypesFollow DEF Get, TypeOK
<1>7. ASSUME NEW d \in Deques, NEW other \in Deques, Copy(d, other)
      PROVE  DequeInv'
  <2>1. DequeOK(m_start[d], m_size[other], chunk_count'[d], memory'[d])
    <3>1. /\ \A i \in 0 .. m_size[other] - 1 : m_start[d] + i \in GlobalIndexes
          /\ chunk_count'[d] =
               IF m_size[other] = 0 THEN chunk_count[d]
               ELSE ChunksFor(ChunksFor(chunk_count[d], m_start[d]),
                              m_start[d] + m_size[other] - 1)
          /\ memory'[d] = Copied(m_start[d], m_start[other], m_size[other], memory[other])
      BY <1>7 DEF Copy, TypeOK
    <3>. QED  BY <3>1, CopyOK
  <2>. QED  BY <1>7, <2>1, TypesFollow DEF Copy, TypeOK
<1>8. ASSUME NEW d \in Deques, NEW other \in Deques, Move(d, other)
      PROVE  DequeInv'
  BY <1>8, NewDequeOK, TypesFollow DEF Move, TypeOK
<1>9. ASSUME NEW d \in Deques, Reset(d)
      PROVE  DequeInv'
  BY <1>9, NewDequeOK, TypesFollow DEF Reset, TypeOK
<1>10. CASE UNCHANGED vars
  BY <1>10, TypesFollow DEF vars, TypeOK
<1>. QED
  BY <1>1, <1>2, <1>3, <1>4, <1>5, <1>6, <1>7, <1>8, <1>9, <1>10 DEF Next

LEMMA DequeInvariant == Spec => []DequeInv
  BY DequeInit, DequeNext, PTL DEF Spec

\* Every operation leaves every deque well-formed.
THEOREM DequeTypeCorrect == Spec => []TypeOK
  BY DequeInvariant, DequeInvMeans, PTL

\* Whatever is pushed, popped, copied and moved, each item of a deque is in a
\* chunk that the deque has, ...
THEOREM ItemsAreInChunks == Spec => []ItemsInChunks
  BY DequeInvariant, DequeInvMeans, PTL

\* ... and nothing else is left in its chunks.
THEOREM NothingStaysBehind == Spec => []NothingLeftBehind
  BY DequeInvariant, DequeInvMeans, PTL
-----------------------------------------------------------------------------
(* The deques are sequences                                                *)

LEMMA ItemsSeq ==
  ASSUME NEW b, NEW n, NEW count, NEW mem, DequeOK(b, n, count, mem)
  PROVE  /\ b \in Int /\ n \in Nat
         /\ Items(b, n, mem) \in Seq(Values) /\ Len(Items(b, n, mem)) = n
         /\ \A i \in 1 .. n : /\ b + i - 1 \in GlobalIndexes
                              /\ Items(b, n, mem)[i] = mem[SlotOf[b + i - 1]]
                              /\ mem[SlotOf[b + i - 1]] \in Values
<1>1. b \in Int /\ n \in Nat /\ mem \in [AllSlots -> Values \cup {Error}]
  BY DequeAssumption DEF DequeOK
<1>2. \A i \in 1 .. n : /\ b + i - 1 \in GlobalIndexes
                        /\ mem[SlotOf[b + i - 1]] \in Values
  <2>1. TAKE i \in 1 .. n
  <2>2. b + i - 1 \in b .. b + n - 1
    BY <1>1
  <2>3. b + i - 1 \in GlobalIndexes
    BY <2>2 DEF DequeOK
  <2>4. SlotOf[b + i - 1] \in AllSlots
    BY <2>3, SlotExists
  <2>5. mem[SlotOf[b + i - 1]] # Error
    BY <2>2, <2>4 DEF DequeOK
  <2>. QED  BY <1>1, <2>3, <2>4, <2>5
<1>3. Items(b, n, mem) \in [1 .. n -> Values]
  BY <1>2 DEF Items
<1>. QED  BY <1>1, <1>2, <1>3 DEF Items

LEMMA PushBackItems ==
  ASSUME NEW b, NEW n, NEW count, NEW mem, DequeOK(b, n, count, mem),
         NEW v \in Values, b + n \in GlobalIndexes
  PROVE  Items(b, n + 1, [mem EXCEPT ![SlotOf[b + n]] = v]) = Append(Items(b, n, mem), v)
<1>. DEFINE after == [mem EXCEPT ![SlotOf[b + n]] = v]
<1>1. b \in Int /\ n \in Nat /\ mem \in [AllSlots -> Values \cup {Error}]
  BY ItemsSeq DEF DequeOK
<1>a. \A i \in 1 .. n : /\ b + i - 1 \in GlobalIndexes
                        /\ Items(b, n, mem)[i] = mem[SlotOf[b + i - 1]]
  BY ItemsSeq
<1>2. \A i \in 1 .. n : after[SlotOf[b + i - 1]] = mem[SlotOf[b + i - 1]]
  <2>1. TAKE i \in 1 .. n
  <2>2. PICK h \in GlobalIndexes : h = b + i - 1
    BY <1>a
  <2>3. PICK g \in GlobalIndexes : g = b + n
    OBVIOUS
  <2>4. g # h
    BY <1>1, <2>2, <2>3
  <2>5. [mem EXCEPT ![SlotOf[g]] = v][SlotOf[h]] = mem[SlotOf[h]]
    <3>1. SlotOf[h] \in AllSlots /\ SlotOf[g] # SlotOf[h]
      BY <2>4, SlotExists, SlotsDiffer
    <3>. QED  BY <1>1, <3>1
  <2>. QED  BY <2>2, <2>3, <2>5
<1>3. after[SlotOf[b + n]] = v
  BY <1>1, SlotExists
<1>. HIDE DEF after
<1>4. Items(b, n + 1, after) = [i \in 1 .. n + 1 |-> IF i = n + 1 THEN v ELSE Items(b, n, mem)[i]]
  <2>1. ASSUME NEW i \in 1 .. n + 1
        PROVE  after[SlotOf[b + i - 1]] = IF i = n + 1 THEN v ELSE Items(b, n, mem)[i]
    <3>1. CASE i = n + 1
      <4>1. b + i - 1 = b + n
        BY <1>1, <3>1
      <4>. QED  BY <1>3, <3>1, <4>1
    <3>2. CASE i # n + 1
      <4>1. i \in 1 .. n
        BY <1>1, <3>2
      <4>. QED  BY <1>a, <1>2, <3>2, <4>1
    <3>. QED  BY <3>1, <3>2
  <2>. QED  BY <2>1 DEF Items
<1>5. Items(b, n + 1, after) = Append(Items(b, n, mem), v)
  BY <1>1, <1>4, ItemsSeq
<1>. QED  BY <1>5 DEF after

LEMMA PushFrontItems ==
  ASSUME NEW b, NEW n, NEW count, NEW mem, DequeOK(b, n, count, mem),
         NEW v \in Values, NEW g \in GlobalIndexes, g = b - 1,
         NEW after, after[SlotOf[g]] = v,
         \A s \in AllSlots : s # SlotOf[g] => after[s] = mem[s]
  PROVE  Items(g, n + 1, after) = <<v>> \o Items(b, n, mem)
<1>1. b \in Int /\ n \in Nat /\ mem \in [AllSlots -> Values \cup {Error}]
  BY ItemsSeq DEF DequeOK
<1>a. \A i \in 1 .. n : /\ b + i - 1 \in GlobalIndexes
                        /\ Items(b, n, mem)[i] = mem[SlotOf[b + i - 1]]
  BY ItemsSeq
<1>2. \A i \in 1 .. n : after[SlotOf[b + i - 1]] = mem[SlotOf[b + i - 1]]
  <2>1. TAKE i \in 1 .. n
  <2>2. PICK h \in GlobalIndexes : h = b + i - 1
    BY <1>a
  <2>4. g # h
    BY <1>1, <2>2
  <2>5. SlotOf[h] \in AllSlots /\ SlotOf[g] # SlotOf[h]
    BY <2>4, SlotExists, SlotsDiffer
  <2>. QED  BY <2>2, <2>5
<1>3. after[SlotOf[g]] = v
  OBVIOUS
<1>4. Items(g, n + 1, after)
        = [i \in 1 .. n + 1 |-> IF i = 1 THEN v ELSE Items(b, n, mem)[i - 1]]
  <2>1. ASSUME NEW i \in 1 .. n + 1
        PROVE  after[SlotOf[g + i - 1]] = IF i = 1 THEN v ELSE Items(b, n, mem)[i - 1]
    <3>1. CASE i = 1
      <4>1. g + i - 1 = g
        BY <1>1, <3>1
      <4>. QED  BY <1>3, <3>1, <4>1
    <3>2. CASE i # 1
      <4>1. PICK j \in 1 .. n : j = i - 1
        BY <1>1, <3>2
      <4>2. g + i - 1 = b + j - 1
        BY <1>1, <4>1
      <4>3. after[SlotOf[b + j - 1]] = Items(b, n, mem)[j]
        BY <1>a, <1>2
      <4>. QED  BY <3>2, <4>1, <4>2, <4>3
    <3>. QED  BY <3>1, <3>2
  <2>. QED  BY <2>1 DEF Items
<1>5. Items(b, n, mem) \in Seq(Values) /\ Len(Items(b, n, mem)) = n
  BY ItemsSeq
<1>. QED  BY <1>1, <1>4, <1>5

LEMMA PopBackItems ==
  ASSUME NEW b, NEW n, NEW count, NEW mem, DequeOK(b, n, count, mem), n # 0
  PROVE  Items(b, n - 1, [mem EXCEPT ![SlotOf[b + n - 1]] = Error])
           = SubSeq(Items(b, n, mem), 1, Len(Items(b, n, mem)) - 1)
<1>. DEFINE after == [mem EXCEPT ![SlotOf[b + n - 1]] = Error]
<1>1. b \in Int /\ n \in Nat /\ mem \in [AllSlots -> Values \cup {Error}]
  BY ItemsSeq DEF DequeOK
<1>a. \A i \in 1 .. n : /\ b + i - 1 \in GlobalIndexes
                        /\ Items(b, n, mem)[i] = mem[SlotOf[b + i - 1]]
  BY ItemsSeq
<1>2. \A i \in 1 .. n - 1 : after[SlotOf[b + i - 1]] = Items(b, n, mem)[i]
  <2>1. TAKE i \in 1 .. n - 1
  <2>2. b + i - 1 # b + n - 1 /\ i \in 1 .. n /\ n \in 1 .. n
    BY <1>1
  <2>3. b + i - 1 \in GlobalIndexes /\ b + n - 1 \in GlobalIndexes
    BY <1>a, <2>2
  <2>4. after[SlotOf[b + i - 1]] = mem[SlotOf[b + i - 1]]
    <3>1. SlotOf[b + i - 1] \in AllSlots /\ SlotOf[b + n - 1] # SlotOf[b + i - 1]
      BY <2>2, <2>3, SlotExists, SlotsDiffer
    <3>. QED  BY <1>1, <3>1
  <2>. QED  BY <1>a, <2>2, <2>4
<1>. HIDE DEF after
<1>3. Items(b, n - 1, after) = [i \in 1 .. n - 1 |-> Items(b, n, mem)[i]]
  BY <1>2 DEF Items
<1>4. Items(b, n - 1, after) = SubSeq(Items(b, n, mem), 1, Len(Items(b, n, mem)) - 1)
  BY <1>1, <1>3, ItemsSeq
<1>. QED  BY <1>4 DEF after

LEMMA PopFrontItems ==
  ASSUME NEW b, NEW n, NEW count, NEW mem, DequeOK(b, n, count, mem), n # 0
  PROVE  Items(b + 1, n - 1, [mem EXCEPT ![SlotOf[b]] = Error]) = Tail(Items(b, n, mem))
<1>. DEFINE after == [mem EXCEPT ![SlotOf[b]] = Error]
<1>1. b \in Int /\ n \in Nat /\ mem \in [AllSlots -> Values \cup {Error}]
  BY ItemsSeq DEF DequeOK
<1>a. \A i \in 1 .. n : /\ b + i - 1 \in GlobalIndexes
                        /\ Items(b, n, mem)[i] = mem[SlotOf[b + i - 1]]
  BY ItemsSeq
<1>2. \A i \in 1 .. n - 1 : after[SlotOf[(b + 1) + i - 1]] = Items(b, n, mem)[i + 1]
  <2>1. TAKE i \in 1 .. n - 1
  <2>2. PICK j \in 1 .. n : j = i + 1 /\ j # 1
    BY <1>1
  <2>3. /\ (b + 1) + i - 1 = b + j - 1 /\ b + 1 - 1 = b /\ 1 \in 1 .. n
    BY <1>1, <2>2
  <2>4. b \in GlobalIndexes /\ b + j - 1 \in GlobalIndexes /\ b # b + j - 1
    <3>1. b # b + j - 1
      BY <1>1, <2>2
    <3>2. b + 1 - 1 \in GlobalIndexes /\ b + j - 1 \in GlobalIndexes
      BY <1>a, <2>2, <2>3
    <3>. QED  BY <2>3, <3>1, <3>2
  <2>5. after[SlotOf[b + j - 1]] = mem[SlotOf[b + j - 1]]
    <3>1. SlotOf[b + j - 1] \in AllSlots /\ SlotOf[b] # SlotOf[b + j - 1]
      BY <2>4, SlotExists, SlotsDiffer
    <3>. QED  BY <1>1, <3>1
  <2>. QED  BY <1>a, <2>2, <2>3, <2>5
<1>. HIDE DEF after
<1>3. Items(b + 1, n - 1, after) = [i \in 1 .. n - 1 |-> Items(b, n, mem)[i + 1]]
  BY <1>2 DEF Items
<1>4. Items(b + 1, n - 1, after) = Tail(Items(b, n, mem))
  BY <1>1, <1>3, ItemsSeq
<1>. QED  BY <1>4 DEF after

LEMMA CopyItems ==
  ASSUME NEW b \in Int, NEW e, NEW m, NEW ecount, NEW emem, DequeOK(e, m, ecount, emem),
         \A i \in 0 .. m - 1 : b + i \in GlobalIndexes
  PROVE  Items(b, m, Copied(b, e, m, emem)) = Items(e, m, emem)
<1>1. e \in Int /\ m \in Nat
  BY ItemsSeq
<1>2. ASSUME NEW i \in 1 .. m
      PROVE  Copied(b, e, m, emem)[SlotOf[b + i - 1]] = emem[SlotOf[e + i - 1]]
  <2>1. PICK j \in 0 .. m - 1 : j = i - 1
    BY <1>1
  <2>2. b + i - 1 = b + j /\ e + i - 1 = e + j /\ b + j \in GlobalIndexes
    BY <1>1, <2>1
  <2>. DEFINE from == {k \in 0 .. m - 1 : SlotOf[b + k] = SlotOf[b + j]}
  <2>3. from = {j}
    <3>1. ASSUME NEW k \in from PROVE k = j
      <4>1. b + k \in GlobalIndexes /\ b + k = b + j
        BY <2>2, SlotsDiffer
      <4>. QED  BY <4>1
    <3>. QED  BY <3>1
  <2>4. SlotOf[b + j] \in AllSlots
    BY <2>2, SlotExists
  <2>5. Copied(b, e, m, emem)[SlotOf[b + j]]
          = IF from = {} THEN Error ELSE emem[SlotOf[e + CHOOSE k \in from : TRUE]]
    BY <2>4 DEF Copied
  <2>6. (CHOOSE k \in from : TRUE) = j
    BY <2>3
  <2>7. from # {}
    BY <2>3
  <2>. QED  BY <2>2, <2>5, <2>6, <2>7
<1>. QED  BY <1>2 DEF Items
AllItems == [d \in Deques |-> Items(m_start[d], m_size[d], memory[d])]

\* The sequences after a step that changes one deque.
LEMMA OneChanges ==
  ASSUME NEW d \in Deques, NEW x,
         Items(m_start'[d], m_size'[d], memory'[d]) = x,
         \A e \in Deques \ {d} : /\ m_start'[e] = m_start[e]
                                 /\ m_size'[e] = m_size[e]
                                 /\ memory'[e] = memory[e]
  PROVE  AllItems' = [AllItems EXCEPT ![d] = x]
  BY DEF AllItems

LEMMA NoItems == \A b, mem : Items(b, 0, mem) = << >>
  BY DEF Items

LEMMA AbstractInit == Init => Abstract!Init
  BY NoItems DEF Init, Abstract!Init

LEMMA AbstractStep ==
  DequeInv /\ [Next]_vars => [Abstract!Next]_<<AllItems, result>>
<1>. SUFFICES ASSUME DequeInv, [Next]_vars PROVE [Abstract!Next]_<<AllItems, result>>
  OBVIOUS
<1>. DEFINE items(d) == Items(m_start[d], m_size[d], memory[d])
<1>a. \A d \in Deques : /\ AllItems[d] = items(d) /\ items(d) \in Seq(Values)
                        /\ Len(items(d)) = m_size[d] /\ m_size[d] \in Nat
                        /\ m_start[d] \in Int
                        /\ DequeOK(m_start[d], m_size[d], chunk_count[d], memory[d])
  BY ItemsSeq DEF AllItems, DequeInv
<1>1. ASSUME NEW d \in Deques, NEW v \in Values, PushBack(d, v)
      PROVE  Abstract!PushBack(d, v)
  <2>1. /\ m_start' = m_start /\ m_size'[d] = m_size[d] + 1
        /\ m_start[d] + m_size[d] \in GlobalIndexes
        /\ memory'[d] = [memory[d] EXCEPT ![SlotOf[m_start[d] + m_size[d]]] = v]
        /\ \A e \in Deques \ {d} : m_size'[e] = m_size[e] /\ memory'[e] = memory[e]
    BY <1>1 DEF PushBack, Insert, DequeInv, TypeOK
  <2>2. Items(m_start'[d], m_size'[d], memory'[d]) = Append(items(d), v)
    BY <1>a, <2>1, PushBackItems
  <2>3. AllItems' = [AllItems EXCEPT ![d] = Append(items(d), v)]
    BY <2>1, <2>2, OneChanges
  <2>. QED  BY <1>1, <1>a, <2>3 DEF Abstract!PushBack, AllItems, PushBack, Insert
<1>2. ASSUME NEW d \in Deques, NEW v \in Values, PushFront(d, v)
      PROVE  Abstract!PushFront(d, v)
  <2>1. /\ m_start'[d] = m_start[d] - 1 /\ m_size'[d] = m_size[d] + 1
        /\ m_start[d] - 1 \in GlobalIndexes
        /\ memory'[d] = [memory[d] EXCEPT ![SlotOf[m_start[d] - 1]] = v]
        /\ \A e \in Deques \ {d} : /\ m_start'[e] = m_start[e] /\ m_size'[e] = m_size[e]
                                   /\ memory'[e] = memory[e]
    BY <1>2 DEF PushFront, Insert, DequeInv, TypeOK
  <2>2. Items(m_start'[d], m_size'[d], memory'[d]) = <<v>> \o items(d)
    <3>1. DequeOK(m_start[d], m_size[d], chunk_count[d], memory[d])
      BY <1>a
    <3>2. PICK g \in GlobalIndexes : g = m_start[d] - 1
      BY <2>1
    <3>3. /\ memory'[d][SlotOf[g]] = v
          /\ \A s \in AllSlots : s # SlotOf[g] => memory'[d][s] = memory[d][s]
      BY <2>1, <3>1, <3>2, SlotExists DEF DequeOK
    <3>4. Items(g, m_size[d] + 1, memory'[d]) = <<v>> \o items(d)
      BY <3>1, <3>2, <3>3, PushFrontItems
    <3>. QED  BY <2>1, <3>2, <3>4
  <2>3. AllItems' = [AllItems EXCEPT ![d] = <<v>> \o items(d)]
    BY <2>1, <2>2 DEF AllItems
  <2>. QED  BY <1>2, <1>a, <2>3 DEF Abstract!PushFront, AllItems, PushFront, Insert
<1>3. ASSUME NEW d \in Deques, PopBack(d)
      PROVE  Abstract!PopBack(d)
  <2>1. /\ m_start' = m_start /\ m_size'[d] = m_size[d] - 1 /\ m_size[d] # 0
        /\ memory'[d] = [memory[d] EXCEPT ![SlotOf[m_start[d] + m_size[d] - 1]] = Error]
        /\ \A e \in Deques \ {d} : m_size'[e] = m_size[e] /\ memory'[e] = memory[e]
    BY <1>3 DEF PopBack, Discard, DequeInv, TypeOK
  <2>2. Items(m_start'[d], m_size'[d], memory'[d]) = SubSeq(items(d), 1, Len(items(d)) - 1)
    BY <1>a, <2>1, PopBackItems
  <2>3. AllItems' = [AllItems EXCEPT ![d] = SubSeq(items(d), 1, Len(items(d)) - 1)]
    BY <2>1, <2>2, OneChanges
  <2>. QED  BY <1>3, <1>a, <2>1, <2>3 DEF Abstract!PopBack, AllItems, PopBack, Discard
<1>4. ASSUME NEW d \in Deques, PopFront(d)
      PROVE  Abstract!PopFront(d)
  <2>1. /\ m_start'[d] = m_start[d] + 1 /\ m_size'[d] = m_size[d] - 1 /\ m_size[d] # 0
        /\ memory'[d] = [memory[d] EXCEPT ![SlotOf[m_start[d]]] = Error]
        /\ \A e \in Deques \ {d} : /\ m_start'[e] = m_start[e] /\ m_size'[e] = m_size[e]
                                   /\ memory'[e] = memory[e]
    BY <1>4 DEF PopFront, Discard, DequeInv, TypeOK
  <2>2. Items(m_start'[d], m_size'[d], memory'[d]) = Tail(items(d))
    <3>1. DequeOK(m_start[d], m_size[d], chunk_count[d], memory[d])
      BY <1>a
    <3>2. Items(m_start[d] + 1, m_size[d] - 1, [memory[d] EXCEPT ![SlotOf[m_start[d]]] = Error])
            = Tail(items(d))
      BY <2>1, <3>1, PopFrontItems
    <3>. QED  BY <2>1, <3>2
  <2>3. AllItems' = [AllItems EXCEPT ![d] = Tail(items(d))]
    BY <2>1, <2>2 DEF AllItems
  <2>. QED  BY <1>4, <1>a, <2>1, <2>3 DEF Abstract!PopFront, AllItems, PopFront, Discard
<1>5. ASSUME NEW d \in Deques, PopNothing(d)
      PROVE  Abstract!PopNothing(d)
  BY <1>5, NoItems DEF PopNothing, Abstract!PopNothing
<1>6. ASSUME NEW d \in Deques, NEW index \in Indexes, Get(d, index)
      PROVE  Abstract!Get(d, index)
  <2>1. AllItems' = AllItems /\ index \in Nat
    BY <1>6, DequeAssumption DEF AllItems, Get, Indexes
  <2>2. CASE index >= m_size[d]
    BY <1>6, <1>a, <2>1, <2>2 DEF Get, Abstract!Get, AllItems
  <2>3. CASE index < m_size[d]
    <3>1. PICK i \in 1 .. m_size[d] : i = index + 1
      BY <1>a, <2>1, <2>3
    <3>2. items(d)[i] = memory[d][SlotOf[m_start[d] + i - 1]]
      BY <1>a, ItemsSeq
    <3>3. m_start[d] + i - 1 = m_start[d] + index
      BY <1>a, <2>1, <3>1
    <3>4. result' = items(d)[index + 1]
      BY <1>6, <1>a, <2>1, <2>3, <3>1, <3>2, <3>3 DEF Get
    <3>. QED  BY <1>6, <1>a, <2>1, <2>3, <3>4 DEF Abstract!Get, AllItems
  <2>. QED  BY <1>a, <2>1, <2>2, <2>3
<1>7. ASSUME NEW d \in Deques, NEW other \in Deques, Copy(d, other)
      PROVE  Abstract!Copy(d, other)
  <2>1. /\ m_start' = m_start /\ m_size'[d] = m_size[other]
        /\ \A i \in 0 .. m_size[other] - 1 : m_start[d] + i \in GlobalIndexes
        /\ memory'[d] = Copied(m_start[d], m_start[other], m_size[other], memory[other])
        /\ \A e \in Deques \ {d} : m_size'[e] = m_size[e] /\ memory'[e] = memory[e]
    BY <1>7 DEF Copy, DequeInv, TypeOK
  <2>2. Items(m_start'[d], m_size'[d], memory'[d]) = items(other)
    <3>1. /\ m_start[d] \in Int
          /\ DequeOK(m_start[other], m_size[other], chunk_count[other], memory[other])
      BY <1>a
    <3>2. Items(m_start[d], m_size[other],
                Copied(m_start[d], m_start[other], m_size[other], memory[other]))
            = items(other)
      BY <2>1, <3>1, CopyItems
    <3>. QED  BY <2>1, <3>2
  <2>3. AllItems' = [AllItems EXCEPT ![d] = items(other)]
    BY <2>1, <2>2, OneChanges
  <2>. QED  BY <1>7, <1>a, <2>3 DEF Abstract!Copy, AllItems, Copy
<1>8. ASSUME NEW d \in Deques, NEW other \in Deques, Move(d, other)
      PROVE  Abstract!Move(d, other)
  <2>1. /\ d # other
        /\ Items(m_start'[d], m_size'[d], memory'[d]) = items(other)
        /\ Items(m_start'[other], m_size'[other], memory'[other]) = << >>
        /\ \A e \in Deques \ {d, other} :
             Items(m_start'[e], m_size'[e], memory'[e]) = items(e)
    BY <1>8, NoItems DEF Move, DequeInv, TypeOK
  <2>2. AllItems' = [AllItems EXCEPT ![d] = items(other), ![other] = << >>]
    BY <2>1 DEF AllItems
  <2>. QED  BY <1>8, <1>a, <2>1, <2>2 DEF Abstract!Move, AllItems, Move
<1>9. ASSUME NEW d \in Deques, Reset(d)
      PROVE  Abstract!Reset(d)
  <2>1. /\ Items(m_start'[d], m_size'[d], memory'[d]) = << >>
        /\ \A e \in Deques \ {d} : /\ m_start'[e] = m_start[e] /\ m_size'[e] = m_size[e]
                                   /\ memory'[e] = memory[e]
    BY <1>9, NoItems DEF Reset, DequeInv, TypeOK
  <2>2. AllItems' = [AllItems EXCEPT ![d] = << >>]
    BY <2>1, OneChanges
  <2>. QED  BY <1>9, <2>2 DEF Abstract!Reset, AllItems, Reset
<1>10. CASE UNCHANGED vars
  BY <1>10 DEF vars, AllItems
<1>. QED
  BY <1>1, <1>2, <1>3, <1>4, <1>5, <1>6, <1>7, <1>8, <1>9, <1>10 DEF Next, Abstract!Next

\* Every run of the deques, seen through get(), is a run of plain sequences.
THEOREM DequesAreSequences == Spec => ImplementsSequences
<1>1. DequeInv /\ [Next]_vars
        => [Abstract!Next]_<<[d \in Deques |-> Items(m_start[d], m_size[d], memory[d])], result>>
  BY AbstractStep DEF AllItems
<1>. QED
  BY <1>1, DequeInvariant, AbstractInit, PTL DEF Spec, ImplementsSequences, Abstract!Spec
=============================================================================
