---------------------------- MODULE FormatterProofs ----------------------------
(***************************************************************************)
(* The theorem that the formatter prints the tree of every file in full:   *)
(* the text that NodeFormatter has written when it is through is the one   *)
(* that the tree defines.                                                  *)
(***************************************************************************)
EXTENDS GrammarCheck, ParserProofs, WellFoundedInduction

-----------------------------------------------------------------------------
(* Induction                                                               *)

\* A set of natural numbers that is not empty has a least element.
LEMMA LeastNumber ==
  ASSUME NEW S, S \subseteq Nat, S # {}
  PROVE  \E x \in S : \A y \in S : x <= y
<1> DEFINE R == {ss \in Nat \X Nat : ss[1] < ss[2]}
<1>1. IsWellFoundedOn(R, Nat)
  BY NatLessThanWellFounded DEF OpToRel
<1> HIDE DEF R
<1>2. PICK x \in S : \A y \in S : <<y, x>> \notin R
  BY <1>1, WFMin
<1>3. \A y \in S : ~(y < x)
  BY <1>2 DEF R
<1>. QED  BY <1>2, <1>3

\* Induction over the numbers, for a set.
LEMMA ByInduction ==
  ASSUME NEW S, 0 \in S, \A n \in Nat : n \in S => n + 1 \in S
  PROVE  \A n \in Nat : n \in S
<1> SUFFICES ASSUME NEW n \in Nat, n \notin S
             PROVE  FALSE
  OBVIOUS
<1> DEFINE Missing == {m \in Nat : m \notin S}
<1>1. PICK x \in Missing : \A y \in Missing : x <= y
  BY LeastNumber
<1>2. x # 0 /\ x - 1 \in Nat /\ x - 1 \in S
  BY <1>1
<1>. QED  BY <1>1, <1>2

-----------------------------------------------------------------------------
(* Sequences of sequences                                                  *)

JoinedStep(seqs, f, i) == IF i = 1 THEN seqs[i] ELSE f[i - 1] \o seqs[i]
IsJoined(seqs, f) == f = [i \in 1..Len(seqs) |-> JoinedStep(seqs, f, i)]

\* One more behind the others.
LEMMA AppendParts ==
  ASSUME NEW S, NEW seq \in Seq(S), NEW last \in S
  PROVE  /\ Append(seq, last) \in Seq(S)
         /\ Len(seq) \in Nat /\ Len(Append(seq, last)) = Len(seq) + 1
         /\ DOMAIN Append(seq, last) = 1..Len(seq) + 1
         /\ Append(seq, last) = [i \in 1..Len(seq) + 1 |-> Append(seq, last)[i]]
         /\ \A i \in 1..Len(seq) : Append(seq, last)[i] = seq[i]
         /\ Append(seq, last)[Len(seq) + 1] = last
<1>1. PICK a : a = Append(seq, last)
  OBVIOUS
<1>2. /\ a \in Seq(S) /\ Len(a) = Len(seq) + 1 /\ Len(seq) \in Nat
      /\ \A i \in 1..Len(seq) : a[i] = seq[i]
      /\ a[Len(seq) + 1] = last
  BY <1>1, AppendProperties, LenProperties
<1>3. DOMAIN a = 1..Len(seq) + 1 /\ a = [i \in 1..Len(seq) + 1 |-> a[i]]
  BY <1>2, LenProperties
<1>. QED  BY <1>1, <1>2, <1>3

\* A sequence of one, and one behind two.
LEMMA OnlyOne ==
  ASSUME NEW S, NEW one \in S
  PROVE  <<one>> \in Seq(S)
  OBVIOUS

LEMMA ThreeInARow ==
  ASSUME NEW S, NEW a \in S, NEW b \in S, NEW c \in S
  PROVE  Append(<<a, b>>, c) = <<a, b, c>>
<1>1. /\ <<a, b>> \in Seq(S) /\ Len(<<a, b>>) = 2 /\ <<a, b>>[1] = a /\ <<a, b>>[2] = b
      /\ <<a, b, c>> \in Seq(S) /\ Len(<<a, b, c>>) = 3
      /\ <<a, b, c>>[1] = a /\ <<a, b, c>>[2] = b /\ <<a, b, c>>[3] = c
  OBVIOUS
<1>2. PICK s, t, u : s = <<a, b>> /\ t = <<a, b, c>> /\ u = Append(s, c)
  OBVIOUS
<1>3. u \in Seq(S) /\ Len(u) = 3 /\ u[3] = c /\ u[1] = s[1] /\ u[2] = s[2]
  BY <1>1, <1>2, AppendProperties
<1>4. t \in Seq(S) /\ Len(t) = 3 /\ t[1] = u[1] /\ t[2] = u[2] /\ t[3] = u[3]
  BY <1>1, <1>2, <1>3
<1>5. \A i \in 1..3 : t[i] = u[i]
  BY <1>4
<1>6. u = t
  BY <1>3, <1>4, <1>5, SeqEqual
<1>. QED  BY <1>2, <1>6

\* A function from the first numbers is a sequence.
LEMMA FunctionIsSequence ==
  ASSUME NEW S, NEW n \in Nat, NEW f \in [1..n -> S]
  PROVE  f \in Seq(S) /\ Len(f) = n
  OBVIOUS

\* The recursive function in FlattenSeq satisfies its own equation.
LEMMA JoinedExists ==
  ASSUME NEW S, NEW seqs \in Seq(S)
  PROVE  \E f : IsJoined(seqs, f)
<1> DEFINE D == 1..Len(seqs)
           Fits(f, k) == \A i \in D : i <= k => f[i] = JoinedStep(seqs, f, i)
           T == {k \in Nat : \E f : Fits(f, k)}
<1>0. Len(seqs) \in Nat
  OBVIOUS
<1>1. 0 \in T
  OBVIOUS
<1>2. ASSUME NEW k \in Nat, k \in T
      PROVE  k + 1 \in T
  <2>1. PICK f : Fits(f, k)
    BY <1>2
  <2> DEFINE g == [i \in D |-> JoinedStep(seqs, f, i)]
  <2>2. \A i \in D : i <= k => g[i] = f[i]
    BY <2>1
  <2>3. \A i \in D : g[i] = JoinedStep(seqs, f, i)
    OBVIOUS
  <2> HIDE DEF g
  <2>4. ASSUME NEW i \in D, i <= k + 1
        PROVE  g[i] = JoinedStep(seqs, g, i)
    <3>1. CASE i = 1
      BY <2>3, <3>1 DEF JoinedStep
    <3>2. CASE i # 1
      <4>1. i - 1 \in D /\ i - 1 <= k
        BY <1>0, <2>4, <3>2
      <4>2. f[i - 1] = g[i - 1]
        BY <2>2, <4>1
      <4>. QED  BY <2>3, <3>2, <4>2 DEF JoinedStep
    <3>. QED  BY <3>1, <3>2
  <2>5. Fits(g, k + 1)
    BY <2>4
  <2>. QED  BY <2>5
<1>3. Len(seqs) \in T
  <2> HIDE DEF T
  <2>. QED  BY <1>0, <1>1, <1>2, ByInduction
<1>4. PICK f : Fits(f, Len(seqs))
  BY <1>3
<1> DEFINE g == [i \in D |-> f[i]]
<1>5. ASSUME NEW i \in D
      PROVE  f[i] = JoinedStep(seqs, g, i)
  <2>1. f[i] = JoinedStep(seqs, f, i)
    BY <1>0, <1>4
  <2>2. CASE i = 1
    BY <2>1, <2>2 DEF JoinedStep
  <2>3. CASE i # 1
    <3>1. i - 1 \in D
      BY <1>0, <2>3
    <3>2. f[i - 1] = g[i - 1]
      BY <3>1
    <3> HIDE DEF g
    <3>. QED  BY <2>1, <2>3, <3>2 DEF JoinedStep
  <2>. QED  BY <2>2, <2>3
<1>6. g = [i \in D |-> JoinedStep(seqs, g, i)]
  <2> SUFFICES \A i \in D : f[i] = JoinedStep(seqs, g, i)
    BY Zenon
  <2>. QED  BY <1>5
<1>. QED  BY <1>6 DEF IsJoined

Joined(seqs) == CHOOSE f : IsJoined(seqs, f)

\* Its values, one after the other.
LEMMA JoinedParts ==
  ASSUME NEW S, NEW seqs \in Seq(S)
  PROVE  /\ Len(seqs) = 0 => FlattenSeq(seqs) = seqs
         /\ Len(seqs) # 0 => FlattenSeq(seqs) = Joined(seqs)[Len(seqs)]
         /\ \A i \in 1..Len(seqs) : Joined(seqs)[i] = JoinedStep(seqs, Joined(seqs), i)
<1>1. IsJoined(seqs, Joined(seqs))
  BY JoinedExists, Zenon DEF Joined
<1>2. FlattenSeq(seqs) = IF Len(seqs) = 0 THEN seqs ELSE Joined(seqs)[Len(seqs)]
  BY DEF FlattenSeq, Joined, IsJoined, JoinedStep
<1>3. PICK f : f = Joined(seqs)
  OBVIOUS
<1>4. \A i \in 1..Len(seqs) : f[i] = JoinedStep(seqs, f, i)
  BY <1>1, <1>3 DEF IsJoined
<1>. QED  BY <1>2, <1>3, <1>4

\* Joining one more.
LEMMA JoinedMore ==
  ASSUME NEW S, NEW seqs \in Seq(Seq(S)), NEW one \in Seq(S)
  PROVE  FlattenSeq(Append(seqs, one)) = FlattenSeq(seqs) \o one
<1> DEFINE more == Append(seqs, one)
           n == Len(seqs)
<1>1. /\ more \in Seq(Seq(S)) /\ n \in Nat /\ Len(more) = n + 1
      /\ \A i \in 1..n : more[i] = seqs[i]
      /\ more[n + 1] = one
  OBVIOUS
<1> HIDE DEF more
<1>2. PICK f : f = Joined(seqs)
  OBVIOUS
<1>3. PICK g : g = Joined(more)
  OBVIOUS
<1>4. /\ n = 0 => FlattenSeq(seqs) = seqs
      /\ n # 0 => FlattenSeq(seqs) = f[n]
      /\ \A i \in 1..n : f[i] = JoinedStep(seqs, f, i)
  BY <1>2, JoinedParts
<1>5. /\ FlattenSeq(more) = g[n + 1]
      /\ \A i \in 1..n + 1 : g[i] = JoinedStep(more, g, i)
  BY <1>1, <1>3, JoinedParts
<1> HIDE DEF n
<1> DEFINE T == {k \in Nat : k + 1 <= n => g[k + 1] = f[k + 1]}
<1>6. 0 \in T
  BY <1>1, <1>4, <1>5 DEF JoinedStep
<1>7. ASSUME NEW k \in Nat, k \in T
      PROVE  k + 1 \in T
  <2> SUFFICES ASSUME k + 2 <= n
               PROVE  g[k + 2] = f[k + 2]
    OBVIOUS
  <2>1. k + 2 \in 1..n /\ k + 2 # 1 /\ (k + 2) - 1 = k + 1 /\ g[k + 1] = f[k + 1]
    BY <1>1, <1>7
  <2>2. k + 2 \in 1..n + 1
    BY <1>1, <2>1
  <2>3. g[k + 2] = g[k + 1] \o more[k + 2] /\ f[k + 2] = f[k + 1] \o seqs[k + 2]
    BY <1>4, <1>5, <2>1, <2>2 DEF JoinedStep
  <2>. QED  BY <1>1, <2>1, <2>3
<1>8. \A k \in Nat : k \in T
  <2> HIDE DEF T
  <2>. QED  BY <1>6, <1>7, ByInduction
<1>9. CASE n = 0
  <2>1. seqs = <<>>
    BY <1>9, EmptySeq DEF n
  <2>2. FlattenSeq(more) = one
    BY <1>1, <1>5, <1>9 DEF JoinedStep
  <2>. QED  BY <1>4, <1>9, <2>1, <2>2 DEF more
<1>10. CASE n # 0
  <2>1. n - 1 \in Nat /\ (n - 1) + 1 = n
    BY <1>1, <1>10
  <2>2. n - 1 \in T
    BY <1>8, <2>1
  <2>3. g[n] = f[n]
    BY <2>1, <2>2
  <2>4. n + 1 \in 1..n + 1 /\ n + 1 # 1 /\ (n + 1) - 1 = n
    BY <1>1, <1>10
  <2>5. g[n + 1] = g[n] \o more[n + 1]
    BY <1>5, <2>4 DEF JoinedStep
  <2>. QED  BY <1>1, <1>4, <1>5, <1>10, <2>3, <2>5 DEF more
<1>. QED  BY <1>9, <1>10

LEMMA JoinedNone == FlattenSeq(<<>>) = <<>>
  BY JoinedParts, EmptySeq

\* What is true of nothing, and stays true with one more, is true of what is joined.
LEMMA JoinedType ==
  ASSUME NEW S, NEW seqs \in Seq(Seq(S))
  PROVE  FlattenSeq(seqs) \in Seq(S)
<1>1. PICK f : f = Joined(seqs)
  OBVIOUS
<1>2. /\ Len(seqs) = 0 => FlattenSeq(seqs) = seqs
      /\ Len(seqs) # 0 => FlattenSeq(seqs) = f[Len(seqs)]
      /\ \A i \in 1..Len(seqs) : f[i] = JoinedStep(seqs, f, i)
  BY <1>1, JoinedParts
<1>3. Len(seqs) \in Nat /\ \A i \in 1..Len(seqs) : seqs[i] \in Seq(S)
  OBVIOUS
<1> DEFINE T == {k \in Nat : k + 1 <= Len(seqs) => f[k + 1] \in Seq(S)}
<1>4. 0 \in T
  BY <1>2, <1>3 DEF JoinedStep
<1>5. ASSUME NEW k \in Nat, k \in T
      PROVE  k + 1 \in T
  <2> SUFFICES ASSUME k + 2 <= Len(seqs)
               PROVE  f[k + 2] \in Seq(S)
    OBVIOUS
  <2>1. k + 2 \in 1..Len(seqs) /\ k + 2 # 1 /\ (k + 2) - 1 = k + 1 /\ f[k + 1] \in Seq(S)
    BY <1>3, <1>5
  <2>2. f[k + 2] = f[k + 1] \o seqs[k + 2]
    BY <1>2, <2>1 DEF JoinedStep
  <2>. QED  BY <1>3, <2>1, <2>2, ConcatProperties
<1>6. \A k \in Nat : k \in T
  <2> HIDE DEF T
  <2>. QED  BY <1>4, <1>5, ByInduction
<1>7. CASE Len(seqs) = 0
  BY <1>2, <1>7, EmptySeq
<1>8. CASE Len(seqs) # 0
  <2>1. Len(seqs) - 1 \in Nat /\ (Len(seqs) - 1) + 1 = Len(seqs)
    BY <1>3, <1>8
  <2>2. (Len(seqs) - 1) + 1 <= Len(seqs) => f[(Len(seqs) - 1) + 1] \in Seq(S)
    BY <1>6, <2>1
  <2>. QED  BY <1>2, <1>3, <1>8, <2>1, <2>2
<1>. QED  BY <1>7, <1>8

-----------------------------------------------------------------------------
(* Pages                                                                   *)

\* What is written, and the lines of it.
Pieces == {Label(name) : name \in STRING} \cup {Label(name) \o "[" : name \in STRING}
            \cup {type \o "(" : type \in NodeTypes} \cup {",", ")", "]"}
PageLine == [indent : Nat, words : Seq(Pieces)]
Page == Seq(PageLine)
Written == Page \ {<<>>}
Moved(n, page) == [i \in DOMAIN page |-> [page[i] EXCEPT !.indent = @ + n]]

\* The lines of a page.
LEMMA PageFacts ==
  ASSUME NEW page \in Page
  PROVE  /\ Len(page) \in Nat /\ DOMAIN page = 1..Len(page)
         /\ page \in Written => Len(page) > 0
         /\ Len(page) > 0 => page \in Written
         /\ Len(page) = 0 => page = <<>>
         /\ \A i \in 1..Len(page) : /\ page[i] \in PageLine /\ page[i].indent \in Nat
                                    /\ page[i].words \in Seq(Pieces)
<1>1. /\ Len(page) \in Nat /\ DOMAIN page = 1..Len(page)
      /\ \A i \in 1..Len(page) : page[i] \in PageLine
  BY DEF Page
<1>2. page # <<>> <=> Len(page) > 0
  BY EmptySeq DEF Page
<1>3. \A i \in 1..Len(page) : page[i].indent \in Nat /\ page[i].words \in Seq(Pieces)
  BY <1>1 DEF PageLine
<1>. QED  BY <1>1, <1>2, <1>3 DEF Written

\* A page behind another one.
LEMMA PagesJoined ==
  ASSUME NEW a \in Page, NEW b \in Page
  PROVE  /\ a \o b \in Page /\ Len(a \o b) = Len(a) + Len(b)
         /\ \A i \in 1..Len(a) + Len(b) :
              (a \o b)[i] = IF i <= Len(a) THEN a[i] ELSE b[i - Len(a)]
         /\ b \in Written \/ a \in Written => a \o b \in Written
<1>1. /\ a \o b \in Page /\ Len(a \o b) = Len(a) + Len(b)
      /\ \A i \in 1..Len(a) + Len(b) :
           (a \o b)[i] = IF i <= Len(a) THEN a[i] ELSE b[i - Len(a)]
  BY ConcatProperties DEF Page
<1>2. /\ Len(a) \in Nat /\ Len(b) \in Nat
      /\ a \in Written => Len(a) > 0
      /\ b \in Written => Len(b) > 0
  BY PageFacts
<1>3. Len(a \o b) > 0 => a \o b \in Written
  BY <1>1, PageFacts
<1>4. b \in Written \/ a \in Written => Len(a \o b) > 0
  BY <1>1, <1>2
<1>. QED  BY <1>1, <1>3, <1>4

LEMMA PagesRegrouped ==
  ASSUME NEW a \in Page, NEW b \in Page, NEW c \in Page
  PROVE  (a \o b) \o c = a \o (b \o c)
  BY ConcatAssociative DEF Page

LEMMA PagesEqual ==
  ASSUME NEW a \in Page, NEW b \in Page, Len(a) = Len(b),
         \A i \in 1..Len(a) : a[i] = b[i]
  PROVE  a = b
  BY SeqEqual DEF Page

LEMMA OneRow ==
  ASSUME NEW n \in Nat, NEW words \in Seq(Pieces)
  PROVE  /\ <<[indent |-> n, words |-> words]>> \in Written
         /\ Len(<<[indent |-> n, words |-> words]>>) = 1
<1>1. [indent |-> n, words |-> words] \in PageLine
  BY DEF PageLine
<1>2. <<[indent |-> n, words |-> words]>> \in Page
  BY <1>1 DEF Page
<1>3. Len(<<[indent |-> n, words |-> words]>>) = 1
  OBVIOUS
<1>4. <<[indent |-> n, words |-> words]>> # <<>>
  BY <1>3
<1>. QED  BY <1>2, <1>3, <1>4 DEF Written

\* Writing changes the last line only.
LEMMA WriteParts ==
  ASSUME NEW page \in Written, NEW word \in Pieces
  PROVE  /\ Write(page, word) \in Written /\ Len(Write(page, word)) = Len(page)
         /\ \A i \in 1..Len(page) : Write(page, word)[i] =
              IF i = Len(page)
              THEN [indent |-> page[i].indent, words |-> Append(page[i].words, word)]
              ELSE page[i]
<1> DEFINE n == Len(page)
           last == [page[n] EXCEPT !.words = Append(@, word)]
<1>1. page \in Page /\ n \in 1..n
  BY PageFacts DEF Written
<1>2. page[n] \in PageLine /\ page[n].words \in Seq(Pieces)
  BY <1>1, PageFacts
<1>3. /\ last \in PageLine
      /\ last = [indent |-> page[n].indent, words |-> Append(page[n].words, word)]
  <2> HIDE DEF n
  <2>1. PICK row, more : row = page[n] /\ more = Append(row.words, word)
    OBVIOUS
  <2>2. row \in PageLine /\ more \in Seq(Pieces)
    BY <1>2, <2>1, AppendProperties
  <2>3. [row EXCEPT !.words = more] = [indent |-> row.indent, words |-> more]
    BY <2>2 DEF PageLine
  <2>4. [indent |-> row.indent, words |-> more] \in PageLine
    BY <2>2 DEF PageLine
  <2>5. last = [row EXCEPT !.words = more]
    BY <2>1
  <2>. QED  BY <2>1, <2>3, <2>4, <2>5
<1>4. Write(page, word) = [page EXCEPT ![n] = last]
  BY DEF Write
<1> HIDE DEF last, n
<1>5. /\ Write(page, word) \in Page /\ Len(Write(page, word)) = Len(page)
      /\ \A i \in 1..Len(page) : Write(page, word)[i] = IF i = n THEN last ELSE page[i]
  BY <1>1, <1>3, <1>4, ExceptSeq DEF n, Page
<1>6. Write(page, word) \in Written
  BY <1>1, <1>5, PageFacts DEF n
<1>. QED  BY <1>3, <1>5, <1>6 DEF n

\* Writing behind what is in front.
LEMMA WriteBehind ==
  ASSUME NEW a \in Page, NEW b \in Written, NEW word \in Pieces
  PROVE  Write(a \o b, word) = a \o Write(b, word)
<1>1. b \in Page /\ Len(b) > 0 /\ Len(a) \in Nat /\ Len(b) \in Nat
  BY PageFacts DEF Written
<1>2. PICK ab : ab = a \o b
  OBVIOUS
<1>3. /\ ab \in Written /\ Len(ab) = Len(a) + Len(b)
      /\ \A i \in 1..Len(a) + Len(b) : ab[i] = IF i <= Len(a) THEN a[i] ELSE b[i - Len(a)]
  BY <1>1, <1>2, PagesJoined
<1>4. PICK w : w = Write(b, word)
  OBVIOUS
<1>5. /\ w \in Written /\ Len(w) = Len(b)
      /\ \A i \in 1..Len(b) : w[i] =
           IF i = Len(b)
           THEN [indent |-> b[i].indent, words |-> Append(b[i].words, word)] ELSE b[i]
  BY <1>4, WriteParts
<1>6. PICK r : r = a \o w
  OBVIOUS
<1>7. /\ r \in Page /\ Len(r) = Len(a) + Len(b)
      /\ \A i \in 1..Len(a) + Len(b) : r[i] = IF i <= Len(a) THEN a[i] ELSE w[i - Len(a)]
  BY <1>5, <1>6, PagesJoined DEF Written
<1>8. PICK l : l = Write(ab, word)
  OBVIOUS
<1>9. /\ l \in Page /\ Len(l) = Len(ab)
      /\ \A i \in 1..Len(ab) : l[i] =
           IF i = Len(ab)
           THEN [indent |-> ab[i].indent, words |-> Append(ab[i].words, word)] ELSE ab[i]
  BY <1>3, <1>8, WriteParts DEF Written
<1>10. ASSUME NEW i \in 1..Len(a) + Len(b)
       PROVE  l[i] = r[i]
  <2>1. CASE i <= Len(a)
    <3>1. i # Len(ab)
      BY <1>1, <1>3, <2>1
    <3>. QED  BY <1>3, <1>7, <1>9, <2>1, <3>1
  <2>2. CASE ~(i <= Len(a))
    <3>1. i - Len(a) \in 1..Len(b) /\ (i = Len(ab) <=> i - Len(a) = Len(b))
      BY <1>1, <1>3, <2>2
    <3>2. ab[i] = b[i - Len(a)] /\ r[i] = w[i - Len(a)]
      BY <1>3, <1>7, <2>2
    <3>. QED  BY <1>3, <1>5, <1>9, <3>1, <3>2
  <2>. QED  BY <2>1, <2>2
<1>11. l = r
  BY <1>3, <1>7, <1>9, <1>10, PagesEqual
<1>. QED  BY <1>2, <1>4, <1>6, <1>8, <1>11

\* Moving a page moves each line of it.
LEMMA MovedParts ==
  ASSUME NEW n \in Nat, NEW page \in Page
  PROVE  /\ Moved(n, page) \in Page /\ Len(Moved(n, page)) = Len(page)
         /\ \A i \in 1..Len(page) : Moved(n, page)[i] =
              [indent |-> page[i].indent + n, words |-> page[i].words]
         /\ page \in Written => Moved(n, page) \in Written
<1>1. Len(page) \in Nat /\ DOMAIN page = 1..Len(page)
  BY PageFacts
<1>2. \A i \in 1..Len(page) : page[i] \in PageLine
  BY PageFacts
<1>3. ASSUME NEW i \in 1..Len(page)
      PROVE  /\ [page[i] EXCEPT !.indent = @ + n] =
                  [indent |-> page[i].indent + n, words |-> page[i].words]
             /\ [page[i] EXCEPT !.indent = @ + n] \in PageLine
  BY <1>2 DEF PageLine
<1>4. Moved(n, page) = [i \in 1..Len(page) |-> [page[i] EXCEPT !.indent = @ + n]]
  BY <1>1 DEF Moved
<1>5. Moved(n, page) \in Page /\ Len(Moved(n, page)) = Len(page)
  <2>1. PICK m : m = Moved(n, page)
    OBVIOUS
  <2>2. m \in [1..Len(page) -> PageLine]
    BY <1>3, <1>4, <2>1
  <2>3. m \in Seq(PageLine) /\ Len(m) = Len(page)
    BY <1>1, <2>2
  <2>. QED  BY <2>1, <2>3 DEF Page
<1>. QED  BY <1>3, <1>4, <1>5, PageFacts

LEMMA MovedJoined ==
  ASSUME NEW n \in Nat, NEW a \in Page, NEW b \in Page
  PROVE  Moved(n, a \o b) = Moved(n, a) \o Moved(n, b)
<1>1. Len(a) \in Nat /\ Len(b) \in Nat
  BY PageFacts
<1>2. PICK ab, ma, mb : ab = a \o b /\ ma = Moved(n, a) /\ mb = Moved(n, b)
  OBVIOUS
<1>3. /\ ab \in Page /\ Len(ab) = Len(a) + Len(b)
      /\ \A i \in 1..Len(a) + Len(b) : ab[i] = IF i <= Len(a) THEN a[i] ELSE b[i - Len(a)]
  BY <1>2, PagesJoined
<1>4. /\ ma \in Page /\ Len(ma) = Len(a) /\ mb \in Page /\ Len(mb) = Len(b)
      /\ \A i \in 1..Len(a) : ma[i] = [indent |-> a[i].indent + n, words |-> a[i].words]
      /\ \A i \in 1..Len(b) : mb[i] = [indent |-> b[i].indent + n, words |-> b[i].words]
  BY <1>2, MovedParts
<1>5. PICK l, r : l = Moved(n, ab) /\ r = ma \o mb
  OBVIOUS
<1>6. /\ l \in Page /\ Len(l) = Len(ab)
      /\ \A i \in 1..Len(ab) : l[i] = [indent |-> ab[i].indent + n, words |-> ab[i].words]
  BY <1>3, <1>5, MovedParts
<1>7. /\ r \in Page /\ Len(r) = Len(a) + Len(b)
      /\ \A i \in 1..Len(a) + Len(b) : r[i] = IF i <= Len(a) THEN ma[i] ELSE mb[i - Len(a)]
  <2>1. /\ ma \o mb \in Page /\ Len(ma \o mb) = Len(ma) + Len(mb)
        /\ \A i \in 1..Len(ma) + Len(mb) :
             (ma \o mb)[i] = IF i <= Len(ma) THEN ma[i] ELSE mb[i - Len(ma)]
    BY <1>4, PagesJoined
  <2>. QED  BY <1>4, <1>5, <2>1
<1>8. ASSUME NEW i \in 1..Len(l)
      PROVE  l[i] = r[i]
  <2>0. i \in 1..Len(a) + Len(b) /\ i \in 1..Len(ab)
    BY <1>3, <1>6
  <2>1. CASE i <= Len(a)
    <3>1. i \in 1..Len(a)
      BY <1>1, <2>0, <2>1
    <3>2. l[i] = [indent |-> ab[i].indent + n, words |-> ab[i].words]
      BY <1>6, <2>0
    <3>3. ab[i] = a[i] /\ r[i] = ma[i]
      BY <1>3, <1>7, <2>0, <2>1
    <3>. QED  BY <1>4, <3>1, <3>2, <3>3
  <2>2. CASE ~(i <= Len(a))
    <3>1. i - Len(a) \in 1..Len(b)
      BY <1>1, <2>0, <2>2
    <3>2. l[i] = [indent |-> ab[i].indent + n, words |-> ab[i].words]
      BY <1>6, <2>0
    <3>3. ab[i] = b[i - Len(a)] /\ r[i] = mb[i - Len(a)]
      BY <1>3, <1>7, <2>0, <2>2
    <3>. QED  BY <1>4, <3>1, <3>2, <3>3
  <2>. QED  BY <2>1, <2>2
<1>9. l = r
  BY <1>3, <1>6, <1>7, <1>8, PagesEqual
<1>. QED  BY <1>2, <1>5, <1>9

LEMMA MovedTwice ==
  ASSUME NEW n \in Nat, NEW m \in Nat, NEW page \in Page
  PROVE  Moved(n, Moved(m, page)) = Moved(m + n, page)
<1>1. PICK a, l, r : a = Moved(m, page) /\ l = Moved(n, a) /\ r = Moved(m + n, page)
  OBVIOUS
<1>2. /\ a \in Page /\ Len(a) = Len(page)
      /\ \A i \in 1..Len(page) :
           a[i] = [indent |-> page[i].indent + m, words |-> page[i].words]
  BY <1>1, MovedParts
<1>3. /\ l \in Page /\ Len(l) = Len(page)
      /\ \A i \in 1..Len(page) : l[i] = [indent |-> a[i].indent + n, words |-> a[i].words]
  BY <1>1, <1>2, MovedParts
<1>4. m + n \in Nat
  OBVIOUS
<1>5. /\ r \in Page /\ Len(r) = Len(page)
      /\ \A i \in 1..Len(page) :
           r[i] = [indent |-> page[i].indent + (m + n), words |-> page[i].words]
  BY <1>1, <1>4, MovedParts
<1>6. ASSUME NEW i \in 1..Len(page)
      PROVE  l[i] = r[i]
  <2>1. page[i].indent \in Nat
    BY PageFacts
  <2>2. (page[i].indent + m) + n = page[i].indent + (m + n)
    BY <2>1
  <2>3. l[i] = [indent |-> a[i].indent + n, words |-> a[i].words]
    BY <1>3
  <2>4. a[i].indent = page[i].indent + m /\ a[i].words = page[i].words
    <3>1. a[i] = [indent |-> page[i].indent + m, words |-> page[i].words]
      BY <1>2
    <3>. QED  BY <3>1
  <2>5. r[i] = [indent |-> page[i].indent + (m + n), words |-> page[i].words]
    BY <1>5
  <2>. QED  BY <2>2, <2>3, <2>4, <2>5
<1>7. l = r
  BY <1>3, <1>5, <1>6, PagesEqual
<1>. QED  BY <1>1, <1>7

LEMMA NotMoved ==
  ASSUME NEW page \in Page
  PROVE  Moved(0, page) = page
<1>1. PICK m : m = Moved(0, page)
  OBVIOUS
<1>2. /\ m \in Page /\ Len(m) = Len(page)
      /\ \A i \in 1..Len(page) :
           m[i] = [indent |-> page[i].indent + 0, words |-> page[i].words]
  BY <1>1, MovedParts
<1>3. ASSUME NEW i \in 1..Len(page)
      PROVE  m[i] = page[i]
  <2>1. page[i] \in PageLine /\ page[i].indent \in Nat
    BY PageFacts
  <2>2. page[i] = [indent |-> page[i].indent, words |-> page[i].words]
    BY <2>1 DEF PageLine
  <2>3. page[i].indent + 0 = page[i].indent
    BY <2>1
  <2>. QED  BY <1>2, <2>2, <2>3
<1>. QED  BY <1>1, <1>2, <1>3, PagesEqual

\* A word may be written before or after.
LEMMA MovedWrite ==
  ASSUME NEW n \in Nat, NEW page \in Written, NEW word \in Pieces
  PROVE  Moved(n, Write(page, word)) = Write(Moved(n, page), word)
<1>0. page \in Page
  BY DEF Written
<1>1. PICK w, m, l, r : /\ w = Write(page, word) /\ m = Moved(n, page)
                        /\ l = Moved(n, w) /\ r = Write(m, word)
  OBVIOUS
<1>2. /\ w \in Written /\ Len(w) = Len(page)
      /\ \A i \in 1..Len(page) : w[i] =
           IF i = Len(page)
           THEN [indent |-> page[i].indent, words |-> Append(page[i].words, word)]
           ELSE page[i]
  BY <1>1, WriteParts
<1>3. /\ m \in Written /\ Len(m) = Len(page)
      /\ \A i \in 1..Len(page) :
           m[i] = [indent |-> page[i].indent + n, words |-> page[i].words]
  BY <1>0, <1>1, MovedParts
<1>4. /\ l \in Page /\ Len(l) = Len(page)
      /\ \A i \in 1..Len(page) : l[i] = [indent |-> w[i].indent + n, words |-> w[i].words]
  BY <1>1, <1>2, MovedParts DEF Written
<1>5. /\ r \in Page /\ Len(r) = Len(page)
      /\ \A i \in 1..Len(page) : r[i] =
           IF i = Len(page)
           THEN [indent |-> m[i].indent, words |-> Append(m[i].words, word)] ELSE m[i]
  <2>1. /\ Write(m, word) \in Written /\ Len(Write(m, word)) = Len(m)
        /\ \A i \in 1..Len(m) : Write(m, word)[i] =
             IF i = Len(m)
             THEN [indent |-> m[i].indent, words |-> Append(m[i].words, word)] ELSE m[i]
    BY <1>3, WriteParts
  <2>. QED  BY <1>1, <1>3, <2>1 DEF Written
<1>6. ASSUME NEW i \in 1..Len(page)
      PROVE  l[i] = r[i]
  <2>1. l[i] = [indent |-> w[i].indent + n, words |-> w[i].words]
    BY <1>4
  <2>2. m[i].indent = page[i].indent + n /\ m[i].words = page[i].words
    <3>1. m[i] = [indent |-> page[i].indent + n, words |-> page[i].words]
      BY <1>3
    <3>. QED  BY <3>1
  <2>3. CASE i = Len(page)
    <3>1. w[i].indent = page[i].indent /\ w[i].words = Append(page[i].words, word)
      <4>1. w[i] = [indent |-> page[i].indent, words |-> Append(page[i].words, word)]
        BY <1>2, <2>3
      <4>. QED  BY <4>1
    <3>2. r[i] = [indent |-> m[i].indent, words |-> Append(m[i].words, word)]
      BY <1>5, <2>3
    <3>. QED  BY <2>1, <2>2, <3>1, <3>2
  <2>4. CASE i # Len(page)
    BY <1>2, <1>3, <1>5, <2>1, <2>4
  <2>. QED  BY <2>3, <2>4
<1>. QED  BY <1>1, <1>4, <1>5, <1>6, PagesEqual

\* A line, in brackets of its own.
LineOf(n, words) == <<[indent |-> n, words |-> words]>>

LEMMA WriteLine ==
  ASSUME NEW n \in Nat, NEW words \in Seq(Pieces), NEW word \in Pieces
  PROVE  /\ LineOf(n, words) \in Written /\ Len(LineOf(n, words)) = 1
         /\ Append(words, word) \in Seq(Pieces)
         /\ Write(LineOf(n, words), word) = LineOf(n, Append(words, word))
<1>1. LineOf(n, words) \in Written /\ Len(LineOf(n, words)) = 1
  BY OneRow DEF LineOf
<1>2. Append(words, word) \in Seq(Pieces)
  BY AppendProperties
<1>3. LineOf(n, Append(words, word)) \in Written /\ Len(LineOf(n, Append(words, word))) = 1
  BY <1>2, OneRow DEF LineOf
<1>4. PICK w, l : w = Write(LineOf(n, words), word) /\ l = LineOf(n, words)
  OBVIOUS
<1>5. /\ w \in Written /\ Len(w) = 1
      /\ \A i \in 1..1 : w[i] =
           IF i = 1 THEN [indent |-> l[i].indent, words |-> Append(l[i].words, word)] ELSE l[i]
  <2>1. /\ Write(l, word) \in Written /\ Len(Write(l, word)) = Len(l)
        /\ \A i \in 1..Len(l) : Write(l, word)[i] =
             IF i = Len(l)
             THEN [indent |-> l[i].indent, words |-> Append(l[i].words, word)] ELSE l[i]
    BY <1>1, <1>4, WriteParts
  <2>2. Write(l, word) = w /\ Len(l) = 1
    BY <1>1, <1>4
  <2>. QED  BY <2>1, <2>2
<1>6. l[1] = [indent |-> n, words |-> words]
  BY <1>4 DEF LineOf
<1>7. w[1] = [indent |-> n, words |-> Append(words, word)]
  BY <1>5, <1>6
<1>8. w = LineOf(n, Append(words, word))
  <2>1. PICK r : r = LineOf(n, Append(words, word))
    OBVIOUS
  <2>2. r[1] = [indent |-> n, words |-> Append(words, word)]
    BY <2>1 DEF LineOf
  <2>3. w \in Page /\ r \in Page /\ Len(w) = 1 /\ Len(r) = 1
    BY <1>3, <1>5, <2>1 DEF Written
  <2>4. \A i \in 1..1 : w[i] = r[i]
    BY <1>7, <2>2
  <2>. QED  BY <2>1, <2>3, <2>4, PagesEqual
<1>. QED  BY <1>1, <1>2, <1>4, <1>8

LEMMA MovedLine ==
  ASSUME NEW n \in Nat, NEW words \in Seq(Pieces)
  PROVE  Moved(n, LineOf(0, words)) = LineOf(n, words)
<1>1. PICK l, m, r : l = LineOf(0, words) /\ m = Moved(n, l) /\ r = LineOf(n, words)
  OBVIOUS
<1>2. /\ l \in Page /\ Len(l) = 1 /\ r \in Page /\ Len(r) = 1
      /\ l[1] = [indent |-> 0, words |-> words] /\ r[1] = [indent |-> n, words |-> words]
  BY <1>1, OneRow DEF LineOf, Written
<1>3. /\ m \in Page /\ Len(m) = 1
      /\ \A i \in 1..1 : m[i] = [indent |-> l[i].indent + n, words |-> l[i].words]
  BY <1>1, <1>2, MovedParts
<1>4. l[1].indent + n = n /\ l[1].words = words
  BY <1>2
<1>5. m[1] = [indent |-> n, words |-> words]
  BY <1>3, <1>4
<1>6. m = r
  BY <1>2, <1>3, <1>5, PagesEqual
<1>. QED  BY <1>1, <1>6

-----------------------------------------------------------------------------
(* Blocks                                                                  *)

Blocks == Seq(Written)
Comma == ","
WithCommas(blocks) == [i \in 1..Len(blocks) |-> Write(blocks[i], Comma)]

LEMMA PieceComma == Comma \in Pieces
  BY Zenon DEF Pieces, Comma

LEMMA RowsText ==
  ASSUME NEW blocks
  PROVE  Rows(blocks) = FlattenSeq([i \in DOMAIN blocks |->
           IF i = Len(blocks) THEN blocks[i] ELSE Write(blocks[i], Comma)])
  BY Zenon DEF Rows, Comma

\* A comma behind each block.
LEMMA WithCommasType ==
  ASSUME NEW blocks \in Blocks
  PROVE  /\ WithCommas(blocks) \in Seq(Page) /\ Len(WithCommas(blocks)) = Len(blocks)
         /\ Len(blocks) \in Nat
         /\ \A i \in 1..Len(blocks) : /\ blocks[i] \in Written
                                      /\ WithCommas(blocks)[i] = Write(blocks[i], Comma)
<1>1. Len(blocks) \in Nat /\ \A i \in 1..Len(blocks) : blocks[i] \in Written
  BY DEF Blocks
<1>2. \A i \in 1..Len(blocks) : Write(blocks[i], Comma) \in Page
  BY <1>1, WriteParts, PieceComma DEF Written
<1>3. PICK w : w = WithCommas(blocks)
  OBVIOUS
<1>4. /\ w \in [1..Len(blocks) -> Page]
      /\ \A i \in 1..Len(blocks) : w[i] = Write(blocks[i], Comma)
  BY <1>2, <1>3 DEF WithCommas
<1>5. w \in Seq(Page) /\ Len(w) = Len(blocks)
  BY <1>1, <1>4, FunctionIsSequence
<1>. QED  BY <1>1, <1>3, <1>4, <1>5

\* All blocks but the last have a comma.
LEMMA RowsLast ==
  ASSUME NEW blocks \in Blocks, NEW block \in Written
  PROVE  /\ Rows(Append(blocks, block)) = FlattenSeq(WithCommas(blocks)) \o block
         /\ FlattenSeq(WithCommas(blocks)) \in Page
         /\ Rows(Append(blocks, block)) \in Written
<1>1. PICK more : more = Append(blocks, block)
  OBVIOUS
<1>2. /\ Len(blocks) \in Nat /\ Len(more) = Len(blocks) + 1 /\ DOMAIN more = 1..Len(blocks) + 1
      /\ \A i \in 1..Len(blocks) : more[i] = blocks[i]
      /\ more[Len(blocks) + 1] = block
  BY <1>1, AppendParts DEF Blocks
<1>3. PICK rows, commas :
        /\ rows = [i \in DOMAIN more |-> IF i = Len(more) THEN more[i] ELSE Write(more[i], Comma)]
        /\ commas = WithCommas(blocks)
  OBVIOUS
<1>4. /\ commas \in Seq(Page) /\ Len(commas) = Len(blocks)
      /\ \A i \in 1..Len(blocks) : commas[i] = Write(blocks[i], Comma)
  BY <1>3, WithCommasType
<1>5. block \in Page
  BY DEF Written
<1>6. rows = Append(commas, block)
  <2>1. PICK a : a = Append(commas, block)
    OBVIOUS
  <2>2. /\ a = [i \in 1..Len(blocks) + 1 |-> a[i]]
        /\ \A i \in 1..Len(blocks) : a[i] = commas[i]
        /\ a[Len(blocks) + 1] = block
    <3>1. /\ Append(commas, block) = [i \in 1..Len(commas) + 1 |-> Append(commas, block)[i]]
          /\ \A i \in 1..Len(commas) : Append(commas, block)[i] = commas[i]
          /\ Append(commas, block)[Len(commas) + 1] = block
      BY <1>4, <1>5, AppendParts
    <3>2. Len(commas) = Len(blocks)
      BY <1>4, <1>5
    <3>. QED  BY <2>1, <3>1, <3>2
  <2>3. ASSUME NEW i \in 1..Len(blocks) + 1
        PROVE  a[i] = IF i = Len(more) THEN more[i] ELSE Write(more[i], Comma)
    <3>1. CASE i = Len(blocks) + 1
      BY <1>2, <2>2, <3>1
    <3>2. CASE i # Len(blocks) + 1
      <4>1. i \in 1..Len(blocks)
        BY <1>2, <3>2
      <4>. QED  BY <1>2, <1>4, <2>2, <3>2, <4>1
    <3>. QED  BY <3>1, <3>2
  <2>4. rows = [i \in 1..Len(blocks) + 1 |->
                  IF i = Len(more) THEN more[i] ELSE Write(more[i], Comma)]
    BY <1>2, <1>3
  <2>. QED  BY <2>1, <2>2, <2>3, <2>4
<1>7. Rows(more) = FlattenSeq(rows)
  BY <1>3, RowsText
<1>8. FlattenSeq(rows) = FlattenSeq(commas) \o block
  BY <1>4, <1>5, <1>6, JoinedMore DEF Page
<1>9. FlattenSeq(commas) \in Page
  BY <1>4, JoinedType DEF Page
<1>10. FlattenSeq(commas) \o block \in Written
  BY <1>9, PagesJoined DEF Written
<1>. QED  BY <1>1, <1>3, <1>7, <1>8, <1>9, <1>10

LEMMA RowsNone == Rows(<<>>) = <<>>
<1>1. [i \in DOMAIN <<>> |-> IF i = Len(<<>>) THEN <<>>[i] ELSE Write(<<>>[i], Comma)] = <<>>
  OBVIOUS
<1>. QED  BY <1>1, JoinedNone, RowsText

\* Another comma makes them all have one.
LEMMA RowsComma ==
  ASSUME NEW blocks \in Blocks, blocks # <<>>
  PROVE  /\ Rows(blocks) \in Written
         /\ Write(Rows(blocks), Comma) = FlattenSeq(WithCommas(blocks))
<1>1. PICK front \in Blocks, last \in Written : blocks = Append(front, last)
  BY SequenceEmptyOrAppend DEF Blocks
<1>2. PICK f, b : f = FlattenSeq(WithCommas(front)) /\ b = Write(last, Comma)
  OBVIOUS
<1>3. /\ Rows(blocks) = f \o last /\ f \in Page
      /\ Rows(blocks) \in Written
  BY <1>1, <1>2, RowsLast
<1>4. Write(f \o last, Comma) = f \o b
  BY <1>2, <1>3, WriteBehind, PieceComma
<1>5. PICK commas : commas = WithCommas(front)
  OBVIOUS
<1>6. /\ commas \in Seq(Page) /\ Len(commas) = Len(front) /\ Len(front) \in Nat
      /\ \A i \in 1..Len(front) : commas[i] = Write(front[i], Comma)
  BY <1>5, WithCommasType
<1>7. b \in Page
  BY <1>2, WriteParts, PieceComma DEF Written
<1>8. WithCommas(blocks) = Append(commas, b)
  <2>1. PICK a, w : a = Append(commas, b) /\ w = WithCommas(blocks)
    OBVIOUS
  <2>0. Len(front) \in Nat
    BY <1>6
  <2>2. /\ a = [i \in 1..Len(front) + 1 |-> a[i]]
        /\ \A i \in 1..Len(front) : a[i] = commas[i]
        /\ a[Len(front) + 1] = b
    <3>1. /\ Append(commas, b) = [i \in 1..Len(commas) + 1 |-> Append(commas, b)[i]]
          /\ \A i \in 1..Len(commas) : Append(commas, b)[i] = commas[i]
          /\ Append(commas, b)[Len(commas) + 1] = b
      BY <1>6, <1>7, AppendParts
    <3>2. Len(commas) = Len(front)
      BY <1>6, <1>7
    <3>. QED  BY <2>1, <3>1, <3>2
  <2>3. /\ Len(blocks) = Len(front) + 1
        /\ \A i \in 1..Len(front) : blocks[i] = front[i]
        /\ blocks[Len(front) + 1] = last
    BY <1>1, AppendParts DEF Blocks
  <2>4. w = [i \in 1..Len(front) + 1 |-> Write(blocks[i], Comma)]
    BY <2>1, <2>3 DEF WithCommas
  <2>5. ASSUME NEW i \in 1..Len(front) + 1
        PROVE  a[i] = Write(blocks[i], Comma)
    <3>1. CASE i = Len(front) + 1
      BY <1>2, <2>2, <2>3, <3>1
    <3>2. CASE i # Len(front) + 1
      <4>1. i \in 1..Len(front)
        BY <2>0, <3>2
      <4>. QED  BY <1>6, <2>2, <2>3, <4>1
    <3>. QED  BY <3>1, <3>2
  <2>. QED  BY <2>1, <2>2, <2>4, <2>5
<1>9. FlattenSeq(WithCommas(blocks)) = f \o b
  BY <1>2, <1>5, <1>6, <1>7, <1>8, JoinedMore DEF Page
<1>. QED  BY <1>3, <1>4, <1>9

\* What is begun on a page where these blocks are.
Begun(page, blocks) == IF blocks = <<>> THEN page ELSE Write(page, Comma)

\* One block more.
LEMMA RowsOneMore ==
  ASSUME NEW blocks \in Blocks, NEW block \in Written
  PROVE  /\ Rows(blocks) \in Page /\ Begun(Rows(blocks), blocks) \in Page
         /\ Append(blocks, block) \in Blocks /\ Append(blocks, block) # <<>>
         /\ Rows(Append(blocks, block)) = Begun(Rows(blocks), blocks) \o block
         /\ Rows(Append(blocks, block)) \in Written
<1>1. Append(blocks, block) \in Blocks /\ Append(blocks, block) # <<>>
  BY AppendProperties DEF Blocks
<1>2. CASE blocks = <<>>
  <2>1. WithCommas(blocks) = <<>>
    BY <1>2 DEF WithCommas
  <2>2. Rows(blocks) = <<>> /\ FlattenSeq(WithCommas(blocks)) = <<>>
    BY <1>2, <2>1, RowsNone, JoinedNone
  <2>3. <<>> \in Page
    BY EmptySeq DEF Page
  <2>4. Begun(Rows(blocks), blocks) = FlattenSeq(WithCommas(blocks))
    BY <1>2, <2>2 DEF Begun
  <2>. QED  BY <1>1, <2>2, <2>3, <2>4, RowsLast
<1>3. CASE blocks # <<>>
  <2>1. Rows(blocks) \in Page
    BY <1>3, RowsComma DEF Written
  <2>2. Begun(Rows(blocks), blocks) = FlattenSeq(WithCommas(blocks))
    BY <1>3, RowsComma DEF Begun
  <2>. QED  BY <1>1, <2>1, <2>2, RowsLast
<1>. QED  BY <1>2, <1>3

-----------------------------------------------------------------------------
(* Brackets                                                                *)

\* Blocks between brackets, behind some words.
Bracketed(head, blocks, close) ==
  IF blocks = <<>> THEN LineOf(0, Append(head, close))
  ELSE (LineOf(0, head) \o Moved(2, Rows(blocks))) \o LineOf(0, <<close>>)

\* Brackets make pages of blocks.
LEMMA BracketType ==
  ASSUME NEW head \in Seq(Pieces), NEW blocks \in Blocks, NEW close \in Pieces
  PROVE  /\ Bracketed(head, blocks, close) \in Written
         /\ Moved(2, Rows(blocks)) \in Page /\ Rows(blocks) \in Page
         /\ LineOf(0, head) \in Written /\ <<close>> \in Seq(Pieces)
         /\ LineOf(0, <<close>>) \in Written /\ LineOf(0, Append(head, close)) \in Written
<1>1. Rows(blocks) \in Page
  <2>1. CASE blocks = <<>>
    BY <2>1, RowsNone, EmptySeq DEF Page
  <2>2. CASE blocks # <<>>
    BY <2>2, RowsComma DEF Written
  <2>. QED  BY <2>1, <2>2
<1>2. Moved(2, Rows(blocks)) \in Page
  BY <1>1, MovedParts
<1>3. <<close>> \in Seq(Pieces)
  OBVIOUS
<1>4. /\ LineOf(0, head) \in Written /\ LineOf(0, <<close>>) \in Written
      /\ LineOf(0, Append(head, close)) \in Written
  BY <1>3, WriteLine, AppendProperties
<1>5. LineOf(0, head) \o Moved(2, Rows(blocks)) \in Page
  BY <1>2, <1>4, PagesJoined DEF Written
<1>6. (LineOf(0, head) \o Moved(2, Rows(blocks))) \o LineOf(0, <<close>>) \in Written
  BY <1>4, <1>5, PagesJoined DEF Written
<1>. QED  BY <1>1, <1>2, <1>3, <1>4, <1>6 DEF Bracketed

\* A bracket that is open behind what is on the page, with blocks in it, and as the
\* formatter closes it.
Opens(text, page, n, head, blocks) ==
  text = (page \o LineOf(n, head)) \o Moved(n + 2, Rows(blocks))
ClosedBy(text, n, blocks, close) ==
  IF blocks = <<>> THEN Write(text, close) ELSE text \o LineOf(n, <<close>>)

\* Closing the bracket writes the block that it is.
LEMMA BracketWritten ==
  ASSUME NEW n \in Nat, NEW page \in Page, NEW head \in Seq(Pieces),
         NEW blocks \in Blocks, NEW close \in Pieces, NEW text,
         Opens(text, page, n, head, blocks)
  PROVE  /\ text \in Written
         /\ page \o Moved(n, Bracketed(head, blocks, close)) =
              ClosedBy(text, n, blocks, close)
<1>0. PICK inner : inner = Moved(n + 2, Rows(blocks)) /\ text = (page \o LineOf(n, head)) \o inner
  BY DEF Opens
<1>1. /\ Rows(blocks) \in Page /\ Moved(2, Rows(blocks)) \in Page
      /\ LineOf(0, head) \in Page /\ <<close>> \in Seq(Pieces)
      /\ LineOf(0, <<close>>) \in Page
  BY BracketType DEF Written
<1>2. /\ LineOf(n, head) \in Written /\ LineOf(n, head) \in Page
      /\ LineOf(n, <<close>>) \in Page
      /\ Append(head, close) \in Seq(Pieces)
      /\ LineOf(n, Append(head, close)) = Write(LineOf(n, head), close)
  BY <1>1, WriteLine DEF Written
<1>4. inner \in Page /\ Moved(n, Moved(2, Rows(blocks))) = inner
  <2>1. n + 2 \in Nat /\ 2 + n = n + 2
    OBVIOUS
  <2>. QED  BY <1>0, <1>1, <2>1, MovedParts, MovedTwice
<1>5. page \o LineOf(n, head) \in Written
  BY <1>2, PagesJoined
<1>6. text \in Written
  BY <1>0, <1>4, <1>5, PagesJoined DEF Written
<1>7. CASE blocks = <<>>
  <2>1. Rows(blocks) = <<>>
    BY <1>7, RowsNone
  <2>2. Len(inner) = 0
    <3>1. Len(inner) = Len(Rows(blocks))
      BY <1>0, <1>1, MovedParts
    <3>. QED  BY <2>1, <3>1
  <2>3. inner = <<>>
    BY <1>4, <2>2, PageFacts
  <2>4. text = page \o LineOf(n, head)
    BY <1>0, <1>5, <2>3, ConcatEmptySeq DEF Written, Page
  <2>5. Write(text, close) = page \o LineOf(n, Append(head, close))
    BY <1>2, <2>4, WriteBehind
  <2>6. Moved(n, Bracketed(head, blocks, close)) = LineOf(n, Append(head, close))
    BY <1>2, <1>7, MovedLine DEF Bracketed
  <2>. QED  BY <1>6, <1>7, <2>5, <2>6 DEF ClosedBy
<1>8. CASE blocks # <<>>
  <2>1. LineOf(0, head) \o Moved(2, Rows(blocks)) \in Page
    BY <1>1, PagesJoined
  <2>2. Moved(n, Bracketed(head, blocks, close)) =
          Moved(n, LineOf(0, head) \o Moved(2, Rows(blocks))) \o Moved(n, LineOf(0, <<close>>))
    BY <1>1, <1>8, <2>1, MovedJoined DEF Bracketed
  <2>3. Moved(n, LineOf(0, head) \o Moved(2, Rows(blocks))) = LineOf(n, head) \o inner
    <3>1. Moved(n, LineOf(0, head) \o Moved(2, Rows(blocks))) =
            Moved(n, LineOf(0, head)) \o Moved(n, Moved(2, Rows(blocks)))
      BY <1>1, MovedJoined
    <3>2. Moved(n, LineOf(0, head)) = LineOf(n, head)
      BY MovedLine
    <3>. QED  BY <1>4, <3>1, <3>2
  <2>4. Moved(n, LineOf(0, <<close>>)) = LineOf(n, <<close>>)
    BY <1>1, MovedLine
  <2>5. /\ page \o ((LineOf(n, head) \o inner) \o LineOf(n, <<close>>)) =
             (page \o (LineOf(n, head) \o inner)) \o LineOf(n, <<close>>)
        /\ page \o (LineOf(n, head) \o inner) = (page \o LineOf(n, head)) \o inner
    <3>1. LineOf(n, head) \o inner \in Page
      BY <1>2, <1>4, PagesJoined
    <3>2. PICK line, last : line = LineOf(n, head) /\ last = LineOf(n, <<close>>)
      OBVIOUS
    <3>3. line \in Page /\ last \in Page /\ line \o inner \in Page
      BY <1>2, <3>1, <3>2
    <3>4. page \o ((line \o inner) \o last) = (page \o (line \o inner)) \o last
      BY <3>3, PagesRegrouped
    <3>5. page \o (line \o inner) = (page \o line) \o inner
      BY <1>4, <3>3, PagesRegrouped
    <3>. QED  BY <3>2, <3>4, <3>5
  <2>. QED  BY <1>0, <1>6, <1>8, <2>2, <2>3, <2>4, <2>5 DEF ClosedBy
<1>. QED  BY <1>6, <1>7, <1>8 DEF ClosedBy

\* What has been written in a call behind `base', in which these blocks are.
On(base, depth, blocks) == base \o Moved(2 * depth, Rows(blocks))

\* It is a page, and the base if there are no blocks.
LEMMA OnType ==
  ASSUME NEW base \in Written, NEW depth \in Nat, NEW blocks \in Blocks
  PROVE  /\ On(base, depth, blocks) \in Written
         /\ Begun(On(base, depth, blocks), blocks) \in Written
         /\ Moved(2 * depth, Rows(blocks)) \in Page
         /\ blocks = <<>> => On(base, depth, blocks) = base
<1>1. 2 * depth \in Nat /\ base \in Page
  BY DEF Written
<1>2. Rows(blocks) \in Page
  BY BracketType, RowsNone, RowsComma, EmptySeq DEF Page, Written
<1>3. Moved(2 * depth, Rows(blocks)) \in Page
      /\ Len(Moved(2 * depth, Rows(blocks))) = Len(Rows(blocks))
  BY <1>1, <1>2, MovedParts
<1>4. On(base, depth, blocks) \in Written
  BY <1>1, <1>3, PagesJoined DEF On
<1>5. Begun(On(base, depth, blocks), blocks) \in Written
  BY <1>4, WriteParts, PieceComma DEF Begun
<1>6. ASSUME blocks = <<>>
      PROVE  On(base, depth, blocks) = base
  <2>1. Len(Rows(blocks)) = 0
    BY <1>6, RowsNone
  <2>2. Moved(2 * depth, Rows(blocks)) = <<>>
    BY <1>3, <2>1, PageFacts
  <2>. QED  BY <1>1, <2>2, ConcatEmptySeq DEF On, Page
<1>. QED  BY <1>3, <1>4, <1>5, <1>6

\* One block more.
LEMMA OnOneMore ==
  ASSUME NEW base \in Written, NEW depth \in Nat, NEW blocks \in Blocks, NEW block \in Written
  PROVE  On(base, depth, Append(blocks, block)) =
           Begun(On(base, depth, blocks), blocks) \o Moved(2 * depth, block)
<1> DEFINE n == 2 * depth
<1>1. n \in Nat /\ base \in Page /\ block \in Page
  BY DEF Written
<1> HIDE DEF n
<1>2. /\ Rows(blocks) \in Page /\ Begun(Rows(blocks), blocks) \in Page
      /\ Rows(Append(blocks, block)) = Begun(Rows(blocks), blocks) \o block
  BY RowsOneMore
<1>3. Moved(n, Rows(Append(blocks, block))) =
        Moved(n, Begun(Rows(blocks), blocks)) \o Moved(n, block)
  <2>1. PICK rows : rows = Begun(Rows(blocks), blocks)
    OBVIOUS
  <2>2. Moved(n, rows \o block) = Moved(n, rows) \o Moved(n, block)
    BY <1>1, <1>2, <2>1, MovedJoined
  <2>. QED  BY <1>2, <2>1, <2>2
<1>4. /\ Moved(n, Begun(Rows(blocks), blocks)) \in Page /\ Moved(n, block) \in Page
      /\ Moved(n, Rows(blocks)) \in Page
  BY <1>1, <1>2, MovedParts
<1>5. On(base, depth, Append(blocks, block)) =
        (base \o Moved(n, Begun(Rows(blocks), blocks))) \o Moved(n, block)
  <2>1. base \o (Moved(n, Begun(Rows(blocks), blocks)) \o Moved(n, block)) =
          (base \o Moved(n, Begun(Rows(blocks), blocks))) \o Moved(n, block)
    BY <1>1, <1>4, PagesRegrouped
  <2>. QED  BY <1>3, <2>1 DEF On, n
<1>6. base \o Moved(n, Begun(Rows(blocks), blocks)) = Begun(On(base, depth, blocks), blocks)
  <2>1. CASE blocks = <<>>
    BY <2>1 DEF Begun, On, n
  <2>2. CASE blocks # <<>>
    <3>1. Rows(blocks) \in Written
      BY <2>2, RowsComma
    <3>2. Moved(n, Write(Rows(blocks), Comma)) = Write(Moved(n, Rows(blocks)), Comma)
      BY <1>1, <3>1, MovedWrite, PieceComma
    <3>3. Moved(n, Rows(blocks)) \in Written
      BY <1>1, <3>1, MovedParts DEF Written
    <3>4. Write(base \o Moved(n, Rows(blocks)), Comma) =
            base \o Write(Moved(n, Rows(blocks)), Comma)
      BY <1>1, <3>3, WriteBehind, PieceComma
    <3>. QED  BY <2>2, <3>2, <3>4 DEF Begun, On, n
  <2>. QED  BY <2>1, <2>2
<1>. QED  BY <1>5, <1>6 DEF n

\* Closing the call of a block adds it to those of the call around.
BlockAdded(base, depth, blocks, head, inside, close, inner) ==
  /\ inner \in Written
  /\ On(base, depth, Append(blocks, Bracketed(head, inside, close))) =
       ClosedBy(On(inner, depth + 1, inside), 2 * depth, inside, close)

LEMMA Closed ==
  ASSUME NEW base \in Written, NEW depth \in Nat, NEW blocks \in Blocks,
         NEW head \in Seq(Pieces), NEW inside \in Blocks, NEW close \in Pieces,
         NEW inner,
         inner = Begun(On(base, depth, blocks), blocks) \o LineOf(2 * depth, head)
  PROVE  BlockAdded(base, depth, blocks, head, inside, close, inner)
<1>1. 2 * depth \in Nat /\ 2 * (depth + 1) = 2 * depth + 2
  OBVIOUS
<1>2. Begun(On(base, depth, blocks), blocks) \in Page
  BY OnType DEF Written
<1>3. Bracketed(head, inside, close) \in Written
  BY BracketType
<1>4. inner \in Written
  BY <1>1, <1>2, WriteLine, PagesJoined DEF Written
<1>5. On(inner, depth + 1, inside) = inner \o Moved(2 * depth + 2, Rows(inside))
  BY <1>1 DEF On
<1>6. PICK page, text : /\ page = Begun(On(base, depth, blocks), blocks)
                        /\ text = On(inner, depth + 1, inside)
  OBVIOUS
<1>7. page \o Moved(2 * depth, Bracketed(head, inside, close)) =
        ClosedBy(text, 2 * depth, inside, close)
  <2>1. page \in Page
    BY <1>2, <1>6
  <2>2. Opens(text, page, 2 * depth, head, inside)
    BY <1>5, <1>6 DEF Opens
  <2>3. 2 * depth \in Nat
    BY <1>1
  <2>. QED  BY <2>1, <2>2, <2>3, BracketWritten
<1>8. On(base, depth, Append(blocks, Bracketed(head, inside, close))) =
        page \o Moved(2 * depth, Bracketed(head, inside, close))
  BY <1>3, <1>6, OnOneMore
<1>. QED  BY <1>4, <1>6, <1>7, <1>8 DEF BlockAdded

-----------------------------------------------------------------------------
(* The text that the tree defines                                          *)

\* The words that begin and end a node and a list.
NodeWord(type) == type \o "("
ListWord(name) == Label(name) \o "["
NodeEnd == ")"
ListEnd == "]"
IsNumber(id) == nodes[id].type = "NumberLiteralNode"
Head1(id) ==
  IF IsNumber(id) THEN <<NodeWord(nodes[id].type), Label("value")>>
  ELSE <<NodeWord(nodes[id].type)>>

LEMMA PieceTypes ==
  /\ NodeEnd \in Pieces /\ ListEnd \in Pieces
  /\ \A name \in STRING : Label(name) \in Pieces /\ ListWord(name) \in Pieces
  /\ \A type \in NodeTypes : NodeWord(type) \in Pieces
  BY Zenon DEF Pieces, NodeEnd, ListEnd, ListWord, NodeWord

\* The function in PrettyText, in parts: a field, and a node.
BlockOf(text, id, name) ==
  LET held == FieldNodes(id, name) IN
  IF IsValue(id, name)
  THEN IF ValueShown(id, name) THEN <<Line0(Label(name))>> ELSE <<>>
  ELSE IF held = <<>> THEN <<>>
  ELSE IF IsList(id, name)
  THEN <<Bracket(ListWord(name), [i \in DOMAIN held |-> text[held[i]]], ListEnd)>>
  ELSE <<Prefix(Label(name), text[held[1]])>>
AllBlocks(text, id) ==
  FlattenSeq([i \in DOMAIN NodeStructs[nodes[id].type] |->
                BlockOf(text, id, NodeStructs[nodes[id].type][i].name)])
TextStep(text, id) ==
  IF IsNumber(id)
  THEN <<[indent |-> 0,
          words |-> <<NodeWord(nodes[id].type), Label("value"), NodeEnd>>]>>
  ELSE Bracket(NodeWord(nodes[id].type), AllBlocks(text, id), NodeEnd)
IsTree(text) == text = [id \in NodeIds |-> TextStep(text, id)]
Tree == CHOOSE text : IsTree(text)

\* The text that PrettyText defines is that of the root.
LEMMA PrettyIsTree == PrettyText = Tree[Len(nodes)]
  BY Zenon DEF PrettyText, Tree, IsTree, TextStep, AllBlocks, BlockOf, IsNumber,
     NodeWord, ListWord, NodeEnd, ListEnd

\* The nodes in the fields of a node were made before it.
Heirs == \A id \in NodeIds : \A name \in STRING : FieldNodes(id, name) \in Seq(1..(id - 1))
NodesTyped == \A id \in NodeIds : id \in Nat /\ nodes[id].type \in NodeTypes
Sized == Len(nodes) \in Nat /\ NodeIds = 1..Len(nodes)
Grown == Heirs /\ NodesTyped /\ Sized

\* The tables of the formatter have a name for each field.
LEMMA StructFacts ==
  ASSUME NEW type \in NodeTypes
  PROVE  /\ Len(NodeStructs[type]) \in Nat
         /\ DOMAIN NodeStructs[type] = 1..Len(NodeStructs[type])
         /\ \A i \in 1..Len(NodeStructs[type]) : NodeStructs[type][i].name \in STRING
         /\ Printed[type] \in Seq(STRING) /\ Len(Printed[type]) = Len(NodeStructs[type])
         /\ \A i \in 1..Len(NodeStructs[type]) : Printed[type][i] = NodeStructs[type][i].name
<1>1. PICK s : s = NodeStructs[type]
  OBVIOUS
<1>2. s \in Seq([name : STRING, holds : {"one", "maybe", "many", "value"}])
  BY <1>1, PrintedAssumption
<1>3. /\ Len(s) \in Nat /\ DOMAIN s = 1..Len(s)
      /\ \A i \in 1..Len(s) : s[i].name \in STRING
  <2>1. Len(s) \in Nat /\ DOMAIN s = 1..Len(s)
    BY <1>2
  <2>2. ASSUME NEW i \in 1..Len(s)
        PROVE  s[i].name \in STRING
    <3>1. s[i] \in [name : STRING, holds : {"one", "maybe", "many", "value"}]
      BY <1>2, ElementOfSeq
    <3>. QED  BY <3>1
  <2>. QED  BY <2>1, <2>2
<1>4. PICK p : p = Printed[type]
  OBVIOUS
<1>5. p = [i \in 1..Len(s) |-> s[i].name]
  BY <1>1, <1>3, <1>4, PrintedAssumption
<1>6. p \in [1..Len(s) -> STRING]
  BY <1>3, <1>5
<1>7. p \in Seq(STRING) /\ Len(p) = Len(s)
  BY <1>3, <1>6, FunctionIsSequence
<1>. QED  BY <1>1, <1>3, <1>4, <1>5, <1>7

\* The text of a node depends on that of earlier ones only.
LEMMA TextStepSame ==
  ASSUME Grown, NEW id \in NodeIds, NEW f, NEW g, \A j \in 1..(id - 1) : f[j] = g[j]
  PROVE  TextStep(f, id) = TextStep(g, id)
<1>1. ASSUME NEW name \in STRING
      PROVE  BlockOf(f, id, name) = BlockOf(g, id, name)
  <2>1. PICK held : held = FieldNodes(id, name)
    OBVIOUS
  <2>2. held \in Seq(1..(id - 1))
    BY <2>1 DEF Grown, Heirs
  <2>3. ASSUME NEW i \in DOMAIN held
        PROVE  f[held[i]] = g[held[i]]
    <3>1. held[i] \in 1..(id - 1)
      BY <2>2, LenProperties, ElementOfSeq
    <3>. QED  BY <3>1
  <2>4. [i \in DOMAIN held |-> f[held[i]]] = [i \in DOMAIN held |-> g[held[i]]]
    BY <2>3
  <2>5. held # <<>> => 1 \in DOMAIN held
    BY <2>2, LenProperties, EmptySeq
  <2>6. held # <<>> => f[held[1]] = g[held[1]]
    BY <2>3, <2>5
  <2>. QED  BY <2>1, <2>4, <2>6, Zenon DEF BlockOf
<1>2. PICK s : s = NodeStructs[nodes[id].type]
  OBVIOUS
<1>3. \A i \in DOMAIN s : s[i].name \in STRING
  BY <1>2, StructFacts DEF Grown, NodesTyped
<1>4. [i \in DOMAIN s |-> BlockOf(f, id, s[i].name)] = [i \in DOMAIN s |-> BlockOf(g, id, s[i].name)]
  BY <1>1, <1>3
<1>5. AllBlocks(f, id) = AllBlocks(g, id)
  BY <1>2, <1>4 DEF AllBlocks
<1>. QED  BY <1>5 DEF TextStep

\* There is such a text.
LEMMA TreeExists == Grown => IsTree(Tree)
<1> SUFFICES ASSUME Grown
             PROVE  \E f : IsTree(f)
  BY Zenon DEF Tree
<1> DEFINE D == NodeIds
           Fits(f, k) == \A i \in D : i <= k => f[i] = TextStep(f, i)
           T == {k \in Nat : \E f : Fits(f, k)}
<1>0. D = 1..Len(nodes) /\ Len(nodes) \in Nat
  BY DEF Grown, Sized
<1>1. 0 \in T
  BY <1>0
<1>2. ASSUME NEW k \in Nat, k \in T
      PROVE  k + 1 \in T
  <2>1. PICK f : Fits(f, k)
    BY <1>2
  <2> DEFINE g == [i \in D |-> TextStep(f, i)]
  <2>2. \A i \in D : g[i] = TextStep(f, i)
    OBVIOUS
  <2>3. \A i \in D : i <= k => g[i] = f[i]
    BY <2>1, <2>2
  <2> HIDE DEF g
  <2>4. ASSUME NEW i \in D, i <= k + 1
        PROVE  g[i] = TextStep(g, i)
    <3>1. \A j \in 1..(i - 1) : j \in D /\ j <= k
      BY <1>0, <2>4
    <3>2. \A j \in 1..(i - 1) : f[j] = g[j]
      BY <2>3, <3>1
    <3>3. TextStep(f, i) = TextStep(g, i)
      BY <3>2, TextStepSame
    <3>. QED  BY <2>2, <3>3
  <2>5. Fits(g, k + 1)
    BY <2>4
  <2>. QED  BY <2>5
<1>3. Len(nodes) \in T
  <2> HIDE DEF T
  <2>. QED  BY <1>0, <1>1, <1>2, ByInduction
<1>4. PICK f : Fits(f, Len(nodes))
  BY <1>3
<1> DEFINE g == [i \in D |-> f[i]]
<1>5. ASSUME NEW i \in D
      PROVE  f[i] = TextStep(g, i)
  <2>1. f[i] = TextStep(f, i)
    BY <1>0, <1>4
  <2>2. \A j \in 1..(i - 1) : j \in D
    BY <1>0
  <2>3. \A j \in 1..(i - 1) : f[j] = g[j]
    BY <2>2
  <2> HIDE DEF g
  <2>4. TextStep(f, i) = TextStep(g, i)
    BY <2>3, TextStepSame
  <2>. QED  BY <2>1, <2>4
<1>6. g = [i \in D |-> TextStep(g, i)]
  <2> SUFFICES \A i \in D : f[i] = TextStep(g, i)
    BY Zenon
  <2>. QED  BY <1>5
<1>. QED  BY <1>6 DEF IsTree

\* Brackets as PrettyText writes them.
LEMMA BracketIs ==
  ASSUME NEW open \in Pieces, NEW blocks \in Blocks, NEW close \in Pieces
  PROVE  Bracket(open, blocks, close) = Bracketed(<<open>>, blocks, close)
<1>1. Append(<<open>>, close) = <<open, close>>
  <2>1. PICK a, b : a = Append(<<open>>, close) /\ b = <<open, close>>
    OBVIOUS
  <2>2. <<open>> \in Seq(Pieces) /\ Len(<<open>>) = 1 /\ <<open>>[1] = open
    OBVIOUS
  <2>3. a \in Seq(Pieces) /\ Len(a) = 2 /\ a[1] = open /\ a[2] = close
    BY <2>1, <2>2, AppendProperties
  <2>4. b \in Seq(Pieces) /\ Len(b) = 2 /\ b[1] = open /\ b[2] = close
    BY <2>1
  <2>5. \A i \in 1..2 : a[i] = b[i]
    BY <2>3, <2>4
  <2>6. a = b
    BY <2>3, <2>4, <2>5, SeqEqual
  <2>. QED  BY <2>1, <2>6
<1>2. Moved(2, Rows(blocks)) = Shift(Rows(blocks))
  BY Zenon DEF Moved, Shift
<1>3. CASE blocks = <<>>
  BY <1>1, <1>3 DEF Bracket, Bracketed, LineOf
<1>4. CASE blocks # <<>>
  BY <1>2, <1>4 DEF Bracket, Bracketed, LineOf, Line0
<1>. QED  BY <1>3, <1>4

LEMMA PrefixParts ==
  ASSUME NEW page \in Written, NEW word \in Pieces
  PROVE  /\ Prefix(word, page) \in Written /\ Len(Prefix(word, page)) = Len(page)
         /\ \A i \in 1..Len(page) : Prefix(word, page)[i] =
              IF i = 1 THEN [indent |-> page[i].indent, words |-> <<word>> \o page[i].words]
              ELSE page[i]
<1> DEFINE first == [page[1] EXCEPT !.words = <<word>> \o @]
<1>1. page \in Page /\ 1 \in 1..Len(page)
  BY PageFacts DEF Written
<1>2. page[1] \in PageLine /\ page[1].words \in Seq(Pieces)
  BY <1>1, PageFacts
<1>3. /\ first \in PageLine
      /\ first = [indent |-> page[1].indent, words |-> <<word>> \o page[1].words]
  <2>1. PICK row, more : row = page[1] /\ more = <<word>> \o row.words
    OBVIOUS
  <2>2. row \in PageLine /\ more \in Seq(Pieces)
    BY <1>2, <2>1, ConcatProperties
  <2>3. [row EXCEPT !.words = more] = [indent |-> row.indent, words |-> more]
    BY <2>2 DEF PageLine
  <2>4. [indent |-> row.indent, words |-> more] \in PageLine
    BY <2>2 DEF PageLine
  <2>5. first = [row EXCEPT !.words = more]
    BY <2>1
  <2>. QED  BY <2>1, <2>3, <2>4, <2>5
<1>4. Prefix(word, page) = [page EXCEPT ![1] = first]
  BY DEF Prefix
<1> HIDE DEF first
<1>5. /\ Prefix(word, page) \in Page /\ Len(Prefix(word, page)) = Len(page)
      /\ \A i \in 1..Len(page) : Prefix(word, page)[i] = IF i = 1 THEN first ELSE page[i]
  BY <1>1, <1>3, <1>4, ExceptSeq DEF Page
<1>6. Prefix(word, page) \in Written
  BY <1>1, <1>5, PageFacts
<1>. QED  BY <1>3, <1>5, <1>6

LEMMA PrefixInFront ==
  ASSUME NEW a \in Written, NEW b \in Page, NEW word \in Pieces
  PROVE  Prefix(word, a \o b) = Prefix(word, a) \o b
<1>1. a \in Page /\ Len(a) > 0 /\ Len(a) \in Nat /\ Len(b) \in Nat
  BY PageFacts DEF Written
<1>2. PICK ab : ab = a \o b
  OBVIOUS
<1>3. /\ ab \in Written /\ Len(ab) = Len(a) + Len(b)
      /\ \A i \in 1..Len(a) + Len(b) : ab[i] = IF i <= Len(a) THEN a[i] ELSE b[i - Len(a)]
  BY <1>1, <1>2, PagesJoined
<1>4. PICK p : p = Prefix(word, a)
  OBVIOUS
<1>5. /\ p \in Page /\ Len(p) = Len(a)
      /\ \A i \in 1..Len(a) : p[i] =
           IF i = 1 THEN [indent |-> a[i].indent, words |-> <<word>> \o a[i].words] ELSE a[i]
  BY <1>4, PrefixParts DEF Written
<1>6. PICK r : r = p \o b
  OBVIOUS
<1>7. /\ r \in Page /\ Len(r) = Len(a) + Len(b)
      /\ \A i \in 1..Len(a) + Len(b) : r[i] = IF i <= Len(a) THEN p[i] ELSE b[i - Len(a)]
  <2>1. /\ p \o b \in Page /\ Len(p \o b) = Len(p) + Len(b)
        /\ \A i \in 1..Len(p) + Len(b) : (p \o b)[i] = IF i <= Len(p) THEN p[i] ELSE b[i - Len(p)]
    BY <1>5, PagesJoined
  <2>. QED  BY <1>5, <1>6, <2>1
<1>8. PICK l : l = Prefix(word, ab)
  OBVIOUS
<1>9. /\ l \in Page /\ Len(l) = Len(ab)
      /\ \A i \in 1..Len(ab) : l[i] =
           IF i = 1 THEN [indent |-> ab[i].indent, words |-> <<word>> \o ab[i].words] ELSE ab[i]
  BY <1>3, <1>8, PrefixParts DEF Written
<1>10. ASSUME NEW i \in 1..Len(a) + Len(b)
       PROVE  l[i] = r[i]
  <2>1. CASE i <= Len(a)
    <3>1. i \in 1..Len(a) /\ i \in 1..Len(ab)
      BY <1>1, <1>3, <2>1
    <3>2. ab[i] = a[i] /\ r[i] = p[i]
      BY <1>3, <1>7, <2>1
    <3>. QED  BY <1>5, <1>9, <3>1, <3>2
  <2>2. CASE ~(i <= Len(a))
    <3>1. i # 1 /\ i \in 1..Len(ab)
      BY <1>1, <1>3, <2>2
    <3>. QED  BY <1>3, <1>7, <1>9, <2>2, <3>1
  <2>. QED  BY <2>1, <2>2
<1>11. l = r
  BY <1>3, <1>7, <1>9, <1>10, PagesEqual
<1>. QED  BY <1>2, <1>4, <1>6, <1>8, <1>11

LEMMA PrefixLine ==
  ASSUME NEW words \in Seq(Pieces), NEW word \in Pieces
  PROVE  /\ <<word>> \o words \in Seq(Pieces)
         /\ Prefix(word, LineOf(0, words)) = LineOf(0, <<word>> \o words)
<1>1. <<word>> \o words \in Seq(Pieces)
  BY ConcatProperties
<1>2. PICK l, p, r : /\ l = LineOf(0, words) /\ p = Prefix(word, l)
                     /\ r = LineOf(0, <<word>> \o words)
  OBVIOUS
<1>3. /\ l \in Written /\ Len(l) = 1 /\ r \in Page /\ Len(r) = 1
      /\ l[1] = [indent |-> 0, words |-> words]
      /\ r[1] = [indent |-> 0, words |-> <<word>> \o words]
  BY <1>1, <1>2, OneRow DEF LineOf, Written
<1>4. /\ p \in Page /\ Len(p) = Len(l)
      /\ \A i \in 1..Len(l) : p[i] =
           IF i = 1 THEN [indent |-> l[i].indent, words |-> <<word>> \o l[i].words] ELSE l[i]
  BY <1>2, <1>3, PrefixParts DEF Written
<1>5. l[1].indent = 0 /\ l[1].words = words
  BY <1>3
<1>6. p[1] = r[1]
  BY <1>3, <1>4, <1>5
<1>7. p = r
  <2>1. \A i \in 1..1 : p[i] = r[i]
    BY <1>6
  <2>2. Len(p) = 1 /\ Len(r) = 1 /\ p \in Page /\ r \in Page
    BY <1>3, <1>4
  <2>. QED  BY <2>1, <2>2, PagesEqual
<1>. QED  BY <1>1, <1>2, <1>7

\* A label in front of a node goes to the words of its first line.
LEMMA PrefixIs ==
  ASSUME NEW word \in Pieces, NEW head \in Seq(Pieces), NEW blocks \in Blocks,
         NEW close \in Pieces
  PROVE  /\ <<word>> \o head \in Seq(Pieces)
         /\ Prefix(word, Bracketed(head, blocks, close)) =
              Bracketed(<<word>> \o head, blocks, close)
<1>1. /\ Moved(2, Rows(blocks)) \in Page /\ LineOf(0, head) \in Written
      /\ LineOf(0, <<close>>) \in Page
  BY BracketType DEF Written
<1>2. <<word>> \o head \in Seq(Pieces)
  BY ConcatProperties
<1>3. CASE blocks = <<>>
  <2>1. Append(head, close) \in Seq(Pieces)
    BY AppendProperties
  <2>2. <<word>> \o Append(head, close) = Append(<<word>> \o head, close)
    <3>1. /\ Append(head, close) = head \o <<close>>
          /\ Append(<<word>> \o head, close) = (<<word>> \o head) \o <<close>>
      BY <1>2, AppendIsConcat
    <3>2. <<word>> \o (head \o <<close>>) = (<<word>> \o head) \o <<close>>
      <4>1. <<word>> \in Seq(Pieces) /\ <<close>> \in Seq(Pieces)
        OBVIOUS
      <4>. QED  BY <4>1, ConcatAssociative
    <3>. QED  BY <3>1, <3>2
  <2>3. Prefix(word, LineOf(0, Append(head, close))) =
          LineOf(0, <<word>> \o Append(head, close))
    BY <2>1, PrefixLine
  <2>. QED  BY <1>2, <1>3, <2>2, <2>3 DEF Bracketed
<1>4. CASE blocks # <<>>
  <2>1. PICK h, m, c, w : /\ h = LineOf(0, head) /\ m = Moved(2, Rows(blocks))
                          /\ c = LineOf(0, <<close>>) /\ w = LineOf(0, <<word>> \o head)
    OBVIOUS
  <2>2. h \in Written /\ h \in Page /\ m \in Page /\ c \in Page /\ Prefix(word, h) = w
    BY <1>1, <2>1, PrefixLine DEF Written
  <2>3. h \o m \in Written
    BY <2>2, PagesJoined
  <2>4. Prefix(word, (h \o m) \o c) = Prefix(word, h \o m) \o c
    BY <2>2, <2>3, PrefixInFront
  <2>5. Prefix(word, h \o m) = w \o m
    BY <2>2, PrefixInFront
  <2>. QED  BY <1>2, <1>4, <2>1, <2>4, <2>5 DEF Bracketed
<1>. QED  BY <1>3, <1>4

-----------------------------------------------------------------------------
(* The text of a node                                                      *)

\* The fields in the order in which they are printed, and what is printed of the first
\* so many of them.
Names(id) == Printed[nodes[id].type]
FieldBlock(id, i) == IF IsNumber(id) THEN <<>> ELSE BlockOf(Tree, id, Names(id)[i])
UpTo(id, n) == FlattenSeq([i \in 1..n |-> FieldBlock(id, i)])
Items(held, n) == [i \in 1..n |-> Tree[held[i]]]

\* The fields of a node have names.
LEMMA NameFacts ==
  ASSUME Grown, NEW id \in NodeIds
  PROVE  /\ Names(id) \in Seq(STRING) /\ Len(Names(id)) \in Nat
         /\ \A i \in 1..Len(Names(id)) : Names(id)[i] \in STRING
         /\ IsNumber(id) => Names(id) = <<"value">>
<1>1. nodes[id].type \in NodeTypes
  BY DEF Grown, NodesTyped
<1>2. Names(id) \in Seq(STRING) /\ Len(Names(id)) \in Nat
  BY <1>1, StructFacts DEF Names
<1>3. \A i \in 1..Len(Names(id)) : Names(id)[i] \in STRING
  BY <1>2, ElementOfSeq
<1>4. ASSUME IsNumber(id)
      PROVE  Names(id) = <<"value">>
  <2>1. /\ NodeStructs[nodes[id].type] = <<Value("value")>>
        /\ Printed[nodes[id].type] = [i \in DOMAIN NodeStructs[nodes[id].type] |->
                                        NodeStructs[nodes[id].type][i].name]
    BY <1>1, <1>4, PrintedAssumption DEF IsNumber
  <2>2. Printed[nodes[id].type] = [i \in 1..1 |-> <<Value("value")>>[i].name]
    BY <2>1
  <2>3. <<Value("value")>>[1].name = "value"
    BY DEF Value
  <2>4. [i \in 1..1 |-> <<Value("value")>>[i].name] = <<"value">>
    BY <2>3
  <2>. QED  BY <2>2, <2>4 DEF Names
<1>. QED  BY <1>2, <1>3, <1>4

\* A list of so many items.
LEMMA ItemsType ==
  ASSUME NEW n \in Nat, NEW held, \A i \in 1..n : Tree[held[i]] \in Written
  PROVE  Items(held, n) \in Blocks /\ Len(Items(held, n)) = n
<1>1. PICK s : s = Items(held, n)
  OBVIOUS
<1>2. s \in [1..n -> Written]
  BY <1>1 DEF Items
<1>. QED  BY <1>1, <1>2, FunctionIsSequence DEF Blocks

\* One item more.
LEMMA ItemsMore ==
  ASSUME NEW n \in Nat, NEW held, \A i \in 1..(n + 1) : Tree[held[i]] \in Written
  PROVE  Items(held, n + 1) = Append(Items(held, n), Tree[held[n + 1]])
<1>1. PICK s, t, a : /\ s = Items(held, n) /\ t = Items(held, n + 1)
                     /\ a = Append(s, Tree[held[n + 1]])
  OBVIOUS
<1>2. Tree[held[n + 1]] \in Written
  OBVIOUS
<1>3. s \in Blocks /\ Len(s) = n /\ \A i \in 1..n : s[i] = Tree[held[i]]
  BY <1>1, ItemsType DEF Items
<1>4. t \in Blocks /\ Len(t) = n + 1 /\ \A i \in 1..(n + 1) : t[i] = Tree[held[i]]
  <2>1. PICK m \in Nat : m = n + 1
    OBVIOUS
  <2>2. Items(held, m) \in Blocks /\ Len(Items(held, m)) = m
    BY <2>1, ItemsType
  <2>3. \A i \in 1..m : Items(held, m)[i] = Tree[held[i]]
    BY DEF Items
  <2>. QED  BY <1>1, <2>1, <2>2, <2>3
<1>5. /\ a \in Blocks /\ Len(a) = n + 1 /\ a[n + 1] = Tree[held[n + 1]]
      /\ \A i \in 1..n : a[i] = s[i]
  BY <1>1, <1>2, <1>3, AppendProperties DEF Blocks
<1>6. ASSUME NEW i \in 1..(n + 1)
      PROVE  a[i] = t[i]
  <2>1. CASE i = n + 1
    BY <1>4, <1>5, <2>1
  <2>2. CASE i # n + 1
    <3>1. i \in 1..n
      BY <2>2
    <3>. QED  BY <1>3, <1>4, <1>5, <3>1
  <2>. QED  BY <2>1, <2>2
<1>7. a = t
  BY <1>4, <1>5, <1>6, SeqEqual DEF Blocks
<1>. QED  BY <1>1, <1>7

\* The children of a node have texts: what is printed of a field.
LEMMA BlockType ==
  ASSUME Grown, NEW id \in NodeIds, NEW name \in STRING,
         \A j \in 1..(id - 1) : Tree[j] \in Written
  PROVE  /\ BlockOf(Tree, id, name) \in Blocks
         /\ IsValue(id, name) => BlockOf(Tree, id, name) =
              IF ValueShown(id, name) THEN <<LineOf(0, <<Label(name)>>)>> ELSE <<>>
         /\ ~IsValue(id, name) /\ FieldNodes(id, name) = <<>> =>
              BlockOf(Tree, id, name) = <<>>
         /\ ~IsValue(id, name) /\ FieldNodes(id, name) # <<>> /\ IsList(id, name) =>
              BlockOf(Tree, id, name) =
                <<Bracketed(<<ListWord(name)>>,
                   Items(FieldNodes(id, name), Len(FieldNodes(id, name))), ListEnd)>>
         /\ ~IsValue(id, name) /\ FieldNodes(id, name) # <<>> /\ ~IsList(id, name) =>
              BlockOf(Tree, id, name) = <<Prefix(Label(name), Tree[FieldNodes(id, name)[1]])>>
<1>1. PICK held : held = FieldNodes(id, name)
  OBVIOUS
<1>2. held \in Seq(1..(id - 1))
  BY <1>1 DEF Grown, Heirs
<1>3. DOMAIN held = 1..Len(held) /\ Len(held) \in Nat
  BY <1>2, LenProperties
<1>4. \A i \in 1..Len(held) : Tree[held[i]] \in Written
  <2>1. \A i \in 1..Len(held) : held[i] \in 1..(id - 1)
    BY <1>2, ElementOfSeq
  <2>. QED  BY <2>1
<1>5. Label(name) \in Pieces /\ ListWord(name) \in Pieces /\ ListEnd \in Pieces
  BY PieceTypes
<1>6. [i \in DOMAIN held |-> Tree[held[i]]] = Items(held, Len(held))
  BY <1>3 DEF Items
<1>7. Items(held, Len(held)) \in Blocks
  BY <1>3, <1>4, ItemsType
<1>8. CASE IsValue(id, name)
  <2>1. Line0(Label(name)) = LineOf(0, <<Label(name)>>)
    BY DEF Line0, LineOf
  <2>2. <<Label(name)>> \in Seq(Pieces)
    BY <1>5, OnlyOne
  <2>3. LineOf(0, <<Label(name)>>) \in Written
    BY <2>2, WriteLine, <1>5
  <2>4. <<LineOf(0, <<Label(name)>>)>> \in Blocks /\ <<>> \in Blocks
    BY <2>3 DEF Blocks
  <2>5. BlockOf(Tree, id, name) =
          IF ValueShown(id, name) THEN <<LineOf(0, <<Label(name)>>)>> ELSE <<>>
    BY <1>8, <2>1, Zenon DEF BlockOf
  <2>. QED  BY <1>8, <2>4, <2>5
<1>9. CASE ~IsValue(id, name) /\ held = <<>>
  <2>1. BlockOf(Tree, id, name) = <<>>
    BY <1>1, <1>9, Zenon DEF BlockOf
  <2>2. <<>> \in Blocks
    BY DEF Blocks
  <2>. QED  BY <1>1, <1>9, <2>1, <2>2
<1>10. CASE ~IsValue(id, name) /\ held # <<>> /\ IsList(id, name)
  <2>1. BlockOf(Tree, id, name) =
          <<Bracket(ListWord(name), Items(held, Len(held)), ListEnd)>>
    BY <1>1, <1>6, <1>10, Zenon DEF BlockOf
  <2>2. Bracket(ListWord(name), Items(held, Len(held)), ListEnd) =
          Bracketed(<<ListWord(name)>>, Items(held, Len(held)), ListEnd)
    BY <1>5, <1>7, BracketIs
  <2>3. <<ListWord(name)>> \in Seq(Pieces)
    BY <1>5, OnlyOne
  <2>4. Bracketed(<<ListWord(name)>>, Items(held, Len(held)), ListEnd) \in Written
    BY <1>5, <1>7, <2>3, BracketType
  <2>5. <<Bracketed(<<ListWord(name)>>, Items(held, Len(held)), ListEnd)>> \in Blocks
    BY <2>4 DEF Blocks
  <2>. QED  BY <1>1, <1>10, <2>1, <2>2, <2>5
<1>11. CASE ~IsValue(id, name) /\ held # <<>> /\ ~IsList(id, name)
  <2>1. BlockOf(Tree, id, name) = <<Prefix(Label(name), Tree[held[1]])>>
    BY <1>1, <1>11, Zenon DEF BlockOf
  <2>2. 1 \in 1..Len(held)
    BY <1>2, <1>11, EmptySeq
  <2>3. Prefix(Label(name), Tree[held[1]]) \in Written
    BY <1>4, <1>5, <2>2, PrefixParts
  <2>4. <<Prefix(Label(name), Tree[held[1]])>> \in Blocks
    BY <2>3, OnlyOne DEF Blocks
  <2>. QED  BY <1>1, <1>11, <2>1, <2>4
<1>. QED  BY <1>1, <1>8, <1>9, <1>10, <1>11

\* What is printed of so many fields.
LEMMA UpToType ==
  ASSUME Grown, NEW id \in NodeIds, NEW n \in 0..Len(Names(id)),
         \A j \in 1..(id - 1) : Tree[j] \in Written
  PROVE  /\ UpTo(id, n) \in Blocks
         /\ n < Len(Names(id)) =>
              FieldBlock(id, n + 1) \in Blocks /\ UpTo(id, n + 1) = UpTo(id, n) \o FieldBlock(id, n + 1)
         /\ n = 0 => UpTo(id, n) = <<>>
<1>0. Len(Names(id)) \in Nat
  BY NameFacts
<1>1. \A i \in 1..Len(Names(id)) : FieldBlock(id, i) \in Blocks
  <2>1. ASSUME NEW i \in 1..Len(Names(id))
        PROVE  FieldBlock(id, i) \in Blocks
    <3>1. Names(id)[i] \in STRING
      BY NameFacts
    <3>2. BlockOf(Tree, id, Names(id)[i]) \in Blocks
      BY <3>1, BlockType
    <3>3. <<>> \in Blocks
      BY DEF Blocks
    <3>. QED  BY <3>2, <3>3 DEF FieldBlock
  <2>. QED  BY <2>1
<1>2. ASSUME NEW m \in Nat, m <= Len(Names(id))
      PROVE  [i \in 1..m |-> FieldBlock(id, i)] \in Seq(Blocks) /\
             Len([i \in 1..m |-> FieldBlock(id, i)]) = m
  <2>1. [i \in 1..m |-> FieldBlock(id, i)] \in [1..m -> Blocks]
    BY <1>0, <1>1, <1>2
  <2>. QED  BY <2>1, FunctionIsSequence
<1>3. UpTo(id, n) \in Blocks
  <2>1. PICK s : s = [i \in 1..n |-> FieldBlock(id, i)]
    OBVIOUS
  <2>2. s \in Seq(Blocks)
    BY <1>0, <1>2, <2>1
  <2>3. FlattenSeq(s) \in Blocks
    BY <2>2, JoinedType DEF Blocks
  <2>. QED  BY <2>1, <2>3 DEF UpTo
<1>4. ASSUME n < Len(Names(id))
      PROVE  /\ FieldBlock(id, n + 1) \in Blocks
             /\ UpTo(id, n + 1) = UpTo(id, n) \o FieldBlock(id, n + 1)
  <2>1. PICK s, t, x : /\ s = [i \in 1..n |-> FieldBlock(id, i)]
                       /\ t = [i \in 1..n + 1 |-> FieldBlock(id, i)]
                       /\ x = FieldBlock(id, n + 1)
    OBVIOUS
  <2>2. x \in Blocks
    BY <1>0, <1>1, <1>4, <2>1
  <2>3. /\ s \in Seq(Blocks) /\ Len(s) = n /\ t \in Seq(Blocks) /\ Len(t) = n + 1
        /\ n \in Nat
    BY <1>0, <1>2, <1>4, <2>1
  <2>4. Append(s, x) = t
    <3>1. /\ Append(s, x) \in Seq(Blocks) /\ Len(Append(s, x)) = n + 1
          /\ \A i \in 1..n : Append(s, x)[i] = s[i]
          /\ Append(s, x)[n + 1] = x
      BY <2>2, <2>3, AppendProperties
    <3>2. ASSUME NEW i \in 1..n + 1
          PROVE  Append(s, x)[i] = t[i]
      <4>1. CASE i = n + 1
        BY <2>1, <3>1, <4>1
      <4>2. CASE i # n + 1
        <5>1. i \in 1..n
          BY <2>3, <4>2
        <5>. QED  BY <2>1, <3>1, <5>1
      <4>. QED  BY <4>1, <4>2
    <3>. QED  BY <2>3, <3>1, <3>2, SeqEqual
  <2>5. FlattenSeq(t) = FlattenSeq(s) \o x
    BY <2>2, <2>3, <2>4, JoinedMore DEF Blocks
  <2>. QED  BY <2>1, <2>2, <2>5 DEF UpTo
<1>5. ASSUME n = 0
      PROVE  UpTo(id, n) = <<>>
  <2>1. [i \in 1..0 |-> FieldBlock(id, i)] = <<>>
    OBVIOUS
  <2>. QED  BY <1>5, <2>1, JoinedNone DEF UpTo
<1>. QED  BY <1>3, <1>4, <1>5

\* Everything inside the brackets of a node.
InsideOf(id) == UpTo(id, Len(Names(id)))

LEMMA HeadType ==
  ASSUME Grown, NEW id \in NodeIds
  PROVE  Head1(id) \in Seq(Pieces)
<1>1. PICK word, label : word = NodeWord(nodes[id].type) /\ label = Label("value")
  OBVIOUS
<1>2. word \in Pieces
  BY <1>1, PieceTypes DEF Grown, NodesTyped
<1>3. ASSUME IsNumber(id)
      PROVE  label \in Pieces
  <2>1. "value" \in STRING
    <3>1. PICK names : names = <<"value">> /\ names = Names(id)
      BY <1>3, NameFacts
    <3>2. names[1] \in STRING /\ names[1] = "value"
      BY <3>1, NameFacts
    <3>. QED  BY <3>2
  <2>. QED  BY <1>1, <2>1, PieceTypes, Zenon
<1>4. <<word>> \in Seq(Pieces)
  BY <1>2
<1>5. CASE IsNumber(id)
  <2>1. <<word, label>> \in Seq(Pieces)
    BY <1>2, <1>3, <1>5
  <2>. QED  BY <1>1, <1>5, <2>1, Zenon DEF Head1
<1>6. CASE ~IsNumber(id)
  BY <1>1, <1>4, <1>6, Zenon DEF Head1
<1>. QED  BY <1>5, <1>6

\* The text of a node whose children have texts.
LEMMA NodeText ==
  ASSUME Grown, NEW id \in NodeIds, \A j \in 1..(id - 1) : Tree[j] \in Written
  PROVE  /\ InsideOf(id) \in Blocks
         /\ Tree[id] = Bracketed(Head1(id), InsideOf(id), NodeEnd)
         /\ Tree[id] \in Written
<1>1. Tree[id] = TextStep(Tree, id)
  <2>1. PICK t : t = Tree
    OBVIOUS
  <2>2. t = [i \in NodeIds |-> TextStep(t, i)]
    BY <2>1, TreeExists DEF IsTree
  <2>. QED  BY <2>1, <2>2
<1>2. Len(Names(id)) \in Nat
  BY NameFacts
<1>3. InsideOf(id) \in Blocks
  <2>1. PICK n \in Nat : n = Len(Names(id))
    BY <1>2
  <2>2. n \in 0..Len(Names(id))
    BY <2>1
  <2>3. UpTo(id, n) \in Blocks
    BY <2>2, UpToType
  <2>. QED  BY <2>1, <2>3 DEF InsideOf
<1>4. CASE IsNumber(id)
  <2>1. Len(Names(id)) = 1
    BY <1>4, NameFacts
  <2>2. UpTo(id, 0) = <<>> /\ UpTo(id, 0 + 1) = UpTo(id, 0) \o FieldBlock(id, 0 + 1)
    <3>1. 0 \in 0..Len(Names(id)) /\ 0 < Len(Names(id))
      BY <2>1
    <3>. QED  BY <3>1, UpToType
  <2>3. FieldBlock(id, 0 + 1) = <<>>
    BY <1>4 DEF FieldBlock
  <2>4. InsideOf(id) = <<>>
    BY <2>1, <2>2, <2>3 DEF InsideOf
  <2>5. PICK word, label, close :
          word = NodeWord(nodes[id].type) /\ label = Label("value") /\ close = NodeEnd
    OBVIOUS
  <2>6. Head1(id) = <<word, label>>
    BY <1>4, <2>5, Zenon DEF Head1
  <2>7. word \in Pieces /\ label \in Pieces /\ close \in Pieces
    <3>1. <<word, label>> \in Seq(Pieces)
      BY <2>6, HeadType
    <3>2. word \in Pieces /\ label \in Pieces
      BY <3>1
    <3>. QED  BY <2>5, <3>2, PieceTypes
  <2>8. TextStep(Tree, id) = <<[indent |-> 0, words |-> <<word, label, close>>]>>
    BY <1>4, <2>5, Zenon DEF TextStep
  <2>9. Append(Head1(id), close) = <<word, label, close>>
    BY <2>6, <2>7, ThreeInARow
  <2>. QED  BY <1>1, <1>3, <2>4, <2>5, <2>8, <2>9, BracketType, PieceTypes, HeadType
         DEF Bracketed, LineOf
<1>5. CASE ~IsNumber(id)
  <2>1. AllBlocks(Tree, id) = InsideOf(id)
    <3>1. PICK s : s = NodeStructs[nodes[id].type]
      OBVIOUS
    <3>2. /\ Len(s) \in Nat /\ DOMAIN s = 1..Len(s) /\ Len(Names(id)) = Len(s)
          /\ \A i \in 1..Len(s) : Names(id)[i] = s[i].name
      BY <3>1, StructFacts DEF Names, Grown, NodesTyped
    <3>3. \A i \in 1..Len(s) : FieldBlock(id, i) = BlockOf(Tree, id, s[i].name)
      BY <1>5, <3>2 DEF FieldBlock
    <3>4. [i \in 1..Len(s) |-> FieldBlock(id, i)] =
            [i \in DOMAIN s |-> BlockOf(Tree, id, s[i].name)]
      BY <3>2, <3>3
    <3>. QED  BY <3>1, <3>2, <3>4 DEF AllBlocks, InsideOf, UpTo
  <2>2. PICK word \in Pieces : word = NodeWord(nodes[id].type)
    BY PieceTypes DEF Grown, NodesTyped
  <2>3. Head1(id) = <<word>>
    BY <1>5, <2>2, Zenon DEF Head1
  <2>4. Tree[id] = Bracket(word, InsideOf(id), NodeEnd)
    BY <1>1, <1>5, <2>1, <2>2, Zenon DEF TextStep
  <2>5. Tree[id] = Bracketed(Head1(id), InsideOf(id), NodeEnd)
    BY <1>3, <2>3, <2>4, BracketIs, PieceTypes
  <2>. QED  BY <1>3, <2>5, BracketType, PieceTypes, HeadType
<1>. QED  BY <1>4, <1>5

\* The text of every node, at last.
LEMMA TreeText ==
  ASSUME Grown
  PROVE  \A id \in NodeIds : /\ InsideOf(id) \in Blocks
                             /\ Tree[id] = Bracketed(Head1(id), InsideOf(id), NodeEnd)
                             /\ Tree[id] \in Written
                             /\ \A j \in 1..(id - 1) : Tree[j] \in Written
<1> DEFINE Texted(id) == /\ InsideOf(id) \in Blocks
                         /\ Tree[id] = Bracketed(Head1(id), InsideOf(id), NodeEnd)
                         /\ Tree[id] \in Written
           T == {k \in Nat : \A id \in NodeIds : id <= k => Texted(id)}
<1>0. NodeIds = 1..Len(nodes) /\ Len(nodes) \in Nat
  BY DEF Grown, Sized
<1>1. 0 \in T
  BY <1>0
<1>2. ASSUME NEW k \in Nat, k \in T
      PROVE  k + 1 \in T
  <2>1. ASSUME NEW id \in NodeIds, id <= k + 1
        PROVE  Texted(id)
    <3>1. \A j \in 1..(id - 1) : j \in NodeIds /\ j <= k
      BY <1>0, <2>1
    <3>2. \A j \in NodeIds : j <= k => Tree[j] \in Written
      BY <1>2
    <3>3. \A j \in 1..(id - 1) : Tree[j] \in Written
      BY <3>1, <3>2
    <3>. QED  BY <3>3, NodeText
  <2> HIDE DEF Texted
  <2>. QED  BY <2>1
<1>3. \A k \in Nat : k \in T
  <2> HIDE DEF T
  <2>. QED  BY <1>1, <1>2, ByInduction
<1>4. Len(nodes) \in T
  BY <1>0, <1>3
<1>5. \A id \in NodeIds : Texted(id)
  <2> HIDE DEF Texted
  <2>. QED  BY <1>0, <1>4
<1>6. \A id \in NodeIds : \A j \in 1..(id - 1) : j \in NodeIds
  BY <1>0
<1>7. \A id \in NodeIds : Tree[id] \in Written
  BY <1>5
<1>8. \A id \in NodeIds : \A j \in 1..(id - 1) : Tree[j] \in Written
  BY <1>6, <1>7
<1>. QED  BY <1>5, <1>8

-----------------------------------------------------------------------------
(* What the parser collects                                                *)

\* The imports and submodules collected, those put aside and those of the modules
\* that are finished are nodes, made before the module that lists them.
Finished(ids, list) ==
  /\ list.module \in ids
  /\ list.imports \in Seq(1..(list.module - 1))
  /\ list.submodules \in Seq(1..(list.module - 1))
Collected ==
  /\ imports \in Seq(NodeIds) /\ submodules \in Seq(NodeIds)
  /\ \A k \in DOMAIN stack : stack[k].saved \in Seq(NodeIds)
  /\ \A i \in DOMAIN lists : Finished(NodeIds, lists[i])

\* A sequence of some values is one of more values.
LEMMA MoreValues ==
  ASSUME NEW S, NEW T, S \subseteq T, NEW s \in Seq(S)
  PROVE  s \in Seq(T)
<1>1. Len(s) \in Nat /\ s \in [1..Len(s) -> S]
  BY LenProperties
<1>2. s \in [1..Len(s) -> T]
  BY <1>1
<1>. QED  BY <1>1, <1>2

\* What a call has put aside it or another one had, or it is what is collected.
AsideBefore(s) ==
  \/ s = <<>> \/ s = submodules
  \/ \E k \in DOMAIN stack : s = stack[k].saved
Aside == \A k \in DOMAIN stack' : AsideBefore(stack'[k].saved)

\* The calls in progress of the parser, each with what it has put aside.
LEMMA CallsThere ==
  ASSUME Ready
  PROVE  /\ Top \in Nat /\ DOMAIN stack = 1..Top /\ stack \in Seq(FrameRecord)
         /\ \A k \in 1..Top : stack[k] \in FrameRecord /\ AsideBefore(stack[k].saved)
  BY LenProperties, ElementOfSeq DEF Ready, TypeOK, Top, AsideBefore

LEMMA AsideTop ==
  ASSUME Ready, outcome = "running", NEW frame, AsideBefore(frame.saved),
         stack' = [stack EXCEPT ![Top] = frame]
  PROVE  Aside
<1>1. /\ Top \in Nat /\ DOMAIN stack = 1..Top
      /\ \A k \in 1..Top : AsideBefore(stack[k].saved)
  BY CallsThere
<1>2. DOMAIN stack' = 1..Top
  BY <1>1
<1>3. ASSUME NEW k \in 1..Top
      PROVE  stack'[k] = IF k = Top THEN frame ELSE stack[k]
  BY <1>1
<1>4. ASSUME NEW k \in 1..Top
      PROVE  AsideBefore(stack'[k].saved)
  <2>1. CASE k = Top
    BY <1>3, <2>1
  <2>2. CASE k # Top
    BY <1>1, <1>3, <2>2
  <2>. QED  BY <2>1, <2>2
<1>. QED  BY <1>2, <1>4 DEF Aside

LEMMA AsideContinue ==
  ASSUME Ready, outcome = "running", NEW todo, Continue(todo)
  PROVE  Aside
<1>1. Frame \in FrameRecord /\ Top \in DOMAIN stack /\ AsideBefore(Frame.saved)
  BY TopFrame, CallsThere DEF Frame
<1>2. PICK frame : frame = [Frame EXCEPT !.todo = todo]
  OBVIOUS
<1>3. frame.saved = Frame.saved
  BY <1>1, <1>2 DEF FrameRecord
<1>4. stack' = [stack EXCEPT ![Top] = frame]
  BY <1>2 DEF Continue, Frame
<1>. QED  BY <1>1, <1>3, <1>4, AsideTop

LEMMA AsideStays == ASSUME Ready, stack' = stack PROVE Aside
  BY CallsThere DEF Aside

LEMMA AsideCalls ==
  ASSUME Ready, NEW base \in Seq(FrameRecord),
         \A k \in 1..Len(base) : AsideBefore(base[k].saved),
         NEW rule \in Rules, NEW field \in Fields, NEW start \in Int, NEW exact \in BOOLEAN,
         stack' = base \o Calls(rule, field, start, exact)
  PROVE  Aside
<1>1. PICK calls : calls = Calls(rule, field, start, exact)
  OBVIOUS
<1>2. calls \in Seq(FrameRecord)
  BY <1>1, CallsAreFrames
<1>3. \A i \in 1..Len(calls) : calls[i].saved = <<>>
  <2>1. PICK opening : opening = Opening[rule]
    OBVIOUS
  <2>2. calls = [i \in 1..Len(opening) |->
                  [todo |-> opening[i].todo, start |-> start, exact |-> exact,
                   field |-> IF i = 1 THEN field ELSE opening[i].field,
                   kids |-> <<>>, end |-> NoToken, saved |-> <<>>]]
    BY <1>1, <2>1 DEF Calls
  <2>3. Len(opening) \in Nat
    BY <2>1, GrammarAssumption, LenProperties
  <2>4. Len(calls) = Len(opening)
    BY <2>2, <2>3
  <2>. QED  BY <2>2, <2>4
<1>4. /\ DOMAIN stack' = 1..(Len(base) + Len(calls)) /\ Len(base) \in Nat /\ Len(calls) \in Nat
      /\ \A k \in 1..(Len(base) + Len(calls)) :
           stack'[k] = IF k <= Len(base) THEN base[k] ELSE calls[k - Len(base)]
  BY <1>1, <1>2, ConcatProperties, LenProperties
<1>5. ASSUME NEW k \in 1..(Len(base) + Len(calls))
      PROVE  AsideBefore(stack'[k].saved)
  <2>1. CASE k <= Len(base)
    BY <1>4, <2>1
  <2>2. CASE ~(k <= Len(base))
    <3>1. k - Len(base) \in 1..Len(calls)
      BY <1>4, <2>2
    <3>2. stack'[k].saved = <<>>
      BY <1>3, <1>4, <2>2, <3>1
    <3>. QED  BY <3>2 DEF AsideBefore
  <2>. QED  BY <2>1, <2>2
<1>. QED  BY <1>4, <1>5 DEF Aside

LEMMA AsideBecome ==
  ASSUME Ready, outcome = "running", NEW rule \in Rules, Become(rule)
  PROVE  Aside
<1>1. /\ Top \in Nat \ {0} /\ Frame \in FrameRecord /\ stack \in Seq(FrameRecord)
      /\ Top = Len(stack)
      /\ \A k \in 1..Top : AsideBefore(stack[k].saved)
  BY TopFrame, CallsThere DEF Top
<1>2. PICK base : base = SubSeq(stack, 1, Top - 1)
  OBVIOUS
<1>3. /\ base \in Seq(FrameRecord) /\ Len(base) = Top - 1
      /\ \A k \in 1..(Top - 1) : base[k] = stack[k]
  BY <1>1, <1>2, SubSeqProperties
<1>4. \A k \in 1..Len(base) : AsideBefore(base[k].saved)
  BY <1>1, <1>3
<1>5. Frame.field \in Fields /\ Frame.start \in Int /\ Frame.exact \in BOOLEAN
  BY <1>1 DEF FrameRecord
<1>6. stack' = base \o Calls(rule, Frame.field, Frame.start, Frame.exact)
  BY <1>2 DEF Become
<1>. QED  BY <1>3, <1>4, <1>5, <1>6, AsideCalls

LEMMA AsideDeliver == ASSUME Ready, NEW id, Deliver(id) PROVE Aside
<1>1. PICK k \in 1..(Top - 1) :
        stack' = [SubSeq(stack, 1, k) EXCEPT ![k].kids =
                    Append(@, [field |-> stack[k + 1].field, id |-> id])]
  BY DEF Deliver
<1>2. /\ Top \in Nat /\ stack \in Seq(FrameRecord) /\ Top = Len(stack)
      /\ \A j \in 1..Top : stack[j] \in FrameRecord /\ AsideBefore(stack[j].saved)
  BY CallsThere DEF Top
<1>3. PICK base : base = SubSeq(stack, 1, k)
  OBVIOUS
<1>4. /\ base \in Seq(FrameRecord) /\ Len(base) = k /\ k \in Nat /\ DOMAIN base = 1..k
      /\ \A j \in 1..k : base[j] = stack[j]
  BY <1>2, <1>3, SubSeqProperties, LenProperties
<1>5. PICK kids, frame : /\ kids = Append(base[k].kids, [field |-> stack[k + 1].field, id |-> id])
                         /\ frame = [base[k] EXCEPT !.kids = kids]
  OBVIOUS
<1>6. stack' = [base EXCEPT ![k] = frame]
  BY <1>1, <1>3, <1>5
<1>7. base[k] \in FrameRecord
  BY <1>2, <1>4
<1>8. frame.saved = base[k].saved
  BY <1>5, <1>7 DEF FrameRecord
<1>9. /\ DOMAIN stack' = 1..k
      /\ \A j \in 1..k : stack'[j] = IF j = k THEN frame ELSE stack[j]
  BY <1>4, <1>6
<1>10. ASSUME NEW j \in 1..k
       PROVE  AsideBefore(stack'[j].saved)
  <2>1. j \in 1..Top
    BY <1>2
  <2>2. CASE j = k
    BY <1>2, <1>4, <1>8, <1>9, <2>1, <2>2
  <2>3. CASE j # k
    BY <1>2, <1>9, <2>1, <2>3
  <2>. QED  BY <2>2, <2>3
<1>. QED  BY <1>9, <1>10 DEF Aside

LEMMA AsideCall == ASSUME Ready, Call PROVE Aside
<1>1. /\ outcome = "running" /\ After \in Seq(Code)
      /\ Step \in Code /\ Step.op = "parse"
  BY TopStep DEF Call
<1>2. Step.rule \in Rules /\ Step.field \in Fields /\ Step.own \in BOOLEAN
  BY <1>1, CodeAssumption
<1>3. /\ Frame \in FrameRecord /\ Top \in 1..Len(stack) /\ Top = Len(stack)
      /\ stack \in Seq(FrameRecord) /\ \A k \in 1..Top : AsideBefore(stack[k].saved)
  BY <1>1, TopFrame, CallsThere DEF Top
<1>4. PICK start, frame, base :
        /\ start = (IF Step.own THEN index ELSE Frame.start)
        /\ frame = [Frame EXCEPT !.todo = After]
        /\ base = [stack EXCEPT ![Top] = frame]
  OBVIOUS
<1>5. start \in Int
  <2>1. Frame.start \in Int /\ index \in Int
    BY <1>3, TokensThere DEF FrameRecord
  <2>. QED  BY <1>4, <2>1
<1>6. frame \in FrameRecord /\ frame.saved = Frame.saved
  BY <1>1, <1>3, <1>4 DEF FrameRecord
<1>7. /\ base \in Seq(FrameRecord) /\ Len(base) = Top
      /\ \A k \in 1..Top : base[k] = IF k = Top THEN frame ELSE stack[k]
  BY <1>3, <1>4, <1>6, ExceptSeq
<1>8. \A k \in 1..Len(base) : AsideBefore(base[k].saved)
  <2>1. ASSUME NEW k \in 1..Top
        PROVE  base[k].saved = stack[k].saved
    BY <1>6, <1>7 DEF Frame
  <2>. QED  BY <1>3, <1>7, <2>1
<1>9. stack' = base \o Calls(Step.rule, Step.field, start, Step.own)
  BY <1>4 DEF Call, Frame
<1>. QED  BY <1>2, <1>5, <1>7, <1>8, <1>9, AsideCalls

LEMMA AsideDispatch == ASSUME Ready, Dispatch PROVE Aside
<1>1. outcome = "running" /\ Step \in Code /\ Step.op = "switch"
  BY TopStep DEF Dispatch
<1>2. CASE Continue(After)
  BY <1>1, <1>2, AsideContinue
<1>3. ASSUME NEW row \in Switches[Step.table], Become(row.rule)
      PROVE  Aside
  <2>1. row.rule \in Rules
    BY <1>1, CodeAssumption, GrammarAssumption, Zenon
  <2>. QED  BY <1>1, <1>3, <2>1, AsideBecome
<1>. QED  BY <1>2, <1>3 DEF Dispatch

LEMMA AsideTailCall == ASSUME Ready, TailCall PROVE Aside
<1>1. outcome = "running" /\ Step \in Code /\ Step.op = "goto"
  BY TopStep DEF TailCall
<1>2. Step.rule \in Rules
  BY <1>1, CodeAssumption
<1>. QED  BY <1>1, <1>2, AsideBecome DEF TailCall

\* The steps that change the innermost call only.
LEMMA AsideChanges ==
  ASSUME Ready, MakeOperand \/ FixEnd \/ FixStart \/ Rename \/ Reassign \/ StartSubmodules
  PROVE  Aside
<1>1. outcome = "running"
  BY DEF MakeOperand, FixEnd, FixStart, Rename, Reassign, StartSubmodules, Does
<1>2. /\ Frame \in FrameRecord /\ AsideBefore(Frame.saved) /\ AsideBefore(submodules)
      /\ stack[Top] = Frame
  BY <1>1, TopFrame, CallsThere DEF AsideBefore, Frame
<1>3. CASE MakeOperand
  <2>1. PICK kids, frame :
          /\ kids = <<[field |-> Frame.kids[1].field, id |-> NewId]>>
          /\ frame = [Frame EXCEPT !.todo = After, !.end = NoToken, !.kids = kids]
    OBVIOUS
  <2>2. frame.saved = Frame.saved
    BY <1>2, <2>1 DEF FrameRecord
  <2>3. stack' = [stack EXCEPT ![Top] = frame]
    BY <1>2, <1>3, <2>1 DEF MakeOperand
  <2>. QED  BY <1>1, <1>2, <2>2, <2>3, AsideTop
<1>4. CASE FixEnd
  <2>1. PICK end, frame : /\ frame = [Frame EXCEPT !.todo = After, !.end = end]
                          /\ stack' = [stack EXCEPT ![Top] = frame]
    BY <1>2, <1>4 DEF FixEnd
  <2>2. frame.saved = Frame.saved
    BY <1>2, <2>1 DEF FrameRecord
  <2>. QED  BY <1>1, <1>2, <2>1, <2>2, AsideTop
<1>5. CASE FixStart
  <2>1. PICK start, exact, frame :
          /\ frame = [Frame EXCEPT !.todo = After, !.start = start, !.exact = exact]
          /\ stack' = [stack EXCEPT ![Top] = frame]
    BY <1>2, <1>5 DEF FixStart
  <2>2. frame.saved = Frame.saved
    BY <1>2, <2>1 DEF FrameRecord
  <2>. QED  BY <1>1, <1>2, <2>1, <2>2, AsideTop
<1>6. CASE Rename
  <2>1. PICK kids, frame : /\ frame = [Frame EXCEPT !.todo = After, !.kids = kids]
                           /\ stack' = [stack EXCEPT ![Top] = frame]
    BY <1>2, <1>6 DEF Rename
  <2>2. frame.saved = Frame.saved
    BY <1>2, <2>1 DEF FrameRecord
  <2>. QED  BY <1>1, <1>2, <2>1, <2>2, AsideTop
<1>7. CASE Reassign
  <2>1. CASE Continue(After)
    BY <1>1, <2>1, AsideContinue
  <2>2. ASSUME NEW kids, NEW frame, frame = [Frame EXCEPT !.todo = After, !.kids = kids],
               stack' = [stack EXCEPT ![Top] = frame]
        PROVE  Aside
    <3>1. frame.saved = Frame.saved
      BY <1>2, <2>2 DEF FrameRecord
    <3>. QED  BY <1>1, <1>2, <2>2, <3>1, AsideTop
  <2>. QED  BY <1>2, <1>7, <2>1, <2>2 DEF Reassign
<1>8. CASE StartSubmodules
  <2>1. PICK frame : /\ frame = [Frame EXCEPT !.todo = After, !.saved = submodules]
                     /\ stack' = [stack EXCEPT ![Top] = frame]
    BY <1>2, <1>8 DEF StartSubmodules
  <2>2. frame.saved = submodules
    BY <1>2, <2>1 DEF FrameRecord
  <2>. QED  BY <1>1, <1>2, <2>1, <2>2, AsideTop
<1>. QED  BY <1>3, <1>4, <1>5, <1>6, <1>7, <1>8

\* No step of the parser puts aside anything new but what is collected.
LEMMA AsideStep == ASSUME Ready, Next PROVE Aside
<1>0. outcome = "running"
  BY Running
<1>1. ASSUME Refuse PROVE Aside
  BY <1>1, AsideStays DEF Refuse
<1>2. ASSUME ReadAny \/ ReadType \/ Check \/ Loop \/ ReadLiteral PROVE Aside
  BY <1>0, <1>1, <1>2, AsideStays, AsideContinue DEF ReadAny, ReadType, Check, Loop, ReadLiteral
<1>3. ASSUME Branch PROVE Aside
  BY <1>0, <1>3, AsideContinue DEF Branch
<1>4. ASSUME MakeNode \/ HandOn PROVE Aside
  BY <1>4, AsideDeliver DEF MakeNode, HandOn
<1>5. ASSUME MakeModuleNode PROVE Aside
  <2>1. stack' = <<>>
    BY <1>5 DEF MakeModuleNode
  <2>2. DOMAIN stack' = {}
    BY <2>1
  <2>. QED  BY <2>2 DEF Aside
<1>. QED  BY <1>2, <1>3, <1>4, <1>5, AsideCall, AsideDispatch, AsideTailCall, AsideChanges
       DEF Next

\* A node that is made stays.
LEMMA NodesGrow ==
  ASSUME Ready, Next
  PROVE  /\ Len(nodes) \in Nat /\ NodeIds = 1..Len(nodes)
         /\ Len(nodes') \in Nat /\ NodeIds' = 1..Len(nodes')
         /\ Len(nodes) <= Len(nodes')
<1>1. Ready' /\ Kind
  BY StepKind
<1>2. nodes \in Seq(NodeRecord) /\ nodes' \in Seq(NodeRecord)
  BY <1>1 DEF Ready, TypeOK
<1>3. /\ Len(nodes) \in Nat /\ NodeIds = 1..Len(nodes)
      /\ Len(nodes') \in Nat /\ NodeIds' = 1..Len(nodes')
  BY <1>2, LenProperties DEF NodeIds
<1>4. CASE nodes' = nodes
  BY <1>3, <1>4
<1>5. CASE Makes
  <2>1. PICK node \in NodeRecord : nodes' = Append(nodes, node)
    BY <1>5 DEF Makes
  <2>2. Len(nodes') = Len(nodes) + 1
    BY <1>2, <2>1, AppendProperties
  <2>. QED  BY <1>3, <2>2
<1>. QED  BY <1>1, <1>4, <1>5 DEF Kind, Proceeds, HandsOn

\* Only two steps add to what is collected.
LEMMA ListsKept ==
  ASSUME Next
  PROVE  \/ MakeNode \/ MakeModuleNode
         \/ imports' = imports /\ lists' = lists /\ submodules' \in {submodules, <<>>}
  BY DEF Next, ReadAny, ReadType, Check, Branch, Loop, Call, TailCall, Dispatch, MakeOperand,
     HandOn, FixEnd, FixStart, Rename, Reassign, StartSubmodules, ReadLiteral, Refuse, Output

\* What is collected stays collected, below the module that takes it.
LEMMA CollectedStep == Ready /\ Collected /\ [Next]_vars => Collected'
<1>1. ASSUME Ready, Collected, Next PROVE Collected'
  <2>1. NodeIds \subseteq NodeIds' /\ NodeIds = 1..Len(nodes) /\ Len(nodes) \in Nat
        /\ NodeIds' = 1..Len(nodes') /\ Len(nodes') \in Nat
    BY <1>1, NodesGrow
  <2>2. /\ imports \in Seq(NodeIds) /\ submodules \in Seq(NodeIds)
        /\ imports \in Seq(NodeIds') /\ submodules \in Seq(NodeIds') /\ <<>> \in Seq(NodeIds')
        /\ \A k \in DOMAIN stack : stack[k].saved \in Seq(NodeIds')
    <3>1. \A s \in Seq(NodeIds) : s \in Seq(NodeIds')
      BY <2>1, MoreValues
    <3>2. <<>> \in Seq(NodeIds')
      OBVIOUS
    <3>. QED  BY <1>1, <3>1, <3>2, Zenon DEF Collected
  <2>3. \A i \in DOMAIN lists : Finished(NodeIds', lists[i])
    BY <1>1, <2>1 DEF Collected, Finished
  <2>4. ASSUME NEW k \in DOMAIN stack'
        PROVE  stack'[k].saved \in Seq(NodeIds')
    BY <1>1, <2>2, AsideStep DEF Aside, AsideBefore
  <2>5. CASE imports' = imports /\ lists' = lists /\ submodules' \in {submodules, <<>>}
    BY <2>2, <2>4, <2>5, <2>3, Zenon DEF Collected
  <2>6. ASSUME NEW type, NEW kids, nodes' = Append(nodes, NodeOf(type, kids))
        PROVE  Len(nodes') = NewId /\ NewId \in NodeIds' /\ 1..(NewId - 1) = NodeIds
    <3>1. Len(nodes') = Len(nodes) + 1
      <4>1. Ready' /\ nodes \in Seq(NodeRecord) /\ nodes' \in Seq(NodeRecord)
        BY <1>1, StepKind DEF Ready, TypeOK
      <4>. QED  BY <2>6, <4>1
    <3>. QED  BY <2>1, <3>1 DEF NewId
  <2>7. ASSUME NEW list, lists' = Append(lists, list), Finished(NodeIds', list)
        PROVE  \A i \in DOMAIN lists' : Finished(NodeIds', lists'[i])
    <3>1. lists \in Seq([module : Nat, imports : Seq(Nat), submodules : Seq(Nat)])
      BY <1>1 DEF Ready, TypeOK
    <3>2. PICK S : S = [module : Nat, imports : Seq(Nat), submodules : Seq(Nat)] \cup {list}
      OBVIOUS
    <3>3. lists \in Seq(S) /\ list \in S
      BY <3>1, <3>2, MoreValues
    <3>4. /\ Len(lists) \in Nat /\ DOMAIN lists = 1..Len(lists)
          /\ DOMAIN lists' = 1..Len(lists) + 1
          /\ \A i \in 1..Len(lists) : lists'[i] = lists[i]
          /\ lists'[Len(lists) + 1] = list
      BY <2>7, <3>3, AppendParts, LenProperties
    <3>5. ASSUME NEW i \in 1..Len(lists) + 1
          PROVE  Finished(NodeIds', lists'[i])
      <4>1. CASE i = Len(lists) + 1
        BY <2>7, <3>4, <4>1
      <4>2. CASE i # Len(lists) + 1
        <5>1. i \in DOMAIN lists /\ lists'[i] = lists[i]
          BY <3>4, <4>2
        <5>. QED  BY <2>3, <5>1
      <4>. QED  BY <4>1, <4>2
    <3>. QED  BY <3>4, <3>5
  <2>8. CASE MakeNode
    <3>1. NewId \in NodeIds' /\ 1..(NewId - 1) = NodeIds
      BY <2>6, <2>8 DEF MakeNode
    <3>2. imports' \in Seq(NodeIds')
      BY <2>2, <2>8, <3>1, AppendProperties DEF MakeNode
    <3>3. submodules' \in Seq(NodeIds')
      <4>1. outcome = "running"
        BY <2>8 DEF MakeNode, Does
      <4>2. Top \in DOMAIN stack
        BY <1>1, <4>1, TopFrame, CallsThere
      <4>3. Frame.saved \in Seq(NodeIds')
        BY <2>2, <4>2 DEF Frame
      <4>. QED  BY <2>2, <2>8, <3>1, <4>3, AppendProperties DEF MakeNode
    <3>4. \A i \in DOMAIN lists' : Finished(NodeIds', lists'[i])
      <4>1. CASE lists' = lists
        BY <2>3, <4>1
      <4>2. CASE lists' = Append(lists, [module |-> NewId, imports |-> <<>>,
                                         submodules |-> submodules])
        <5>1. PICK list : list = [module |-> NewId, imports |-> <<>>, submodules |-> submodules]
          OBVIOUS
        <5>2. list.module = NewId /\ list.imports = <<>> /\ list.submodules = submodules
          BY <5>1
        <5>3. <<>> \in Seq(NodeIds)
          OBVIOUS
        <5>4. /\ list.module \in NodeIds' /\ list.imports \in Seq(1..(list.module - 1))
              /\ list.submodules \in Seq(1..(list.module - 1))
          BY <2>2, <3>1, <5>2, <5>3
        <5>5. Finished(NodeIds', list)
          BY <5>4 DEF Finished
        <5>. QED  BY <2>7, <4>2, <5>1, <5>5
      <4>. QED  BY <2>8, <4>1, <4>2 DEF MakeNode
    <3>. QED  BY <2>4, <3>2, <3>3, <3>4, Zenon DEF Collected
  <2>9. CASE MakeModuleNode
    <3>1. NewId \in NodeIds' /\ 1..(NewId - 1) = NodeIds
      BY <2>6, <2>9 DEF MakeModuleNode
    <3>2. PICK list : list = [module |-> NewId, imports |-> imports, submodules |-> submodules]
      OBVIOUS
    <3>3. list.module = NewId /\ list.imports = imports /\ list.submodules = submodules
      BY <3>2
    <3>4. /\ list.module \in NodeIds' /\ list.imports \in Seq(1..(list.module - 1))
          /\ list.submodules \in Seq(1..(list.module - 1))
      BY <2>2, <3>1, <3>3
    <3>5. Finished(NodeIds', list)
      BY <3>4 DEF Finished
    <3>6. \A i \in DOMAIN lists' : Finished(NodeIds', lists'[i])
      BY <2>7, <2>9, <3>2, <3>5 DEF MakeModuleNode
    <3>. QED  BY <2>2, <2>4, <2>9, <3>6, Zenon DEF Collected, MakeModuleNode
  <2>. QED  BY <1>1, <2>5, <2>8, <2>9, ListsKept
<1>2. ASSUME Collected, UNCHANGED vars PROVE Collected'
  BY <1>2 DEF Collected, Finished, vars, NodeIds
<1>. QED  BY <1>1, <1>2

LEMMA CollectedInit == Init => Collected
<1> SUFFICES ASSUME Init PROVE Collected
  OBVIOUS
<1>1. /\ nodes = <<>> /\ imports = <<>> /\ submodules = <<>> /\ lists = <<>>
      /\ stack = Calls("module", "", 0, TRUE)
  BY Zenon DEF Init
<1>2. PICK opening : opening = Opening["module"]
  OBVIOUS
<1>3. stack = [i \in 1..Len(opening) |->
                 [todo |-> opening[i].todo, start |-> 0, exact |-> TRUE,
                  field |-> IF i = 1 THEN "" ELSE opening[i].field,
                  kids |-> <<>>, end |-> NoToken, saved |-> <<>>]]
  BY <1>1, <1>2, Zenon DEF Calls
<1>4. \A k \in DOMAIN stack : stack[k].saved = <<>>
  BY <1>3
<1>5. \A S : <<>> \in Seq(S)
  OBVIOUS
<1>6. DOMAIN lists = {}
  <2>1. lists = <<>>
    BY <1>1, Zenon
  <2>. QED  BY <2>1
<1>. QED  BY <1>1, <1>4, <1>5, <1>6, Zenon DEF Collected

\* The children of every node were made before it, those that a module lists too.
LEMMA TreeGrown ==
  ASSUME Ready, Forest, Collected
  PROVE  Grown
<1>1. Len(nodes) \in Nat /\ NodeIds = 1..Len(nodes)
      /\ \A id \in NodeIds : nodes[id] \in NodeRecord
  BY LenProperties, ElementOfSeq DEF Ready, TypeOK, NodeIds
<1>2. ASSUME NEW id \in NodeIds
      PROVE  /\ nodes[id].type \in NodeTypes /\ nodes[id].kids \in Seq(Kid)
             /\ KidIds(nodes[id].kids) \subseteq 1..(id - 1)
  <2>1. nodes[id] \in NodeRecord
    BY <1>1
  <2>2. OneParent
    BY ForestOneParent
  <2>. QED  BY <2>1, <2>2 DEF NodeRecord, OneParent, NodeIds
<1>3. ASSUME NEW id \in NodeIds, NEW name \in STRING, name \in {"imports", "submodules"}
      PROVE  FieldNodes(id, name) \in Seq(1..(id - 1))
  <2>1. PICK parts : parts = [i \in 1..Len(lists) |->
                                IF i \in TakenLists(id) THEN lists[i][name] ELSE <<>>]
    OBVIOUS
  <2>2. Len(lists) \in Nat /\ DOMAIN lists = 1..Len(lists)
    BY LenProperties DEF Ready, TypeOK
  <2>3. ASSUME NEW i \in 1..Len(lists)
        PROVE  parts[i] \in Seq(1..(id - 1))
    <3>1. CASE i \in TakenLists(id)
      <4>1. lists[i].module = id /\ Finished(NodeIds, lists[i])
        BY <2>2, <3>1 DEF TakenLists, Collected
      <4>2. CASE name = "imports"
        BY <2>1, <3>1, <4>1, <4>2 DEF Finished
      <4>3. CASE name = "submodules"
        BY <2>1, <3>1, <4>1, <4>3 DEF Finished
      <4>. QED  BY <1>3, <4>2, <4>3
    <3>2. CASE i \notin TakenLists(id)
      BY <2>1, <3>2
    <3>. QED  BY <3>1, <3>2
  <2>4. parts \in Seq(Seq(1..(id - 1)))
    <3>1. parts \in [1..Len(lists) -> Seq(1..(id - 1))]
      BY <2>1, <2>3
    <3>. QED  BY <2>2, <3>1, FunctionIsSequence
  <2>5. FlattenSeq(parts) \in Seq(1..(id - 1))
    BY <2>4, JoinedType
  <2>. QED  BY <1>3, <2>1, <2>5, Zenon DEF FieldNodes
<1>4. ASSUME NEW id \in NodeIds, NEW name \in STRING, name \notin {"imports", "submodules"}
      PROVE  FieldNodes(id, name) \in Seq(1..(id - 1))
  <2>1. PICK kids : kids = nodes[id].kids
    OBVIOUS
  <2>2. PICK parts : parts = [i \in 1..Len(kids) |->
                                IF kids[i].field = name THEN <<kids[i].id>> ELSE <<>>]
    OBVIOUS
  <2>3. Len(kids) \in Nat /\ DOMAIN kids = 1..Len(kids)
    BY <1>2, <2>1, LenProperties
  <2>4. ASSUME NEW i \in 1..Len(kids)
        PROVE  parts[i] \in Seq(1..(id - 1))
    <3>1. kids[i].id \in 1..(id - 1)
      BY <1>2, <2>1, <2>3 DEF KidIds
    <3>2. <<kids[i].id>> \in Seq(1..(id - 1)) /\ <<>> \in Seq(1..(id - 1))
      BY <3>1, OnlyOne
    <3>. QED  BY <2>2, <3>2
  <2>5. parts \in Seq(Seq(1..(id - 1)))
    <3>1. parts \in [1..Len(kids) -> Seq(1..(id - 1))]
      BY <2>2, <2>4
    <3>. QED  BY <2>3, <3>1, FunctionIsSequence
  <2>6. FlattenSeq(parts) \in Seq(1..(id - 1))
    BY <2>5, JoinedType
  <2>. QED  BY <1>4, <2>1, <2>2, <2>6, Zenon DEF FieldNodes
<1>5. Heirs
  BY <1>3, <1>4 DEF Heirs
<1>6. NodesTyped /\ Sized
  BY <1>1, <1>2 DEF NodesTyped, Sized
<1>. QED  BY <1>5, <1>6 DEF Grown

-----------------------------------------------------------------------------
(* The calls in progress                                                   *)

\* A call, and what of the text is its own: the text up to its opening bracket, what is
\* on that line, the blocks printed so far and all that are to be.
CallRecord == [list : BOOLEAN, node : NodeIds, names : Seq(STRING), ids : Seq(NodeIds),
               saved : Nat]
View == [base : Written, head : Seq(Pieces), made : Blocks, all : Blocks]
CloseOf(call) == IF call.list THEN ListEnd ELSE NodeEnd

\* What a call has printed and has left to print; `open' is the block a call above it
\* is at.
NodeFits(call, view, open) ==
  /\ \E n \in 0..Len(Names(call.node)) :
       /\ call.names = SubSeq(Names(call.node), n + 1, Len(Names(call.node)))
       /\ view.made \o open = UpTo(call.node, n)
  /\ view.all = InsideOf(call.node)
ListFits(call, view, open) ==
  \E held \in Seq(NodeIds) :
    /\ \E n \in 0..Len(held) : /\ call.ids = SubSeq(held, n + 1, Len(held))
                               /\ view.made \o open = Items(held, n)
    /\ view.all = Items(held, Len(held))
Fits(call, view, open) ==
  IF call.list THEN ListFits(call, view, open) ELSE NodeFits(call, view, open)

\* A call and the one it is waiting for.
Link(call, view, next, inner, depth) ==
  /\ Fits(call, view, <<Bracketed(inner.head, inner.all, CloseOf(next))>>)
  /\ inner.base = Begun(On(view.base, depth, view.made), view.made)
                    \o LineOf(2 * depth, inner.head)
  /\ next.saved = Len(view.made) + 1
  /\ call.list \/ ~IsNumber(call.node)
Root(call, view) ==
  /\ ~call.list /\ call.node = Len(nodes)
  /\ view.head = Head1(call.node) /\ view.base = LineOf(0, view.head)
Shows(views, calls) ==
  /\ calls \in Seq(CallRecord) /\ views \in Seq(View)
  /\ Len(views) = Len(calls) /\ Len(calls) > 0
  /\ Root(calls[1], views[1])
  /\ \A k \in 1..(Len(calls) - 1) : Link(calls[k], views[k], calls[k + 1], views[k + 1], k)
  /\ Fits(calls[Len(calls)], views[Len(calls)], <<>>)

\* The text at the innermost call.  The value of a number is still to come.
ValueToCome(call) == ~call.list /\ IsNumber(call.node) /\ call.names # <<>>
Tops(text, count, blanks, call, view, depth) ==
  /\ text \in Written /\ count = Len(view.made) /\ blanks = 2 * depth
  /\ On(view.base, depth, view.made) =
       IF ValueToCome(call) THEN Write(text, Label("value")) ELSE text

SameCall(call, other) ==
  call.list = other.list /\ call.node = other.node /\ call.saved = other.saved
SameView(view, other) ==
  view.base = other.base /\ view.head = other.head /\ view.all = other.all

\* There is an innermost call.
LEMMA ShowsFacts ==
  ASSUME NEW views, NEW calls, Shows(views, calls)
  PROVE  /\ Len(calls) \in Nat \ {0} /\ DOMAIN calls = 1..Len(calls)
         /\ Len(views) = Len(calls) /\ DOMAIN views = 1..Len(calls)
         /\ calls \in Seq(CallRecord) /\ views \in Seq(View) /\ calls # <<>>
         /\ \A k \in 1..Len(calls) : calls[k] \in CallRecord /\ views[k] \in View
<1>1. /\ calls \in Seq(CallRecord) /\ views \in Seq(View)
      /\ Len(views) = Len(calls) /\ Len(calls) > 0
  BY DEF Shows
<1>2. Len(calls) \in Nat /\ DOMAIN calls = 1..Len(calls) /\ DOMAIN views = 1..Len(views)
  BY <1>1, LenProperties
<1>3. calls # <<>>
  BY <1>1
<1>. QED  BY <1>1, <1>2, <1>3, ElementOfSeq

\* The innermost call goes on.
Advanced(views, calls, n, call, view) ==
  /\ Shows([views EXCEPT ![n] = view], [calls EXCEPT ![n] = call])
  /\ Len([calls EXCEPT ![n] = call]) = n
  /\ [views EXCEPT ![n] = view][n] = view /\ [calls EXCEPT ![n] = call][n] = call

\* It shows what it has got to.
LEMMA TopAdvances ==
  ASSUME NEW views, NEW calls, Shows(views, calls), NEW n, n = Len(calls),
         NEW call \in CallRecord, NEW view \in View,
         SameCall(call, calls[n]), SameView(view, views[n]), Fits(call, view, <<>>)
  PROVE  Advanced(views, calls, n, call, view)
<1>1. /\ n \in Nat \ {0} /\ calls \in Seq(CallRecord) /\ views \in Seq(View)
      /\ Len(views) = n /\ n = Len(calls)
  BY ShowsFacts
<1>2. PICK w, d : w = [views EXCEPT ![n] = view] /\ d = [calls EXCEPT ![n] = call]
  OBVIOUS
<1>3. /\ w \in Seq(View) /\ Len(w) = n
      /\ \A k \in 1..n : w[k] = IF k = n THEN view ELSE views[k]
  <2>1. n \in 1..Len(views)
    BY <1>1
  <2>. QED  BY <1>1, <1>2, <2>1, ExceptSeq
<1>4. /\ d \in Seq(CallRecord) /\ Len(d) = n
      /\ \A k \in 1..n : d[k] = IF k = n THEN call ELSE calls[k]
  <2>1. n \in 1..Len(calls)
    BY <1>1
  <2>. QED  BY <1>1, <1>2, <2>1, ExceptSeq
<1>5. d[n] = call /\ w[n] = view
  BY <1>1, <1>3, <1>4
<1>6. Root(d[1], w[1])
  <2>1. Root(calls[1], views[1])
    BY DEF Shows
  <2>2. CASE n = 1
    BY <1>5, <2>1, <2>2 DEF Root, SameCall, SameView
  <2>3. CASE n # 1
    <3>1. d[1] = calls[1] /\ w[1] = views[1]
      BY <1>1, <1>3, <1>4, <2>3
    <3>. QED  BY <2>1, <3>1
  <2>. QED  BY <2>2, <2>3
<1>7. ASSUME NEW k \in 1..(n - 1)
      PROVE  Link(d[k], w[k], d[k + 1], w[k + 1], k)
  <2>1. Link(calls[k], views[k], calls[k + 1], views[k + 1], k)
    BY <1>1 DEF Shows
  <2>2. d[k] = calls[k] /\ w[k] = views[k]
    BY <1>1, <1>3, <1>4
  <2>3. SameCall(d[k + 1], calls[k + 1]) /\ SameView(w[k + 1], views[k + 1])
    <3>1. CASE k + 1 = n
      BY <1>5, <3>1
    <3>2. CASE k + 1 # n
      <4>1. d[k + 1] = calls[k + 1] /\ w[k + 1] = views[k + 1]
        BY <1>1, <1>3, <1>4, <3>2
      <4>. QED  BY <4>1 DEF SameCall, SameView
    <3>. QED  BY <3>1, <3>2
  <2>. QED  BY <2>1, <2>2, <2>3, Zenon DEF Link, SameCall, SameView, CloseOf
<1>8. Shows(w, d)
  BY <1>1, <1>3, <1>4, <1>5, <1>6, <1>7 DEF Shows
<1>. QED  BY <1>2, <1>4, <1>5, <1>8 DEF Advanced

\* The innermost call goes on with another one.
Called(views, calls, n, call, next, inner) ==
  /\ Shows(Append(views, inner), Append([calls EXCEPT ![n] = call], next))
  /\ Len(Append([calls EXCEPT ![n] = call], next)) = n + 1
  /\ Append(views, inner)[n + 1] = inner
  /\ Append([calls EXCEPT ![n] = call], next)[n + 1] = next

\* The new call is the innermost one.
LEMMA TopCalls ==
  ASSUME NEW views, NEW calls, Shows(views, calls), NEW n, n = Len(calls),
         NEW call \in CallRecord, SameCall(call, calls[n]),
         NEW next \in CallRecord, NEW inner \in View,
         Link(call, views[n], next, inner, n), Fits(next, inner, <<>>)
  PROVE  Called(views, calls, n, call, next, inner)
<1>1. /\ n \in Nat \ {0} /\ calls \in Seq(CallRecord) /\ views \in Seq(View)
      /\ Len(views) = n /\ n = Len(calls)
  BY ShowsFacts
<1>2. PICK w, c, d : /\ w = Append(views, inner) /\ c = [calls EXCEPT ![n] = call]
                     /\ d = Append(c, next)
  OBVIOUS
<1>3. /\ w \in Seq(View) /\ Len(w) = n + 1 /\ w[n + 1] = inner
      /\ \A k \in 1..n : w[k] = views[k]
  BY <1>1, <1>2, AppendProperties
<1>4. /\ c \in Seq(CallRecord) /\ Len(c) = n
      /\ \A k \in 1..n : c[k] = IF k = n THEN call ELSE calls[k]
  <2>1. n \in 1..Len(calls)
    BY <1>1
  <2>. QED  BY <1>1, <1>2, <2>1, ExceptSeq
<1>5. /\ d \in Seq(CallRecord) /\ Len(d) = n + 1 /\ d[n + 1] = next
      /\ \A k \in 1..n : d[k] = c[k]
  BY <1>2, <1>4, AppendProperties
<1>6. d[n] = call /\ w[n] = views[n]
  BY <1>1, <1>3, <1>4, <1>5
<1>7. Root(d[1], w[1])
  <2>1. Root(calls[1], views[1])
    BY DEF Shows
  <2>2. CASE n = 1
    BY <1>6, <2>1, <2>2 DEF Root, SameCall
  <2>3. CASE n # 1
    <3>1. d[1] = calls[1] /\ w[1] = views[1]
      BY <1>1, <1>3, <1>4, <1>5, <2>3
    <3>. QED  BY <2>1, <3>1
  <2>. QED  BY <2>2, <2>3
<1>8. ASSUME NEW k \in 1..n
      PROVE  Link(d[k], w[k], d[k + 1], w[k + 1], k)
  <2>1. CASE k = n
    BY <1>3, <1>5, <1>6, <2>1
  <2>2. CASE k # n
    <3>1. k \in 1..(n - 1)
      BY <1>1, <2>2
    <3>2. Link(calls[k], views[k], calls[k + 1], views[k + 1], k)
      BY <1>1, <3>1 DEF Shows
    <3>3. d[k] = calls[k] /\ w[k] = views[k] /\ w[k + 1] = views[k + 1]
      BY <1>1, <1>3, <1>4, <1>5, <2>2
    <3>4. SameCall(d[k + 1], calls[k + 1])
      <4>1. CASE k + 1 = n
        BY <1>6, <4>1
      <4>2. CASE k + 1 # n
        <5>1. d[k + 1] = calls[k + 1]
          BY <1>1, <1>4, <1>5, <2>2, <4>2
        <5>. QED  BY <5>1 DEF SameCall
      <4>. QED  BY <4>1, <4>2
    <3>. QED  BY <3>2, <3>3, <3>4, Zenon DEF Link, SameCall, CloseOf
  <2>. QED  BY <2>1, <2>2
<1>9. Shows(w, d)
  <2>1. Len(d) - 1 = n /\ Len(d) = n + 1 /\ Len(d) > 0 /\ Len(w) = Len(d)
    BY <1>1, <1>3, <1>5
  <2>2. Fits(d[Len(d)], w[Len(d)], <<>>)
    BY <1>3, <1>5, <2>1
  <2>. QED  BY <1>3, <1>5, <1>7, <1>8, <2>1, <2>2 DEF Shows
<1>. QED  BY <1>2, <1>3, <1>5, <1>9 DEF Called

\* A block that was open is among those made.
LEMMA FitsMore ==
  ASSUME NEW call \in CallRecord, NEW view \in View, NEW block \in Written,
         Fits(call, view, <<block>>)
  PROVE  /\ [view EXCEPT !.made = Append(@, block)] \in View
         /\ SameView([view EXCEPT !.made = Append(@, block)], view)
         /\ [view EXCEPT !.made = Append(@, block)].made = Append(view.made, block)
         /\ Fits(call, [view EXCEPT !.made = Append(@, block)], <<>>)
<1>1. PICK made, more : /\ made = Append(view.made, block)
                        /\ more = [view EXCEPT !.made = made]
  OBVIOUS
<1>2. view.made \in Blocks /\ view.made \in Seq(Written)
  BY DEF View, Blocks
<1>3. made \in Blocks
  BY <1>1, <1>2, AppendProperties DEF Blocks
<1>4. more \in View /\ SameView(more, view) /\ more.made = made
  BY <1>1, <1>3 DEF View, SameView
<1>5. made \o <<>> = view.made \o <<block>>
  <2>1. made \o <<>> = made
    BY <1>3, ConcatEmptySeq DEF Blocks
  <2>2. made = view.made \o <<block>>
    BY <1>1, <1>2, AppendIsConcat
  <2>. QED  BY <2>1, <2>2
<1>6. Fits(call, more, <<>>)
  <2>1. CASE call.list
    BY <1>4, <1>5, <2>1, Zenon DEF Fits, ListFits, SameView
  <2>2. CASE ~call.list
    BY <1>4, <1>5, <2>2, Zenon DEF Fits, NodeFits, SameView
  <2>. QED  BY <2>1, <2>2
<1>7. [view EXCEPT !.made = Append(@, block)] = more
  BY <1>1
<1>. QED  BY <1>1, <1>4, <1>6, <1>7

\* The innermost call is over, and the one below it has a block more.
\* The innermost call is over, and the one below it has a block more.
Returned(views, calls, n, block, view) ==
  /\ Shows([SubSeq(views, 1, n - 1) EXCEPT ![n - 1] = view], SubSeq(calls, 1, n - 1))
  /\ Len(SubSeq(calls, 1, n - 1)) = n - 1
  /\ [SubSeq(views, 1, n - 1) EXCEPT ![n - 1] = view][n - 1] = view
  /\ SubSeq(calls, 1, n - 1)[n - 1] = calls[n - 1]
  /\ block \in Written /\ view \in View /\ SameView(view, views[n - 1])
  /\ view.made = Append(views[n - 1].made, block)

\* It shows the block of the call that is over.
LEMMA TopReturns ==
  ASSUME NEW views, NEW calls, Shows(views, calls), NEW n, n = Len(calls), n > 1,
         NEW block, block = Bracketed(views[n].head, views[n].all, CloseOf(calls[n])),
         NEW view, view = [views[n - 1] EXCEPT !.made = Append(@, block)]
  PROVE  Returned(views, calls, n, block, view)
<1>1. /\ n \in Nat \ {0} /\ calls \in Seq(CallRecord) /\ views \in Seq(View)
      /\ Len(views) = n /\ n = Len(calls) /\ n - 1 \in Nat \ {0}
      /\ \A k \in 1..n : calls[k] \in CallRecord /\ views[k] \in View
  BY ShowsFacts
<1>2. block \in Written
  <2>1. CloseOf(calls[n]) \in Pieces
    BY PieceTypes DEF CloseOf
  <2>2. views[n].head \in Seq(Pieces) /\ views[n].all \in Blocks
    BY <1>1 DEF View
  <2>. QED  BY <2>1, <2>2, BracketType
<1>3. Link(calls[n - 1], views[n - 1], calls[n], views[n], n - 1)
  <2>1. n - 1 \in 1..(n - 1) /\ (n - 1) + 1 = n
    BY <1>1
  <2>. QED  BY <1>1, <2>1 DEF Shows
<1>4. /\ view \in View /\ SameView(view, views[n - 1])
      /\ view.made = Append(views[n - 1].made, block)
      /\ Fits(calls[n - 1], view, <<>>)
  <2>1. Fits(calls[n - 1], views[n - 1], <<block>>)
    BY <1>3 DEF Link
  <2>2. n - 1 \in 1..n
    BY <1>1
  <2>. QED  BY <1>1, <1>2, <2>1, <2>2, FitsMore
<1>5. PICK u, w, d : /\ u = SubSeq(views, 1, n - 1) /\ w = [u EXCEPT ![n - 1] = view]
                     /\ d = SubSeq(calls, 1, n - 1)
  OBVIOUS
<1>6. /\ u \in Seq(View) /\ Len(u) = n - 1 /\ \A k \in 1..(n - 1) : u[k] = views[k]
      /\ d \in Seq(CallRecord) /\ Len(d) = n - 1 /\ \A k \in 1..(n - 1) : d[k] = calls[k]
  BY <1>1, <1>5, SubSeqProperties
<1>7. /\ w \in Seq(View) /\ Len(w) = n - 1
      /\ \A k \in 1..(n - 1) : w[k] = IF k = n - 1 THEN view ELSE u[k]
  <2>1. PICK m : m = n - 1
    OBVIOUS
  <2>2. m \in 1..Len(u) /\ Len(u) = m /\ w = [u EXCEPT ![m] = view] /\ u \in Seq(View)
    BY <1>1, <1>5, <1>6, <2>1
  <2>3. view \in View
    BY <1>4
  <2>4. /\ w \in Seq(View) /\ Len(w) = m
        /\ \A k \in 1..m : w[k] = IF k = m THEN view ELSE u[k]
    BY <2>2, <2>3, ExceptSeq
  <2>. QED  BY <2>1, <2>4
<1>8. w[n - 1] = view /\ d[n - 1] = calls[n - 1]
  <2>1. n - 1 \in 1..(n - 1)
    BY <1>1
  <2>. QED  BY <1>6, <1>7, <2>1
<1>9. ASSUME NEW k \in 1..(n - 1)
      PROVE  SameView(w[k], views[k])
  <2>1. CASE k = n - 1
    BY <1>4, <1>8, <2>1
  <2>2. CASE k # n - 1
    <3>1. w[k] = views[k]
      BY <1>6, <1>7, <2>2
    <3>. QED  BY <3>1 DEF SameView
  <2>. QED  BY <2>1, <2>2
<1>10. Root(d[1], w[1])
  <2>1. Root(calls[1], views[1]) /\ d[1] = calls[1] /\ SameView(w[1], views[1])
    BY <1>1, <1>6, <1>9 DEF Shows
  <2>. QED  BY <2>1 DEF Root, SameView
<1>11. ASSUME NEW k \in 1..((n - 1) - 1)
       PROVE  Link(d[k], w[k], d[k + 1], w[k + 1], k)
  <2>1. k \in 1..(n - 1) /\ k + 1 \in 1..(n - 1) /\ k # n - 1
    BY <1>1
  <2>2. Link(calls[k], views[k], calls[k + 1], views[k + 1], k)
    BY <1>1, <2>1 DEF Shows
  <2>3. d[k] = calls[k] /\ d[k + 1] = calls[k + 1] /\ w[k] = views[k]
    BY <1>6, <1>7, <2>1
  <2>4. SameView(w[k + 1], views[k + 1])
    BY <1>9, <2>1
  <2>. QED  BY <2>2, <2>3, <2>4, Zenon DEF Link, SameView
<1>12. Shows(w, d)
  <2>1. Len(d) = n - 1 /\ Len(w) = Len(d) /\ Len(d) > 0
    BY <1>1, <1>6, <1>7
  <2>2. Fits(d[Len(d)], w[Len(d)], <<>>)
    BY <1>4, <1>8, <2>1
  <2>. QED  BY <1>6, <1>7, <1>10, <1>11, <2>1, <2>2 DEF Shows
<1>. QED  BY <1>2, <1>4, <1>5, <1>6, <1>8, <1>12 DEF Returned

-----------------------------------------------------------------------------
(* What is left to print                                                   *)

\* What is left of a sequence: nothing, or its next element and the others.
LEMMA RestOf ==
  ASSUME NEW S, NEW s \in Seq(S), NEW n \in 0..Len(s), NEW rest,
         rest = SubSeq(s, n + 1, Len(s))
  PROVE  /\ rest \in Seq(S) /\ (rest = <<>> => n = Len(s))
         /\ rest # <<>> => /\ n + 1 \in 1..Len(s) /\ n + 1 \in 0..Len(s)
                           /\ Head(rest) = s[n + 1] /\ Head(rest) \in S
                           /\ Tail(rest) = SubSeq(s, (n + 1) + 1, Len(s))
                           /\ Tail(rest) \in Seq(S)
<1>1. Len(s) \in Nat /\ n \in Nat /\ n <= Len(s)
  BY LenProperties
<1>2. /\ rest \in Seq(S) /\ Len(rest) = Len(s) - n
      /\ \A i \in 1..(Len(s) - n) : rest[i] = s[i + n]
  <2>1. n + 1 \in 1..(Len(s) + 1) /\ Len(s) \in n..Len(s)
    BY <1>1
  <2>. QED  BY <1>1, <2>1
<1>3. ASSUME rest = <<>>
      PROVE  n = Len(s)
  <2>1. Len(<<>>) = 0
    OBVIOUS
  <2>2. Len(rest) = 0
    BY <1>3, <2>1, Zenon
  <2>. QED  BY <1>1, <1>2, <2>2
<1>4. ASSUME rest # <<>>
      PROVE  /\ n + 1 \in 1..Len(s) /\ n + 1 \in 0..Len(s)
             /\ Head(rest) = s[n + 1] /\ Head(rest) \in S
             /\ Tail(rest) = SubSeq(s, (n + 1) + 1, Len(s))
             /\ Tail(rest) \in Seq(S)
  <2>1. Len(rest) > 0 /\ n + 1 \in 1..Len(s) /\ n + 1 \in 0..Len(s)
    BY <1>1, <1>2, <1>4, EmptySeq
  <2>2. /\ Head(rest) = rest[1] /\ Head(rest) \in S /\ Tail(rest) \in Seq(S)
        /\ Len(Tail(rest)) = Len(rest) - 1
        /\ \A i \in 1..(Len(rest) - 1) : Tail(rest)[i] = rest[i + 1]
    BY <1>2, <1>4, HeadTailProperties
  <2>3. Head(rest) = s[n + 1]
    BY <1>1, <1>2, <2>1, <2>2
  <2>4. PICK r, t : r = SubSeq(s, (n + 1) + 1, Len(s)) /\ t = Tail(rest)
    OBVIOUS
  <2>5. /\ r \in Seq(S) /\ Len(r) = Len(s) - (n + 1)
        /\ \A i \in 1..(Len(s) - (n + 1)) : r[i] = s[i + (n + 1)]
    <3>1. PICK m \in Nat : m = n + 1
      BY <1>1
    <3>2. m + 1 \in 1..(Len(s) + 1) /\ Len(s) \in m..Len(s)
      BY <1>1, <2>1, <3>1
    <3>3. SubSeq(s, m + 1, Len(s)) \in Seq(S) /\ Len(SubSeq(s, m + 1, Len(s))) = Len(s) - m
      BY <1>1, <3>2
    <3>4. \A i \in 1..(Len(s) - m) : SubSeq(s, m + 1, Len(s))[i] = s[i + m]
      BY <1>1, <3>2
    <3>. QED  BY <2>4, <3>1, <3>3, <3>4
  <2>6. t \in Seq(S) /\ Len(t) = Len(r)
    BY <1>1, <1>2, <2>2, <2>4, <2>5
  <2>7. ASSUME NEW i \in 1..Len(r)
        PROVE  t[i] = r[i]
    <3>1. i \in 1..(Len(rest) - 1) /\ i + 1 \in 1..(Len(s) - n)
          /\ i \in 1..(Len(s) - (n + 1)) /\ (i + 1) + n = i + (n + 1)
      BY <1>1, <1>2, <2>1, <2>5
    <3>. QED  BY <1>2, <2>2, <2>4, <2>5, <3>1
  <2>8. t = r
    BY <2>5, <2>6, <2>7, SeqEqual
  <2>. QED  BY <2>1, <2>2, <2>3, <2>4, <2>8
<1>. QED  BY <1>2, <1>3, <1>4

\* What is printed of a field.
FieldText(id, name) == IF IsNumber(id) THEN <<>> ELSE BlockOf(Tree, id, name)

\* With the field a node is at printed, the rest is what is left to print.
FieldDone(call, view, name, more) ==
  /\ name \in STRING /\ more \in CallRecord /\ SameCall(more, call) /\ call.node \in NodeIds
  /\ FieldText(call.node, name) \in Blocks
  /\ IsNumber(call.node) => name = "value" /\ more.names = <<>>
  /\ \A other, open :
       other.all = view.all /\ other.made \o open = view.made \o FieldText(call.node, name)
         => NodeFits(more, other, open)

\* A field, printed or not, is one field more.
LEMMA FieldFits ==
  ASSUME Grown, NEW call \in CallRecord, NEW view \in View, ~call.list, call.names # <<>>,
         NodeFits(call, view, <<>>),
         NEW name, name = Head(call.names),
         NEW more, more = [call EXCEPT !.names = Tail(@)]
  PROVE  FieldDone(call, view, name, more)
<1>1. PICK id, names : id = call.node /\ names = Names(id)
  OBVIOUS
<1>2. /\ id \in NodeIds /\ call.names \in Seq(STRING)
      /\ view.made \in Blocks /\ call.ids \in Seq(NodeIds)
  BY <1>1 DEF CallRecord, View
<1>3. names \in Seq(STRING) /\ (IsNumber(id) => names = <<"value">>)
  BY <1>1, <1>2, NameFacts
<1>4. PICK n \in 0..Len(names) : /\ call.names = SubSeq(names, n + 1, Len(names))
                                 /\ view.made \o <<>> = UpTo(id, n)
  BY <1>1 DEF NodeFits
<1>5. /\ n + 1 \in 1..Len(names) /\ n + 1 \in 0..Len(names)
      /\ name = names[n + 1] /\ name \in STRING
      /\ Tail(call.names) = SubSeq(names, (n + 1) + 1, Len(names))
      /\ Tail(call.names) \in Seq(STRING)
  <2>1. PICK rest : rest = call.names
    OBVIOUS
  <2>2. rest # <<>> /\ rest = SubSeq(names, n + 1, Len(names)) /\ name = Head(rest)
    BY <1>4, <2>1
  <2>3. /\ n + 1 \in 1..Len(names) /\ n + 1 \in 0..Len(names)
        /\ Head(rest) = names[n + 1] /\ Head(rest) \in STRING
        /\ Tail(rest) = SubSeq(names, (n + 1) + 1, Len(names))
        /\ Tail(rest) \in Seq(STRING)
    <3>1. names \in Seq(STRING)
      BY <1>3
    <3>. QED  BY <2>2, <3>1, RestOf
  <2>. QED  BY <2>1, <2>2, <2>3
<1>6. /\ more \in CallRecord /\ SameCall(more, call)
      /\ more.names = Tail(call.names) /\ more.node = id
  BY <1>1, <1>5 DEF CallRecord, SameCall
<1>7. view.made = UpTo(id, n)
  BY <1>2, <1>4, ConcatEmptySeq DEF Blocks
<1>8. FieldBlock(id, n + 1) = FieldText(id, name)
  BY <1>1, <1>5 DEF FieldBlock, FieldText
<1>9. FieldText(id, name) \in Blocks /\ UpTo(id, n + 1) = UpTo(id, n) \o FieldText(id, name)
  <2>1. \A j \in 1..(id - 1) : Tree[j] \in Written
    BY <1>2, TreeText
  <2>2. n \in 0..Len(Names(id)) /\ n < Len(Names(id))
    <3>1. Len(names) \in Nat
      BY <1>3, LenProperties
    <3>. QED  BY <1>1, <1>5, <3>1
  <2>3. FieldBlock(id, n + 1) \in Blocks /\ UpTo(id, n + 1) = UpTo(id, n) \o FieldBlock(id, n + 1)
    BY <1>2, <2>1, <2>2, UpToType
  <2>. QED  BY <1>8, <2>3
<1>10. ASSUME IsNumber(id)
       PROVE  name = "value" /\ more.names = <<>>
  <2>1. names[1] = "value" /\ Len(names) = 1
    BY <1>3, <1>10
  <2>2. n + 1 = 1
    BY <1>5, <2>1
  <2>3. name = "value"
    BY <1>5, <2>1, <2>2
  <2>4. SubSeq(names, 2, 1) = <<>>
    BY <1>3
  <2>5. more.names = SubSeq(names, (n + 1) + 1, Len(names)) /\ (n + 1) + 1 = 2
    <3>1. (n + 1) + 1 = 2
      BY <2>2
    <3>. QED  BY <1>5, <1>6, <3>1, Zenon
  <2>. QED  BY <2>1, <2>3, <2>4, <2>5
<1>11. ASSUME NEW other, NEW open, other.all = view.all,
              other.made \o open = view.made \o FieldText(id, name)
       PROVE  NodeFits(more, other, open)
  <2>1. other.made \o open = UpTo(id, n + 1)
    BY <1>7, <1>9, <1>11
  <2>2. other.all = InsideOf(id)
    BY <1>1, <1>11 DEF NodeFits
  <2>3. more.names = SubSeq(Names(id), (n + 1) + 1, Len(Names(id))) /\ n + 1 \in 0..Len(Names(id))
    BY <1>1, <1>5, <1>6
  <2>. QED  BY <1>6, <2>1, <2>2, <2>3, Zenon DEF NodeFits
<1>. QED  BY <1>1, <1>2, <1>5, <1>6, <1>9, <1>10, <1>11, Zenon DEF FieldDone

\* The item that a list is at is the next one of its blocks.
LEMMA ItemFits ==
  ASSUME Grown, NEW call \in CallRecord, NEW view \in View, call.list, call.ids # <<>>,
         ListFits(call, view, <<>>),
         NEW id, id = Head(call.ids),
         NEW more, more = [call EXCEPT !.ids = Tail(@)]
  PROVE  /\ id \in NodeIds /\ more \in CallRecord /\ SameCall(more, call)
         /\ ListFits(more, view, <<Tree[id]>>)
<1>1. PICK held \in Seq(NodeIds) :
        /\ \E n \in 0..Len(held) : /\ call.ids = SubSeq(held, n + 1, Len(held))
                                   /\ view.made \o <<>> = Items(held, n)
        /\ view.all = Items(held, Len(held))
  BY DEF ListFits
<1>2. PICK n \in 0..Len(held) : /\ call.ids = SubSeq(held, n + 1, Len(held))
                                /\ view.made \o <<>> = Items(held, n)
  BY <1>1
<1>3. /\ n + 1 \in 1..Len(held) /\ n + 1 \in 0..Len(held)
      /\ id = held[n + 1] /\ id \in NodeIds
      /\ Tail(call.ids) = SubSeq(held, (n + 1) + 1, Len(held))
      /\ Tail(call.ids) \in Seq(NodeIds)
  <2>1. PICK rest : rest = call.ids
    OBVIOUS
  <2>2. rest # <<>> /\ rest = SubSeq(held, n + 1, Len(held)) /\ id = Head(rest)
    BY <1>2, <2>1
  <2>3. /\ n + 1 \in 1..Len(held) /\ n + 1 \in 0..Len(held)
        /\ Head(rest) = held[n + 1] /\ Head(rest) \in NodeIds
        /\ Tail(rest) = SubSeq(held, (n + 1) + 1, Len(held))
        /\ Tail(rest) \in Seq(NodeIds)
    BY <2>2, RestOf
  <2>. QED  BY <2>1, <2>2, <2>3
<1>4. more \in CallRecord /\ SameCall(more, call) /\ more.ids = Tail(call.ids)
  BY <1>3 DEF CallRecord, SameCall
<1>5. view.made \in Blocks
  BY DEF View
<1>6. view.made = Items(held, n)
  BY <1>2, <1>5, ConcatEmptySeq DEF Blocks
<1>7. \A i \in 1..(n + 1) : Tree[held[i]] \in Written
  <2>1. Len(held) \in Nat
    BY LenProperties
  <2>2. \A i \in 1..(n + 1) : i \in 1..Len(held)
    BY <1>3, <2>1
  <2>3. \A i \in 1..Len(held) : held[i] \in NodeIds
    BY ElementOfSeq
  <2>. QED  BY <2>2, <2>3, TreeText
<1>8. Items(held, n + 1) = view.made \o <<Tree[id]>>
  <2>1. n \in Nat /\ Len(held) \in Nat
    BY LenProperties
  <2>2. Items(held, n + 1) = Append(view.made, Tree[id])
    BY <1>3, <1>6, <1>7, <2>1, ItemsMore
  <2>3. Tree[id] \in Written
    BY <1>3, TreeText
  <2>. QED  BY <1>5, <2>2, <2>3, AppendIsConcat DEF Blocks
<1>9. more.ids = SubSeq(held, (n + 1) + 1, Len(held))
  BY <1>3, <1>4
<1>10. ListFits(more, view, <<Tree[id]>>)
  BY <1>1, <1>3, <1>8, <1>9, Zenon DEF ListFits
<1>. QED  BY <1>3, <1>4, <1>10

-----------------------------------------------------------------------------
(* Lines                                                                   *)

\* open_line() behind these blocks.
LEMMA OpenedIs ==
  ASSUME NEW page \in Written, NEW blocks \in Blocks, NEW n \in Nat
  PROVE  /\ Begun(page, blocks) \in Written
         /\ OpenLine(page, Len(blocks) > 0, n) = Begun(page, blocks) \o LineOf(n, <<>>)
<1>1. Begun(page, blocks) \in Written
  BY WriteParts, PieceComma DEF Begun
<1>2. PICK p, line : p = Begun(page, blocks) /\ line = [indent |-> n, words |-> <<>>]
  OBVIOUS
<1>3. Len(blocks) > 0 <=> blocks # <<>>
  BY EmptySeq DEF Blocks
<1>4. OpenLine(page, Len(blocks) > 0, n) = Append(p, line)
  BY <1>2, <1>3, Zenon DEF OpenLine, Begun, Comma
<1>5. Append(p, line) = p \o <<line>>
  <2>1. line \in PageLine
    BY <1>2 DEF PageLine
  <2>2. p \in Seq(PageLine)
    BY <1>1, <1>2 DEF Written, Page
  <2>. QED  BY <2>1, <2>2, AppendIsConcat
<1>. QED  BY <1>1, <1>2, <1>4, <1>5 DEF LineOf

\* A word on the last line.
LEMMA WriteOnLine ==
  ASSUME NEW page \in Page, NEW n \in Nat, NEW words \in Seq(Pieces), NEW word \in Pieces
  PROVE  /\ Append(words, word) \in Seq(Pieces)
         /\ page \o LineOf(n, words) \in Written
         /\ Write(page \o LineOf(n, words), word) = page \o LineOf(n, Append(words, word))
         /\ Write(page \o LineOf(n, words), word) \in Written
<1>1. PICK line, more : line = LineOf(n, words) /\ more = Append(words, word)
  OBVIOUS
<1>2. line \in Written /\ more \in Seq(Pieces) /\ Write(line, word) = LineOf(n, more)
  BY <1>1, WriteLine
<1>3. LineOf(n, more) \in Written
  BY <1>2, OneRow DEF LineOf
<1>4. page \o line \in Written /\ page \o LineOf(n, more) \in Written
  BY <1>2, <1>3, PagesJoined DEF Written
<1>5. Write(page \o line, word) = page \o Write(line, word)
  BY <1>2, WriteBehind
<1>. QED  BY <1>1, <1>2, <1>4, <1>5

\* The end of a call: closing bracket on a line of its own, if there are others.
LEMMA ClosedIs ==
  ASSUME NEW page \in Written, NEW blocks \in Blocks, NEW n \in Nat, NEW close \in Pieces
  PROVE  Write(IF Len(blocks) > 0 THEN OpenLine(page, FALSE, n) ELSE page, close) =
           ClosedBy(page, n, blocks, close)
<1>1. Len(blocks) > 0 <=> blocks # <<>>
  BY EmptySeq DEF Blocks
<1>2. CASE blocks = <<>>
  BY <1>1, <1>2 DEF ClosedBy
<1>3. CASE blocks # <<>>
  <2>1. OpenLine(page, FALSE, n) = page \o LineOf(n, <<>>)
    <3>1. PICK line : line = [indent |-> n, words |-> <<>>]
      OBVIOUS
    <3>2. line \in PageLine /\ page \in Seq(PageLine)
      BY <3>1 DEF PageLine, Written, Page
    <3>3. Append(page, line) = page \o <<line>>
      BY <3>2, AppendIsConcat
    <3>. QED  BY <3>1, <3>3, Zenon DEF OpenLine, LineOf
  <2>2. Write(page \o LineOf(n, <<>>), close) = page \o LineOf(n, Append(<<>>, close))
    <3>1. PICK words : words = <<>> /\ words \in Seq(Pieces)
      BY EmptySeq
    <3>2. page \in Page
      BY DEF Written
    <3>3. Write(page \o LineOf(n, words), close) = page \o LineOf(n, Append(words, close))
      BY <3>1, <3>2, WriteOnLine
    <3>. QED  BY <3>1, <3>3
  <2>3. Append(<<>>, close) = <<close>>
    OBVIOUS
  <2>. QED  BY <1>1, <1>3, <2>1, <2>2, <2>3 DEF ClosedBy
<1>. QED  BY <1>2, <1>3

\* The beginning of format_node.
NodeOpened(id, page, n, words) ==
  LET text == Write(page \o LineOf(n, words), NodeWord(nodes[id].type))
      head == words \o Head1(id)
  IN  /\ text \in Written /\ head \in Seq(Pieces)
      /\ page \o LineOf(n, head) = IF IsNumber(id) THEN Write(text, Label("value")) ELSE text

\* It is on the line of the words before it.
LEMMA NodeBegins ==
  ASSUME Grown, NEW id \in NodeIds, NEW page \in Page, NEW n \in Nat, NEW words \in Seq(Pieces)
  PROVE  NodeOpened(id, page, n, words)
<1>0. PICK text, head : /\ text = Write(page \o LineOf(n, words), NodeWord(nodes[id].type))
                        /\ head = words \o Head1(id)
  OBVIOUS
<1>1. PICK word, more : word = NodeWord(nodes[id].type) /\ more = Append(words, word)
  OBVIOUS
<1>2. word \in Pieces
  BY <1>1, PieceTypes DEF Grown, NodesTyped
<1>3. /\ more \in Seq(Pieces) /\ text \in Written /\ text = page \o LineOf(n, more)
  BY <1>0, <1>1, <1>2, WriteOnLine
<1>4. Head1(id) \in Seq(Pieces)
  BY HeadType
<1>5. head \in Seq(Pieces)
  BY <1>0, <1>4, ConcatProperties
<1>6. more = words \o <<word>>
  BY <1>1, <1>2, AppendIsConcat
<1>7. ASSUME IsNumber(id)
      PROVE  page \o LineOf(n, head) = Write(text, Label("value"))
  <2>1. PICK label : label = Label("value")
    OBVIOUS
  <2>2. Head1(id) = <<word, label>>
    BY <1>1, <1>7, <2>1, Zenon DEF Head1
  <2>3. label \in Pieces /\ <<word>> \in Seq(Pieces) /\ <<label>> \in Seq(Pieces)
    <3>1. <<word, label>> \in Seq(Pieces)
      BY <1>4, <2>2
    <3>2. <<word, label>>[2] \in Pieces
      BY <3>1
    <3>. QED  BY <1>2, <3>2
  <2>4. Append(more, label) = head
    <3>1. Append(more, label) = (words \o <<word>>) \o <<label>>
      BY <1>3, <1>6, <2>3, AppendIsConcat
    <3>2. (words \o <<word>>) \o <<label>> = words \o (<<word>> \o <<label>>)
      BY <2>3, ConcatAssociative
    <3>3. <<word>> \o <<label>> = <<word, label>>
      <4>1. <<word, label>> = Append(<<word>>, label)
        OBVIOUS
      <4>2. Append(<<word>>, label) = <<word>> \o <<label>>
        BY <2>3, AppendIsConcat
      <4>. QED  BY <4>1, <4>2
    <3>. QED  BY <1>0, <2>2, <3>1, <3>2, <3>3
  <2>5. Write(page \o LineOf(n, more), label) = page \o LineOf(n, Append(more, label))
    BY <1>3, <2>3, WriteOnLine
  <2>. QED  BY <1>3, <1>5, <1>7, <2>1, <2>4, <2>5
<1>8. ASSUME ~IsNumber(id)
      PROVE  page \o LineOf(n, head) = text
  <2>1. Head1(id) = <<word>>
    BY <1>1, <1>8, Zenon DEF Head1
  <2>. QED  BY <1>0, <1>3, <1>5, <1>6, <1>8, <2>1
<1>9. page \o LineOf(n, head) = IF IsNumber(id) THEN Write(text, Label("value")) ELSE text
  BY <1>7, <1>8
<1>. QED  BY <1>0, <1>3, <1>5, <1>9, Zenon DEF NodeOpened

-----------------------------------------------------------------------------
(* The steps of the formatter                                              *)

\* What has been written is what the calls in progress have to have written.
Progress(text, count, blanks, calls) ==
  \E views : /\ Shows(views, calls)
             /\ Tops(text, count, blanks, calls[Len(calls)], views[Len(calls)], Len(calls))

\* The innermost call of the formatter, and what it has printed.
LEMMA TopCall ==
  ASSUME NEW views, Shows(views, printing), NEW n, n = Len(printing)
  PROVE  /\ n \in Nat \ {0} /\ Printer = printing[n] /\ Printer \in CallRecord
         /\ views[n] \in View /\ views[n].made \in Blocks /\ views[n].all \in Blocks
         /\ views[n].base \in Written /\ views[n].head \in Seq(Pieces)
         /\ Fits(Printer, views[n], <<>>)
<1>1. n \in Nat \ {0} /\ printing[n] \in CallRecord /\ views[n] \in View
  BY ShowsFacts
<1>2. Fits(printing[n], views[n], <<>>)
  BY DEF Shows
<1>. QED  BY <1>1, <1>2 DEF Printer, View

\* A field of which nothing is printed, and the value of a number.
LEMMA StepOver ==
  ASSUME NEW views, Shows(views, printing), NEW n, n = Len(printing),
         NEW more \in CallRecord, SameCall(more, Printer), Fits(more, views[n], <<>>),
         ~ValueToCome(more),
         NEW text \in Written, text = On(views[n].base, n, views[n].made),
         fields_printed = Len(views[n].made), indent = 2 * n
  PROVE  Progress(text, fields_printed, indent, [printing EXCEPT ![n] = more])
<1>1. n \in Nat \ {0} /\ Printer = printing[n] /\ views[n] \in View
  BY TopCall
<1>2. PICK calls, view, w, d :
        /\ calls = printing /\ view = views[n]
        /\ w = [views EXCEPT ![n] = view] /\ d = [calls EXCEPT ![n] = more]
  OBVIOUS
<1>3. /\ SameView(view, views[n]) /\ SameCall(more, calls[n]) /\ view \in View
      /\ Shows(views, calls) /\ n = Len(calls) /\ Fits(more, view, <<>>)
  BY <1>1, <1>2 DEF SameView
<1>4. Shows(w, d) /\ Len(d) = n /\ w[n] = views[n] /\ d[n] = more
  <2>1. Advanced(views, calls, n, more, view)
    BY <1>3, TopAdvances
  <2>. QED  BY <1>2, <2>1 DEF Advanced
<1>5. Tops(text, fields_printed, indent, d[n], w[n], n)
  BY <1>4 DEF Tops
<1>. QED  BY <1>2, <1>4, <1>5 DEF Progress

\* A call begins in the innermost one.
LEMMA StepInto ==
  ASSUME NEW views, Shows(views, printing), NEW n, n = Len(printing),
         Tops(out, fields_printed, indent, Printer, views[n], n), ~ValueToCome(Printer),
         NEW more \in CallRecord, SameCall(more, Printer), more.list \/ ~IsNumber(more.node),
         NEW next \in CallRecord, next.saved = fields_printed + 1,
         NEW head \in Seq(Pieces), NEW all \in Blocks,
         NEW block, block = Bracketed(head, all, CloseOf(next)), Fits(more, views[n], <<block>>),
         \A view : view.made = <<>> /\ view.all = all => Fits(next, view, <<>>),
         NEW text \in Written,
         Begun(out, views[n].made) \o LineOf(indent, head) =
           IF ValueToCome(next) THEN Write(text, Label("value")) ELSE text
  PROVE  Progress(text, 0, indent + 2, Append([printing EXCEPT ![n] = more], next))
<1>1. /\ n \in Nat \ {0} /\ Printer = printing[n] /\ views[n] \in View
      /\ views[n].made \in Blocks /\ views[n].base \in Written
  BY TopCall
<1>2. /\ fields_printed = Len(views[n].made) /\ indent = 2 * n
      /\ out = On(views[n].base, n, views[n].made)
  BY DEF Tops
<1>3. PICK base : base = Begun(out, views[n].made) \o LineOf(indent, head)
  OBVIOUS
<1>4. base \in Written
  <2>1. PICK page : page = Begun(out, views[n].made)
    OBVIOUS
  <2>2. page \in Written
    BY <1>1, <1>2, <2>1, OnType
  <2>3. LineOf(indent, head) \in Written
    BY <1>1, <1>2, WriteLine, PieceComma
  <2>. QED  BY <1>3, <2>1, <2>2, <2>3, PagesJoined DEF Written
<1>5. PICK inner : inner = [base |-> base, head |-> head, made |-> <<>>, all |-> all]
  OBVIOUS
<1>6. /\ inner \in View /\ inner.base = base /\ inner.head = head /\ inner.made = <<>>
      /\ inner.all = all
  <2>1. <<>> \in Blocks
    BY DEF Blocks
  <2>. QED  BY <1>4, <1>5, <2>1 DEF View
<1>7. Link(more, views[n], next, inner, n)
  BY <1>2, <1>3, <1>6 DEF Link
<1>8. Fits(next, inner, <<>>)
  BY <1>6
<1>9. PICK calls, w, d : /\ calls = printing /\ w = Append(views, inner)
                         /\ d = Append([calls EXCEPT ![n] = more], next)
  OBVIOUS
<1>10. Shows(w, d) /\ Len(d) = n + 1 /\ w[n + 1] = inner /\ d[n + 1] = next
  <2>1. /\ Shows(views, calls) /\ n = Len(calls) /\ SameCall(more, calls[n])
        /\ inner \in View
    BY <1>1, <1>6, <1>9
  <2>2. Called(views, calls, n, more, next, inner)
    BY <1>7, <1>8, <2>1, TopCalls
  <2>. QED  BY <1>9, <2>2 DEF Called
<1>11. Tops(text, 0, indent + 2, next, inner, n + 1)
  <2>1. n + 1 \in Nat /\ indent + 2 = 2 * (n + 1)
    BY <1>1, <1>2
  <2>2. <<>> \in Blocks /\ Len(<<>>) = 0
    BY DEF Blocks
  <2>3. On(base, n + 1, <<>>) = base
    BY <1>4, <2>1, <2>2, OnType
  <2>. QED  BY <1>3, <1>6, <2>1, <2>2, <2>3 DEF Tops
<1>. QED  BY <1>9, <1>10, <1>11 DEF Progress

\* The value of a number is always printed, behind its parenthesis.
LEMMA NumberValue ==
  ASSUME Grown, NEW id \in NodeIds, IsNumber(id)
  PROVE  IsValue(id, "value") /\ ValueShown(id, "value") /\ OnLineOfNode(id, "value")
<1>1. NodeStructs[nodes[id].type] = <<Value("value")>>
  BY PrintedAssumption DEF Grown, NodesTyped, IsNumber
<1>2. PICK field : field = Value("value")
  OBVIOUS
<1>3. field.name = "value" /\ field.holds = "value"
  BY <1>2 DEF Value
<1>4. Range(NodeStructs[nodes[id].type]) = {field}
  <2>1. DOMAIN <<field>> = {1} /\ <<field>>[1] = field
    OBVIOUS
  <2>2. Range(<<field>>) = {field}
    BY <2>1 DEF Range
  <2>. QED  BY <1>1, <1>2, <2>2
<1>5. FieldOf(nodes[id].type, "value") = field
  <2>1. \E x \in {field} : x.name = "value"
    BY <1>3
  <2>2. (CHOOSE x \in {field} : x.name = "value") \in {field}
    BY <2>1, Zenon
  <2>3. FieldOf(nodes[id].type, "value") \in {field}
    BY <1>4, <2>2, Zenon DEF FieldOf
  <2>. QED  BY <2>3
<1>6. IsValue(id, "value")
  BY <1>3, <1>5 DEF IsValue
<1>7. ValueShown(id, "value")
  <2>1. "value" # "infer_size" /\ "value" # "is_const" /\ "value" # "kind"
    OBVIOUS
  <2>. QED  BY <2>1, Zenon DEF ValueShown
<1>8. OnLineOfNode(id, "value")
  BY DEF OnLineOfNode, IsNumber
<1>. QED  BY <1>6, <1>7, <1>8

\* Going on to the next field.
LEMMA NextFieldIs ==
  ASSUME NEW views, Shows(views, printing), NEW n, n = Len(printing), InNode,
         NEW more, more = [Printer EXCEPT !.names = Tail(@)]
  PROVE  /\ NextField = [printing EXCEPT ![n] = more]
         /\ ~Printer.list /\ Printer.names # <<>> /\ NodeFits(Printer, views[n], <<>>)
<1>1. /\ n \in Nat \ {0} /\ Printer = printing[n] /\ Printer \in CallRecord
      /\ Fits(Printer, views[n], <<>>)
  BY TopCall
<1>2. ~Printer.list /\ Printer.names # <<>>
  BY DEF InNode
<1>3. NextField = [printing EXCEPT ![n] = more]
  BY <1>1 DEF NextField
<1>. QED  BY <1>1, <1>2, <1>3 DEF Fits

\* print_text_field and its like.
LEMMA PrintsValue ==
  ASSUME Grown, NEW views, Shows(views, printing), NEW n, n = Len(printing),
         Tops(out, fields_printed, indent, Printer, views[n], n), PrintValue
  PROVE  Progress(out', fields_printed', indent', printing')
<1>1. PICK view, name, id, more :
        /\ view = views[n] /\ name = FieldName /\ id = Printer.node
        /\ more = [Printer EXCEPT !.names = Tail(@)]
  OBVIOUS
<1>2. /\ n \in Nat \ {0} /\ Printer = printing[n] /\ Printer \in CallRecord
      /\ view \in View /\ view.made \in Blocks /\ view.base \in Written
  BY <1>1, TopCall
<1>3. /\ NextField = [printing EXCEPT ![n] = more]
      /\ ~Printer.list /\ Printer.names # <<>> /\ NodeFits(Printer, view, <<>>)
  BY <1>1, NextFieldIs DEF PrintValue
<1>4. /\ name \in STRING /\ more \in CallRecord /\ SameCall(more, Printer) /\ id \in NodeIds
      /\ FieldText(id, name) \in Blocks
      /\ IsNumber(id) => name = "value" /\ more.names = <<>>
      /\ \A other, open :
           other.all = view.all /\ other.made \o open = view.made \o FieldText(id, name)
             => NodeFits(more, other, open)
  <2>1. name = Head(Printer.names)
    BY <1>1 DEF FieldName
  <2>2. FieldDone(Printer, view, name, more)
    BY <1>1, <1>2, <1>3, <2>1, FieldFits
  <2>. QED  BY <1>1, <2>2, Zenon DEF FieldDone
<1>5. /\ fields_printed = Len(view.made) /\ indent = 2 * n /\ out \in Written
      /\ On(view.base, n, view.made) =
           IF ValueToCome(Printer) THEN Write(out, Label("value")) ELSE out
  BY <1>1 DEF Tops
<1>6. /\ printing' = [printing EXCEPT ![n] = more] /\ indent' = indent
      /\ IsValue(id, name) /\ ~more.list /\ more.node = id
  BY <1>1, <1>3, <1>4 DEF PrintValue, SameCall
<1>7. CASE FieldText(id, name) = <<>> /\ out' = On(view.base, n, view.made)
           /\ fields_printed' = fields_printed /\ ~ValueToCome(more)
  <2>1. NodeFits(more, view, <<>>)
    BY <1>4, <1>7
  <2>2. Fits(more, view, <<>>)
    BY <1>6, <2>1 DEF Fits
  <2>3. out' \in Written
    BY <1>2, <1>7, OnType
  <2>4. PICK text : text = out'
    OBVIOUS
  <2>5. Progress(text, fields_printed, indent, [printing EXCEPT ![n] = more])
    BY <1>1, <1>4, <1>5, <1>7, <2>2, <2>3, <2>4, StepOver
  <2>. QED  BY <1>6, <1>7, <2>4, <2>5
<1>8. CASE IsNumber(id)
  <2>1. name = "value" /\ more.names = <<>>
    BY <1>4, <1>8
  <2>2. ValueShown(id, name) /\ OnLineOfNode(id, name)
    BY <1>4, <1>8, <2>1, NumberValue
  <2>3. out' = Write(out, Label(name)) /\ fields_printed' = fields_printed
    BY <1>1, <2>2 DEF PrintValue
  <2>4. ValueToCome(Printer) /\ ~ValueToCome(more)
    BY <1>1, <1>3, <1>8, <2>1 DEF ValueToCome
  <2>5. FieldText(id, name) = <<>>
    BY <1>8 DEF FieldText
  <2>6. out' = On(view.base, n, view.made)
    BY <1>5, <2>1, <2>3, <2>4
  <2>. QED  BY <1>7, <2>3, <2>4, <2>5, <2>6
<1>9. CASE ~IsNumber(id)
  <2>1. ~OnLineOfNode(id, name)
    BY <1>9 DEF OnLineOfNode, IsNumber
  <2>2. ~ValueToCome(Printer) /\ ~ValueToCome(more)
    BY <1>1, <1>6, <1>9 DEF ValueToCome
  <2>3. out = On(view.base, n, view.made)
    BY <1>5, <2>2
  <2>4. FieldText(id, name) =
          IF ValueShown(id, name) THEN <<LineOf(0, <<Label(name)>>)>> ELSE <<>>
    <3>1. \A j \in 1..(id - 1) : Tree[j] \in Written
      BY <1>4, TreeText
    <3>2. IsValue(id, name) => BlockOf(Tree, id, name) =
            IF ValueShown(id, name) THEN <<LineOf(0, <<Label(name)>>)>> ELSE <<>>
      BY <1>4, <3>1, BlockType
    <3>. QED  BY <1>6, <1>9, <3>2 DEF FieldText
  <2>5. CASE ~ValueShown(id, name)
    <3>1. out' = out /\ fields_printed' = fields_printed
      BY <1>1, <2>1, <2>5 DEF PrintValue
    <3>. QED  BY <1>7, <2>2, <2>3, <2>4, <2>5, <3>1
  <2>6. CASE ValueShown(id, name)
    <3>1. PICK words, line, other : /\ words = <<Label(name)>> /\ line = LineOf(0, words)
                                    /\ other = [view EXCEPT !.made = Append(@, line)]
      OBVIOUS
    <3>2. Label(name) \in Pieces /\ words \in Seq(Pieces)
      BY <1>4, <3>1, PieceTypes, OnlyOne
    <3>3. line \in Written /\ Moved(2 * n, line) = LineOf(2 * n, words)
      <4>1. 2 * n \in Nat
        BY <1>2
      <4>. QED  BY <3>1, <3>2, <4>1, WriteLine, MovedLine
    <3>4. FieldText(id, name) = <<line>>
      BY <2>4, <2>6, <3>1
    <3>5. /\ Append(view.made, line) \in Blocks
          /\ Len(Append(view.made, line)) = Len(view.made) + 1
          /\ Append(view.made, line) \o <<>> = view.made \o <<line>>
      <4>1. view.made \in Seq(Written)
        BY <1>2 DEF Blocks
      <4>2. Append(view.made, line) \in Seq(Written)
            /\ Len(Append(view.made, line)) = Len(view.made) + 1
        BY <3>3, <4>1, AppendProperties
      <4>3. Append(view.made, line) \o <<>> = Append(view.made, line)
        BY <4>2, ConcatEmptySeq
      <4>. QED  BY <3>3, <4>1, <4>2, <4>3, AppendIsConcat DEF Blocks
    <3>6. /\ other \in View /\ SameView(other, view)
          /\ other.made = Append(view.made, line) /\ other.all = view.all
      BY <1>2, <3>1, <3>5 DEF View, SameView
    <3>7. Fits(more, other, <<>>)
      <4>1. NodeFits(more, other, <<>>)
        BY <1>4, <3>4, <3>5, <3>6
      <4>. QED  BY <1>6, <4>1 DEF Fits
    <3>8. PICK calls, w, d : /\ calls = printing /\ w = [views EXCEPT ![n] = other]
                             /\ d = [calls EXCEPT ![n] = more]
      OBVIOUS
    <3>9. Shows(w, d) /\ Len(d) = n /\ w[n] = other /\ d[n] = more
      <4>1. /\ Shows(views, calls) /\ n = Len(calls) /\ SameCall(more, calls[n])
            /\ SameView(other, views[n])
        BY <1>1, <1>2, <1>4, <3>6, <3>8
      <4>2. Advanced(views, calls, n, more, other)
        BY <1>4, <3>6, <3>7, <4>1, TopAdvances
      <4>. QED  BY <3>8, <4>2 DEF Advanced
    <3>10. out' = Write(Opened, Label(name)) /\ fields_printed' = fields_printed + 1
      BY <1>1, <2>1, <2>6 DEF PrintValue
    <3>11. out' = Begun(out, view.made) \o LineOf(2 * n, words) /\ out' \in Written
      <4>1. PICK page : page = Begun(out, view.made)
        OBVIOUS
      <4>2. page \in Written /\ Opened = page \o LineOf(2 * n, <<>>)
        <5>1. 2 * n \in Nat
          BY <1>2
        <5>2. OpenLine(out, Len(view.made) > 0, 2 * n) = page \o LineOf(2 * n, <<>>)
              /\ page \in Written
          BY <1>2, <1>5, <4>1, <5>1, OpenedIs
        <5>. QED  BY <1>5, <5>2 DEF Opened
      <4>3. page \in Page /\ <<>> \in Seq(Pieces) /\ 2 * n \in Nat
        BY <1>2, <4>2, EmptySeq DEF Written
      <4>4. /\ Write(page \o LineOf(2 * n, <<>>), Label(name)) =
                 page \o LineOf(2 * n, Append(<<>>, Label(name)))
            /\ Write(page \o LineOf(2 * n, <<>>), Label(name)) \in Written
        BY <3>2, <4>3, WriteOnLine
      <4>5. Append(<<>>, Label(name)) = words
        BY <3>1
      <4>. QED  BY <3>10, <4>1, <4>2, <4>4, <4>5
    <3>12. On(other.base, n, other.made) = out'
      <4>1. On(view.base, n, Append(view.made, line)) =
              Begun(On(view.base, n, view.made), view.made) \o Moved(2 * n, line)
        BY <1>2, <3>3, OnOneMore
      <4>. QED  BY <2>3, <3>3, <3>6, <3>11, <4>1 DEF SameView
    <3>13. Tops(out', fields_printed', indent', d[n], w[n], n)
      BY <1>5, <1>6, <2>2, <3>5, <3>6, <3>9, <3>10, <3>11, <3>12 DEF Tops
    <3>. QED  BY <1>6, <3>8, <3>9, <3>13 DEF Progress
  <2>. QED  BY <2>5, <2>6
<1>. QED  BY <1>8, <1>9

\* The call that a node begins with.
NodeCall(id, saved) ==
  [list |-> FALSE, node |-> id, names |-> Printed[nodes[id].type], ids |-> NoIds,
   saved |-> saved]

\* It has printed nothing yet and will print all fields.
LEMMA NodeCallFits ==
  ASSUME Grown, NEW id \in NodeIds, NEW saved \in Nat
  PROVE  LET next == NodeCall(id, saved)
         IN  /\ next \in CallRecord /\ ~next.list /\ next.node = id /\ next.saved = saved
             /\ CloseOf(next) = NodeEnd /\ (ValueToCome(next) <=> IsNumber(id))
             /\ \A view : view.made = <<>> /\ view.all = InsideOf(id) => Fits(next, view, <<>>)
<1>1. PICK next, names : next = NodeCall(id, saved) /\ names = Names(id)
  OBVIOUS
<1>2. names \in Seq(STRING) /\ Len(names) \in Nat /\ (IsNumber(id) => names = <<"value">>)
  BY <1>1, NameFacts
<1>3. /\ next.list = FALSE /\ next.node = id /\ next.names = names /\ next.ids = <<>>
      /\ next.saved = saved
  BY <1>1 DEF NodeCall, NoIds, Names
<1>4. next \in CallRecord
  <2>1. next = [list |-> FALSE, node |-> id, names |-> names, ids |-> <<>>, saved |-> saved]
    BY <1>1 DEF NodeCall, NoIds, Names
  <2>2. <<>> \in Seq(NodeIds) /\ FALSE \in BOOLEAN /\ names \in Seq(STRING)
    BY <1>2
  <2>. QED  BY <2>1, <2>2, Zenon DEF CallRecord
<1>5. CloseOf(next) = NodeEnd
  BY <1>3 DEF CloseOf
<1>6. ValueToCome(next) <=> IsNumber(id)
  <2>1. <<"value">> # <<>>
    OBVIOUS
  <2>2. IsNumber(id) => names # <<>>
    BY <1>2, <2>1, Zenon
  <2>. QED  BY <1>3, <2>2, Zenon DEF ValueToCome
<1>7. ASSUME NEW view, view.made = <<>>, view.all = InsideOf(id)
      PROVE  Fits(next, view, <<>>)
  <2>1. 0 \in 0..Len(names)
    BY <1>2
  <2>2. UpTo(id, 0) = <<>>
    <3>1. \A j \in 1..(id - 1) : Tree[j] \in Written
      BY TreeText
    <3>. QED  BY <1>1, <2>1, <3>1, UpToType
  <2>3. names = SubSeq(names, 0 + 1, Len(names))
    <3>1. names \in Seq(STRING)
      BY <1>2
    <3>. QED  BY <3>1, SubSeqFull
  <2>4. <<>> \o <<>> = <<>>
    OBVIOUS
  <2>5. view.made \o <<>> = UpTo(id, 0)
    BY <1>7, <2>2, <2>4, Zenon
  <2>6. NodeFits(next, view, <<>>)
    BY <1>1, <1>3, <1>7, <2>1, <2>3, <2>5, Zenon DEF NodeFits
  <2>. QED  BY <1>3, <2>6, Zenon DEF Fits
<1>. QED  BY <1>1, <1>3, <1>4, <1>5, <1>6, <1>7, Zenon

\* format_node is called.
LEMMA NodeCalled ==
  ASSUME Grown, NEW views, Shows(views, printing), NEW n, n = Len(printing),
         Tops(out, fields_printed, indent, Printer, views[n], n), ~ValueToCome(Printer),
         NEW more \in CallRecord, SameCall(more, Printer), more.list \/ ~IsNumber(more.node),
         NEW id \in NodeIds, NEW words \in Seq(Pieces),
         Fits(more, views[n], <<Bracketed(words \o Head1(id), InsideOf(id), NodeEnd)>>),
         FormatNode(id, Begun(out, views[n].made) \o LineOf(indent, words),
                    [printing EXCEPT ![n] = more], fields_printed + 1)
  PROVE  Progress(out', fields_printed', indent', printing')
<1>1. PICK page, next, head, all, rest, text :
        /\ page = Begun(out, views[n].made) /\ next = NodeCall(id, fields_printed + 1)
        /\ head = words \o Head1(id) /\ all = InsideOf(id)
        /\ rest = [printing EXCEPT ![n] = more] /\ text = out'
  OBVIOUS
<1>2. /\ n \in Nat \ {0} /\ printing \in Seq(CallRecord)
      /\ views[n].made \in Blocks /\ views[n].base \in Written
  BY TopCall, ShowsFacts
<1>3. /\ fields_printed = Len(views[n].made) /\ indent = 2 * n /\ out \in Written
      /\ fields_printed + 1 \in Nat /\ indent \in Nat
  <2>1. /\ fields_printed = Len(views[n].made) /\ indent = 2 * n /\ out \in Written
    BY DEF Tops
  <2>2. Len(views[n].made) \in Nat
    BY <1>2, LenProperties DEF Blocks
  <2>. QED  BY <1>2, <2>1, <2>2
<1>4. page \in Page
  BY <1>1, <1>2, <1>3, OpenedIs DEF Written
<1>5. /\ text = Write(page \o LineOf(indent, words), NodeWord(nodes[id].type))
      /\ printing' = rest \o <<next>> /\ fields_printed' = 0 /\ indent' = indent + 2
  BY <1>1, Zenon DEF FormatNode, NodeCall, NodeWord
<1>6. /\ text \in Written /\ head \in Seq(Pieces)
      /\ page \o LineOf(indent, head) = IF IsNumber(id) THEN Write(text, Label("value")) ELSE text
  <2>1. NodeOpened(id, page, indent, words)
    BY <1>3, <1>4, NodeBegins
  <2>. QED  BY <1>1, <1>5, <2>1, Zenon DEF NodeOpened
<1>7. /\ next \in CallRecord /\ next.saved = fields_printed + 1 /\ CloseOf(next) = NodeEnd
      /\ ValueToCome(next) <=> IsNumber(id)
      /\ \A view : view.made = <<>> /\ view.all = all => Fits(next, view, <<>>)
  BY <1>1, <1>3, NodeCallFits
<1>8. all \in Blocks
  BY <1>1, TreeText
<1>9. rest \o <<next>> = Append(rest, next)
  <2>1. rest \in Seq(CallRecord)
    <3>1. n \in 1..Len(printing)
      BY <1>2
    <3>. QED  BY <1>1, <1>2, <3>1, ExceptSeq
  <2>. QED  BY <1>7, <2>1, AppendIsConcat
<1>10. Fits(more, views[n], <<Bracketed(head, all, CloseOf(next))>>)
  BY <1>1, <1>7
<1>11. page \o LineOf(indent, head) =
         IF ValueToCome(next) THEN Write(text, Label("value")) ELSE text
  BY <1>6, <1>7
<1>12. Progress(text, 0, indent + 2, Append([printing EXCEPT ![n] = more], next))
  BY <1>1, <1>6, <1>7, <1>8, <1>10, <1>11, StepInto
<1>. QED  BY <1>1, <1>5, <1>9, <1>12

\* Where open_line() puts the next line.
LEMMA OpenedHere ==
  ASSUME NEW views, Shows(views, printing), NEW n, n = Len(printing),
         Tops(out, fields_printed, indent, Printer, views[n], n)
  PROVE  /\ Opened = Begun(out, views[n].made) \o LineOf(indent, <<>>)
         /\ Begun(out, views[n].made) \in Page /\ Begun(out, views[n].made) \in Written
         /\ indent \in Nat /\ fields_printed \in Nat /\ indent = 2 * n
         /\ fields_printed = Len(views[n].made) /\ out \in Written
<1>1. /\ n \in Nat \ {0} /\ views[n].made \in Blocks
  BY TopCall
<1>2. /\ fields_printed = Len(views[n].made) /\ indent = 2 * n /\ out \in Written
  BY DEF Tops
<1>3. indent \in Nat /\ fields_printed \in Nat
  BY <1>1, <1>2, LenProperties DEF Blocks
<1>4. /\ Begun(out, views[n].made) \in Written
      /\ OpenLine(out, Len(views[n].made) > 0, indent) =
           Begun(out, views[n].made) \o LineOf(indent, <<>>)
  BY <1>1, <1>2, <1>3, OpenedIs
<1>5. Opened = OpenLine(out, Len(views[n].made) > 0, indent)
  BY <1>2 DEF Opened
<1>. QED  BY <1>2, <1>3, <1>4, <1>5 DEF Written

\* print_node_field of a list, the body of its loop.
LEMMA PrintsItem ==
  ASSUME Grown, NEW views, Shows(views, printing), NEW n, n = Len(printing),
         Tops(out, fields_printed, indent, Printer, views[n], n), PrintItem
  PROVE  Progress(out', fields_printed', indent', printing')
<1>1. PICK view, id, more, words :
        /\ view = views[n] /\ id = Head(Printer.ids)
        /\ more = [Printer EXCEPT !.ids = Tail(@)] /\ words = <<>> /\ words \in Seq(Pieces)
  BY EmptySeq
<1>2. /\ n \in Nat \ {0} /\ Printer = printing[n] /\ Printer \in CallRecord
      /\ view \in View /\ Fits(Printer, view, <<>>)
  BY <1>1, TopCall
<1>3. Printer.list /\ Printer.ids # <<>>
  BY DEF PrintItem, InList
<1>4. ListFits(Printer, view, <<>>)
  BY <1>2, <1>3 DEF Fits
<1>5. /\ id \in NodeIds /\ more \in CallRecord /\ SameCall(more, Printer)
      /\ ListFits(more, view, <<Tree[id]>>)
  BY <1>1, <1>2, <1>3, <1>4, ItemFits
<1>6. more.list /\ Fits(more, view, <<Tree[id]>>)
  BY <1>3, <1>5 DEF SameCall, Fits
<1>7. /\ Tree[id] = Bracketed(Head1(id), InsideOf(id), NodeEnd)
      /\ Head1(id) \in Seq(Pieces)
  BY <1>5, TreeText, HeadType
<1>8. words \o Head1(id) = Head1(id)
  BY <1>1, <1>7, ConcatEmptySeq
<1>9. Fits(more, views[n], <<Bracketed(words \o Head1(id), InsideOf(id), NodeEnd)>>)
  BY <1>1, <1>6, <1>7, <1>8
<1>10. NextItem = [printing EXCEPT ![n] = more]
  BY <1>1, <1>2 DEF NextItem
<1>11. Opened = Begun(out, views[n].made) \o LineOf(indent, words)
  BY <1>1, OpenedHere
<1>12. FormatNode(id, Begun(out, views[n].made) \o LineOf(indent, words),
                  [printing EXCEPT ![n] = more], fields_printed + 1)
  BY <1>1, <1>10, <1>11, Zenon DEF PrintItem
<1>13. ~ValueToCome(Printer)
  BY <1>3 DEF ValueToCome
<1>. QED  BY <1>1, <1>5, <1>6, <1>9, <1>12, <1>13, NodeCalled

\* A field that holds nodes: nothing is printed if it holds none.
NodesHeld(views, n, id, name, more, held) ==
  /\ id \in NodeIds /\ name \in STRING /\ held \in Seq(1..(id - 1))
  /\ more \in CallRecord /\ SameCall(more, Printer) /\ more.node = id /\ ~IsNumber(id)
  /\ ~ValueToCome(Printer) /\ NextField = [printing EXCEPT ![n] = more]
  /\ held = <<>> => Progress(out, fields_printed, indent, NextField)
  /\ held # <<>> =>
       BlockOf(Tree, id, name) =
         IF IsList(id, name) THEN <<Bracketed(<<ListWord(name)>>, Items(held, Len(held)), ListEnd)>>
                             ELSE <<Prefix(Label(name), Tree[held[1]])>>
  /\ \A block : BlockOf(Tree, id, name) = <<block>> => Fits(more, views[n], <<block>>)

\* Nothing is printed, or one block.
LEMMA NodesInField ==
  ASSUME Grown, NEW views, Shows(views, printing), NEW n, n = Len(printing),
         Tops(out, fields_printed, indent, Printer, views[n], n),
         InNode, ~IsValue(Printer.node, FieldName),
         NEW more, more = [Printer EXCEPT !.names = Tail(@)]
  PROVE  NodesHeld(views, n, Printer.node, FieldName, more, FieldNodes(Printer.node, FieldName))
<1>1. PICK view, name, id, held :
        /\ view = views[n] /\ name = FieldName /\ id = Printer.node
        /\ held = FieldNodes(id, name)
  OBVIOUS
<1>2. /\ n \in Nat \ {0} /\ Printer \in CallRecord
      /\ view \in View /\ view.made \in Blocks /\ view.base \in Written
  BY <1>1, TopCall
<1>3. /\ NextField = [printing EXCEPT ![n] = more]
      /\ ~Printer.list /\ Printer.names # <<>> /\ NodeFits(Printer, view, <<>>)
  BY <1>1, NextFieldIs
<1>4. /\ name \in STRING /\ more \in CallRecord /\ SameCall(more, Printer) /\ id \in NodeIds
      /\ FieldText(id, name) \in Blocks
      /\ IsNumber(id) => name = "value"
      /\ \A other, open :
           other.all = view.all /\ other.made \o open = view.made \o FieldText(id, name)
             => NodeFits(more, other, open)
  <2>1. name = Head(Printer.names)
    BY <1>1 DEF FieldName
  <2>2. FieldDone(Printer, view, name, more)
    BY <1>2, <1>3, <2>1, FieldFits
  <2>. QED  BY <1>1, <2>2, Zenon DEF FieldDone
<1>5. more.node = id /\ ~more.list
  BY <1>1, <1>3, <1>4 DEF SameCall
<1>6. ~IsNumber(id)
  BY <1>1, <1>4, NumberValue
<1>7. ~ValueToCome(Printer) /\ ~ValueToCome(more) /\ FieldText(id, name) = BlockOf(Tree, id, name)
  BY <1>1, <1>5, <1>6 DEF ValueToCome, FieldText
<1>8. held \in Seq(1..(id - 1))
  BY <1>1, <1>4 DEF Grown, Heirs
<1>9. ASSUME NEW open, BlockOf(Tree, id, name) = open
      PROVE  Fits(more, view, open)
  <2>1. view.made \o open = view.made \o FieldText(id, name)
    BY <1>7, <1>9
  <2>2. NodeFits(more, view, open)
    BY <1>4, <2>1
  <2>. QED  BY <1>5, <2>2 DEF Fits
<1>10. /\ held = <<>> => BlockOf(Tree, id, name) = <<>>
       /\ held # <<>> =>
            BlockOf(Tree, id, name) =
              IF IsList(id, name)
              THEN <<Bracketed(<<ListWord(name)>>, Items(held, Len(held)), ListEnd)>>
              ELSE <<Prefix(Label(name), Tree[held[1]])>>
  <2>1. \A j \in 1..(id - 1) : Tree[j] \in Written
    BY <1>4, TreeText
  <2>. QED  BY <1>1, <1>4, <2>1, BlockType
<1>11. ASSUME held = <<>>
       PROVE  Progress(out, fields_printed, indent, NextField)
  <2>1. Fits(more, views[n], <<>>)
    BY <1>1, <1>9, <1>10, <1>11
  <2>2. out = On(views[n].base, n, views[n].made)
    BY <1>7 DEF Tops
  <2>3. out \in Written /\ fields_printed = Len(views[n].made) /\ indent = 2 * n
    BY DEF Tops
  <2>. QED  BY <1>3, <1>4, <1>7, <2>1, <2>2, <2>3, StepOver
<1>12. NodesHeld(views, n, id, name, more, held)
  BY <1>1, <1>3, <1>4, <1>5, <1>6, <1>7, <1>8, <1>9, <1>10, <1>11, Zenon DEF NodesHeld
<1>. QED  BY <1>1, <1>12

\* print_node_field of a NodeId or Option<NodeId>.
LEMMA PrintsChild ==
  ASSUME Grown, NEW views, Shows(views, printing), NEW n, n = Len(printing),
         Tops(out, fields_printed, indent, Printer, views[n], n), PrintChild
  PROVE  Progress(out', fields_printed', indent', printing')
<1>1. PICK name, id, more, held, kid, page, words :
        /\ name = FieldName /\ id = Printer.node /\ more = [Printer EXCEPT !.names = Tail(@)]
        /\ held = FieldNodes(id, name) /\ kid = held[1] /\ page = Begun(out, views[n].made)
        /\ words = <<Label(name)>>
  OBVIOUS
<1>2. NodesHeld(views, n, id, name, more, held)
  BY <1>1, NodesInField DEF PrintChild
<1>3. /\ id \in NodeIds /\ name \in STRING /\ held \in Seq(1..(id - 1))
      /\ more \in CallRecord /\ SameCall(more, Printer) /\ more.node = id /\ ~IsNumber(id)
      /\ ~ValueToCome(Printer) /\ NextField = [printing EXCEPT ![n] = more]
  BY <1>2 DEF NodesHeld
<1>4. CASE held = <<>>
  <2>1. Progress(out, fields_printed, indent, NextField)
    BY <1>2, <1>4 DEF NodesHeld
  <2>2. /\ out' = out /\ fields_printed' = fields_printed /\ indent' = indent
        /\ printing' = NextField
    BY <1>1, <1>4 DEF PrintChild
  <2>. QED  BY <2>1, <2>2
<1>5. CASE held # <<>>
  <2>1. FormatNode(kid, Write(Opened, Label(name)), NextField, fields_printed + 1)
        /\ ~IsList(id, name)
    BY <1>1, <1>5 DEF PrintChild
  <2>2. kid \in NodeIds
    <3>1. id \in Nat /\ NodeIds = 1..Len(nodes) /\ Len(nodes) \in Nat
      BY <1>3 DEF Grown, NodesTyped, Sized
    <3>2. kid \in 1..(id - 1)
      <4>1. PICK S : S = 1..(id - 1)
        OBVIOUS
      <4>2. held \in Seq(S) /\ Len(held) \in Nat /\ Len(held) # 0
        BY <1>3, <1>5, <4>1, LenProperties, EmptySeq
      <4>3. 1 \in 1..Len(held)
        BY <4>2
      <4>. QED  BY <1>1, <4>1, <4>2, <4>3, ElementOfSeq
    <3>. QED  BY <1>3, <3>1, <3>2
  <2>3. Label(name) \in Pieces /\ words \in Seq(Pieces)
    BY <1>1, <1>3, PieceTypes, OnlyOne
  <2>4. /\ page \in Page /\ indent \in Nat /\ Opened = page \o LineOf(indent, <<>>)
    BY <1>1, OpenedHere
  <2>5. Write(Opened, Label(name)) = page \o LineOf(indent, words)
    <3>1. PICK none : none = <<>> /\ none \in Seq(Pieces)
      BY EmptySeq
    <3>2. Write(page \o LineOf(indent, none), Label(name)) =
            page \o LineOf(indent, Append(none, Label(name)))
      BY <2>3, <2>4, <3>1, WriteOnLine
    <3>3. Append(none, Label(name)) = words
      BY <1>1, <3>1
    <3>. QED  BY <2>4, <3>1, <3>2, <3>3
  <2>6. BlockOf(Tree, id, name) =
          <<Bracketed(words \o Head1(kid), InsideOf(kid), NodeEnd)>>
    <3>1. BlockOf(Tree, id, name) = <<Prefix(Label(name), Tree[kid])>>
      BY <1>1, <1>2, <1>5, <2>1 DEF NodesHeld
    <3>2. /\ Tree[kid] = Bracketed(Head1(kid), InsideOf(kid), NodeEnd)
          /\ Head1(kid) \in Seq(Pieces) /\ InsideOf(kid) \in Blocks
      BY <2>2, TreeText, HeadType
    <3>3. NodeEnd \in Pieces
      BY PieceTypes
    <3>4. Prefix(Label(name), Tree[kid]) =
            Bracketed(<<Label(name)>> \o Head1(kid), InsideOf(kid), NodeEnd)
      BY <2>3, <3>2, <3>3, PrefixIs
    <3>. QED  BY <1>1, <3>1, <3>4
  <2>7. Fits(more, views[n], <<Bracketed(words \o Head1(kid), InsideOf(kid), NodeEnd)>>)
    BY <1>2, <2>6 DEF NodesHeld
  <2>8. FormatNode(kid, Begun(out, views[n].made) \o LineOf(indent, words),
                   [printing EXCEPT ![n] = more], fields_printed + 1)
    BY <1>1, <1>3, <2>1, <2>5
  <2>9. more.list \/ ~IsNumber(more.node)
    BY <1>3
  <2>. QED  BY <1>3, <2>2, <2>3, <2>7, <2>8, <2>9, NodeCalled
<1>. QED  BY <1>4, <1>5

\* print_node_field of a list, up to its loop.
ListCall(id, held, saved) ==
  [list |-> TRUE, node |-> id, names |-> NoNames, ids |-> held, saved |-> saved]

\* It has printed nothing yet and will print all items.
LEMMA ListCallFits ==
  ASSUME Grown, NEW id \in NodeIds, NEW held \in Seq(NodeIds), NEW saved \in Nat
  PROVE  LET next == ListCall(id, held, saved)
         IN  /\ next \in CallRecord /\ next.list /\ next.saved = saved
             /\ CloseOf(next) = ListEnd /\ ~ValueToCome(next)
             /\ \A view : view.made = <<>> /\ view.all = Items(held, Len(held)) =>
                  Fits(next, view, <<>>)
<1>1. PICK next : next = ListCall(id, held, saved)
  OBVIOUS
<1>2. /\ next.list = TRUE /\ next.node = id /\ next.names = <<>> /\ next.ids = held
      /\ next.saved = saved
  BY <1>1 DEF ListCall, NoNames
<1>3. next \in CallRecord
  <2>1. next = [list |-> TRUE, node |-> id, names |-> <<>>, ids |-> held, saved |-> saved]
    BY <1>1 DEF ListCall, NoNames
  <2>2. <<>> \in Seq(STRING) /\ TRUE \in BOOLEAN
    OBVIOUS
  <2>. QED  BY <2>1, <2>2, Zenon DEF CallRecord
<1>4. CloseOf(next) = ListEnd /\ ~ValueToCome(next)
  BY <1>2 DEF CloseOf, ValueToCome
<1>5. ASSUME NEW view, view.made = <<>>, view.all = Items(held, Len(held))
      PROVE  Fits(next, view, <<>>)
  <2>1. Len(held) \in Nat
    BY LenProperties
  <2>2. 0 \in 0..Len(held)
    BY <2>1
  <2>3. next.ids = SubSeq(held, 0 + 1, Len(held))
    BY <1>2, SubSeqFull
  <2>4. Items(held, 0) = <<>>
    BY DEF Items
  <2>5. view.made \o <<>> = Items(held, 0)
    <3>1. <<>> \o <<>> = <<>>
      OBVIOUS
    <3>. QED  BY <1>5, <2>4, <3>1, Zenon
  <2>6. ListFits(next, view, <<>>)
    BY <1>5, <2>2, <2>3, <2>5, Zenon DEF ListFits
  <2>. QED  BY <1>2, <2>6, Zenon DEF Fits
<1>. QED  BY <1>1, <1>2, <1>3, <1>4, <1>5, Zenon

\* The bracket of the list, or nothing.
LEMMA OpensList ==
  ASSUME Grown, NEW views, Shows(views, printing), NEW n, n = Len(printing),
         Tops(out, fields_printed, indent, Printer, views[n], n), OpenList
  PROVE  Progress(out', fields_printed', indent', printing')
<1>1. PICK name, id, more, held, page, words, next, all, text :
        /\ name = FieldName /\ id = Printer.node /\ more = [Printer EXCEPT !.names = Tail(@)]
        /\ held = FieldNodes(id, name) /\ page = Begun(out, views[n].made)
        /\ words = <<ListWord(name)>> /\ next = ListCall(id, held, fields_printed + 1)
        /\ all = Items(held, Len(held)) /\ text = out'
  OBVIOUS
<1>2. NodesHeld(views, n, id, name, more, held)
  BY <1>1, NodesInField DEF OpenList
<1>3. /\ id \in NodeIds /\ name \in STRING /\ held \in Seq(1..(id - 1))
      /\ more \in CallRecord /\ SameCall(more, Printer) /\ more.node = id /\ ~IsNumber(id)
      /\ ~ValueToCome(Printer) /\ NextField = [printing EXCEPT ![n] = more]
  BY <1>2 DEF NodesHeld
<1>4. CASE held = <<>>
  <2>1. Progress(out, fields_printed, indent, NextField)
    BY <1>2, <1>4 DEF NodesHeld
  <2>2. /\ out' = out /\ fields_printed' = fields_printed /\ indent' = indent
        /\ printing' = NextField
    BY <1>1, <1>4, Zenon DEF OpenList
  <2>. QED  BY <2>1, <2>2
<1>5. CASE held # <<>>
  <2>1. /\ text = Write(Opened, ListWord(name)) /\ printing' = Append(NextField, next)
        /\ fields_printed' = 0 /\ indent' = indent + 2 /\ IsList(id, name)
    BY <1>1, <1>5, Zenon DEF OpenList, ListWord, ListCall
  <2>2. held \in Seq(NodeIds)
    <3>1. id \in Nat /\ NodeIds = 1..Len(nodes) /\ Len(nodes) \in Nat
      BY <1>3 DEF Grown, NodesTyped, Sized
    <3>2. 1..(id - 1) \subseteq NodeIds
      BY <1>3, <3>1
    <3>. QED  BY <1>3, <3>2, MoreValues
  <2>3. ListWord(name) \in Pieces /\ words \in Seq(Pieces)
    BY <1>1, <1>3, PieceTypes, OnlyOne
  <2>4. /\ page \in Page /\ indent \in Nat /\ Opened = page \o LineOf(indent, <<>>)
        /\ fields_printed + 1 \in Nat
    <3>1. /\ page \in Page /\ indent \in Nat /\ Opened = page \o LineOf(indent, <<>>)
          /\ fields_printed \in Nat
      BY <1>1, OpenedHere
    <3>. QED  BY <3>1
  <2>5. text = page \o LineOf(indent, words) /\ text \in Written
    <3>1. PICK none : none = <<>> /\ none \in Seq(Pieces)
      BY EmptySeq
    <3>2. /\ Write(page \o LineOf(indent, none), ListWord(name)) =
               page \o LineOf(indent, Append(none, ListWord(name)))
          /\ Write(page \o LineOf(indent, none), ListWord(name)) \in Written
      BY <2>3, <2>4, <3>1, WriteOnLine
    <3>3. Append(none, ListWord(name)) = words
      BY <1>1, <3>1
    <3>. QED  BY <2>1, <2>4, <3>1, <3>2, <3>3
  <2>6. /\ next \in CallRecord /\ next.saved = fields_printed + 1 /\ CloseOf(next) = ListEnd
        /\ ~ValueToCome(next)
        /\ \A view : view.made = <<>> /\ view.all = all => Fits(next, view, <<>>)
    BY <1>1, <1>3, <2>2, <2>4, ListCallFits
  <2>7. all \in Blocks
    <3>1. Len(held) \in Nat
      BY <2>2, LenProperties
    <3>2. \A i \in 1..Len(held) : Tree[held[i]] \in Written
      BY <2>2, TreeText, ElementOfSeq
    <3>. QED  BY <1>1, <3>1, <3>2, ItemsType
  <2>8. Fits(more, views[n], <<Bracketed(words, all, CloseOf(next))>>)
    <3>1. BlockOf(Tree, id, name) = <<Bracketed(words, all, ListEnd)>>
      BY <1>1, <1>2, <1>5, <2>1 DEF NodesHeld
    <3>. QED  BY <1>2, <2>6, <3>1 DEF NodesHeld
  <2>9. Begun(out, views[n].made) \o LineOf(indent, words) =
          IF ValueToCome(next) THEN Write(text, Label("value")) ELSE text
    BY <1>1, <2>5, <2>6
  <2>10. more.list \/ ~IsNumber(more.node)
    BY <1>3
  <2>11. Progress(text, 0, indent + 2, Append([printing EXCEPT ![n] = more], next))
    BY <1>3, <2>3, <2>5, <2>6, <2>7, <2>8, <2>9, <2>10, StepInto
  <2>. QED  BY <1>1, <1>3, <2>1, <2>11
<1>. QED  BY <1>4, <1>5

\* A call that is through has made all its blocks.
LEMMA AllMade ==
  ASSUME Grown, NEW views, Shows(views, printing), NEW n, n = Len(printing), ~InNode, ~InList
  PROVE  views[n].made = views[n].all /\ ~ValueToCome(Printer)
<1>1. PICK call, view : call = Printer /\ view = views[n]
  OBVIOUS
<1>2. /\ n \in Nat \ {0} /\ call \in CallRecord /\ view.made \in Blocks
      /\ Fits(call, view, <<>>) /\ printing # <<>>
  BY <1>1, TopCall, ShowsFacts
<1>3. view.made \o <<>> = view.made
  BY <1>2, ConcatEmptySeq DEF Blocks
<1>4. CASE call.list
  <2>1. call.ids = <<>> /\ ~ValueToCome(Printer)
    BY <1>1, <1>2, <1>4 DEF InList, ValueToCome
  <2>2. ListFits(call, view, <<>>)
    BY <1>2, <1>4 DEF Fits
  <2>3. PICK held \in Seq(NodeIds) :
          /\ \E k \in 0..Len(held) : /\ call.ids = SubSeq(held, k + 1, Len(held))
                                     /\ view.made \o <<>> = Items(held, k)
          /\ view.all = Items(held, Len(held))
    BY <2>2 DEF ListFits
  <2>4. PICK k \in 0..Len(held) : /\ call.ids = SubSeq(held, k + 1, Len(held))
                                  /\ view.made \o <<>> = Items(held, k)
    BY <2>3
  <2>5. k = Len(held)
    BY <2>1, <2>4, RestOf
  <2>. QED  BY <1>1, <1>3, <2>1, <2>3, <2>4, <2>5
<1>5. CASE ~call.list
  <2>1. call.names = <<>> /\ ~ValueToCome(Printer)
    BY <1>1, <1>2, <1>5 DEF InNode, ValueToCome
  <2>2. NodeFits(call, view, <<>>)
    BY <1>2, <1>5 DEF Fits
  <2>3. PICK names : names = Names(call.node)
    OBVIOUS
  <2>4. PICK k \in 0..Len(names) : /\ call.names = SubSeq(names, k + 1, Len(names))
                                   /\ view.made \o <<>> = UpTo(call.node, k)
    BY <2>2, <2>3 DEF NodeFits
  <2>5. names \in Seq(STRING)
    <3>1. call.node \in NodeIds
      BY <1>2 DEF CallRecord
    <3>. QED  BY <2>3, <3>1, NameFacts
  <2>6. k = Len(names)
    BY <2>1, <2>4, <2>5, RestOf
  <2>7. view.all = UpTo(call.node, Len(names))
    BY <2>2, <2>3 DEF NodeFits, InsideOf
  <2>. QED  BY <1>1, <1>3, <2>1, <2>4, <2>6, <2>7
<1>. QED  BY <1>4, <1>5

\* The closing bracket.
LEMMA ClosesText ==
  ASSUME Grown, NEW views, Shows(views, printing), NEW n, n = Len(printing),
         Tops(out, fields_printed, indent, Printer, views[n], n), Close
  PROVE  /\ out' = ClosedBy(On(views[n].base, n, views[n].all), 2 * (n - 1), views[n].all,
                            CloseOf(Printer))
         /\ indent' = 2 * (n - 1) /\ fields_printed' = Printer.saved
         /\ printing' = SubSeq(printing, 1, n - 1)
         /\ views[n].made = views[n].all /\ CloseOf(Printer) \in Pieces
<1>1. PICK view, close : view = views[n] /\ close = CloseOf(Printer)
  OBVIOUS
<1>2. /\ n \in Nat \ {0} /\ view.made \in Blocks
  BY <1>1, TopCall
<1>3. view.made = view.all /\ ~ValueToCome(Printer)
  BY <1>1, AllMade DEF Close
<1>4. /\ fields_printed = Len(view.made) /\ indent = 2 * n /\ out \in Written
      /\ out = On(view.base, n, view.made)
  BY <1>1, <1>3 DEF Tops
<1>5. /\ out' = Write(IF fields_printed > 0 THEN OpenLine(out, FALSE, indent - 2) ELSE out, close)
      /\ indent' = indent - 2 /\ fields_printed' = Printer.saved /\ printing' = Front(printing)
  BY <1>1, Zenon DEF Close, CloseOf, NodeEnd, ListEnd
<1>6. close \in Pieces
  BY <1>1, PieceTypes DEF CloseOf
<1>7. 2 * (n - 1) = indent - 2 /\ indent - 2 \in Nat
  BY <1>2, <1>4
<1>8. Write(IF Len(view.made) > 0 THEN OpenLine(out, FALSE, indent - 2) ELSE out, close) =
        ClosedBy(out, indent - 2, view.made, close)
  BY <1>2, <1>4, <1>6, <1>7, ClosedIs
<1>9. out' = ClosedBy(On(view.base, n, view.all), 2 * (n - 1), view.all, close)
  BY <1>3, <1>4, <1>5, <1>7, <1>8
<1>10. Front(printing) = SubSeq(printing, 1, n - 1)
  BY DEF Front
<1>. QED  BY <1>1, <1>3, <1>5, <1>6, <1>7, <1>9, <1>10

\* The end of format_node and of print_node_field of a list: the call around goes on.
LEMMA ClosesInner ==
  ASSUME Grown, NEW views, Shows(views, printing), NEW n, n = Len(printing), n > 1,
         Tops(out, fields_printed, indent, Printer, views[n], n), Close
  PROVE  Progress(out', fields_printed', indent', printing')
<1>1. PICK m, inner, view, call, close, block, more, w, d :
        /\ m = n - 1 /\ inner = views[n] /\ view = views[m] /\ call = printing[m]
        /\ close = CloseOf(Printer) /\ block = Bracketed(inner.head, inner.all, close)
        /\ more = [view EXCEPT !.made = Append(@, block)]
        /\ w = [SubSeq(views, 1, m) EXCEPT ![m] = more] /\ d = SubSeq(printing, 1, m)
  OBVIOUS
<1>2. /\ n \in Nat /\ m \in Nat \ {0} /\ m + 1 = n /\ m \in 1..(n - 1) /\ m \in 1..n
  BY <1>1, TopCall
<1>3. /\ Printer = printing[n] /\ inner.made \in Blocks /\ inner.all \in Blocks
      /\ inner.head \in Seq(Pieces)
  BY <1>1, TopCall
<1>4. /\ view \in View /\ call \in CallRecord
  BY <1>1, <1>2, ShowsFacts
<1>5. view.base \in Written /\ view.made \in Blocks
  BY <1>4 DEF View
<1>6. Link(call, view, Printer, inner, m)
  BY <1>1, <1>2, <1>3 DEF Shows
<1>7. /\ inner.base = Begun(On(view.base, m, view.made), view.made) \o LineOf(2 * m, inner.head)
      /\ Printer.saved = Len(view.made) + 1 /\ (call.list \/ ~IsNumber(call.node))
  BY <1>6 DEF Link
<1>8. /\ out' = ClosedBy(On(inner.base, n, inner.all), 2 * m, inner.all, close)
      /\ indent' = 2 * m /\ fields_printed' = Printer.saved /\ printing' = d /\ close \in Pieces
  BY <1>1, ClosesText
<1>9. out' = On(view.base, m, Append(view.made, block))
  <2>1. On(view.base, m, Append(view.made, block)) =
          ClosedBy(On(inner.base, m + 1, inner.all), 2 * m, inner.all, close)
    <3>1. PICK base, blocks, head, inside, lower :
            /\ base = view.base /\ blocks = view.made /\ head = inner.head
            /\ inside = inner.all /\ lower = inner.base
      OBVIOUS
    <3>2. /\ base \in Written /\ blocks \in Blocks /\ head \in Seq(Pieces) /\ inside \in Blocks
          /\ m \in Nat /\ lower = Begun(On(base, m, blocks), blocks) \o LineOf(2 * m, head)
      BY <1>2, <1>3, <1>5, <1>7, <3>1
    <3>3. On(base, m, Append(blocks, Bracketed(head, inside, close))) =
            ClosedBy(On(lower, m + 1, inside), 2 * m, inside, close)
      <4>1. BlockAdded(base, m, blocks, head, inside, close, lower)
        BY <1>8, <3>2, Closed
      <4>. QED  BY <4>1 DEF BlockAdded
    <3>. QED  BY <1>1, <3>1, <3>3
  <2>. QED  BY <1>2, <1>8, <2>1
<1>10. /\ Shows(w, d) /\ Len(d) = m /\ w[m] = more /\ d[m] = call
       /\ block \in Written /\ more \in View /\ SameView(more, view)
       /\ more.made = Append(view.made, block)
  <2>1. PICK calls : calls = printing
    OBVIOUS
  <2>2. /\ Shows(views, calls) /\ n = Len(calls)
        /\ block = Bracketed(views[n].head, views[n].all, CloseOf(calls[n]))
        /\ more = [views[n - 1] EXCEPT !.made = Append(@, block)]
    BY <1>1, <1>3, <2>1
  <2>3. PICK all : all = [SubSeq(views, 1, n - 1) EXCEPT ![n - 1] = more]
    OBVIOUS
  <2>4. /\ Shows(all, SubSeq(calls, 1, n - 1)) /\ Len(SubSeq(calls, 1, n - 1)) = n - 1
        /\ all[n - 1] = more /\ SubSeq(calls, 1, n - 1)[n - 1] = calls[n - 1]
        /\ block \in Written /\ more \in View /\ SameView(more, views[n - 1])
        /\ more.made = Append(views[n - 1].made, block)
    <3>1. Returned(views, calls, n, block, more)
      BY <1>1, <2>2, TopReturns
    <3>. QED  BY <2>3, <3>1 DEF Returned
  <2>. QED  BY <1>1, <2>1, <2>3, <2>4
<1>11. Len(more.made) = Len(view.made) + 1
  BY <1>5, <1>10, AppendProperties DEF Blocks
<1>12. out' \in Written
  <2>1. more.made \in Blocks
    BY <1>10 DEF View
  <2>. QED  BY <1>2, <1>5, <1>9, <1>10, <2>1, OnType
<1>13. ~ValueToCome(call)
  BY <1>7 DEF ValueToCome
<1>14. On(more.base, m, more.made) = out'
  BY <1>9, <1>10 DEF SameView
<1>15. Tops(out', fields_printed', indent', d[m], w[m], m)
  BY <1>7, <1>8, <1>10, <1>11, <1>12, <1>13, <1>14 DEF Tops
<1>. QED  BY <1>8, <1>10, <1>15 DEF Progress

\* The end of the outermost call: the text is that of the root.
LEMMA ClosesRoot ==
  ASSUME Grown, NEW views, Shows(views, printing), Len(printing) = 1,
         Tops(out, fields_printed, indent, Printer, views[1], 1), Close
  PROVE  out' = PrettyText /\ printing' = <<>>
<1>1. PICK view, id, text : view = views[1] /\ id = Printer.node /\ text = On(view.base, 1, view.all)
  OBVIOUS
<1>2. /\ Printer = printing[1] /\ Printer \in CallRecord /\ view.made \in Blocks
      /\ view.all \in Blocks /\ view.head \in Seq(Pieces) /\ Fits(Printer, view, <<>>)
  BY <1>1, TopCall
<1>3. /\ ~Printer.list /\ id = Len(nodes) /\ view.head = Head1(id)
      /\ view.base = LineOf(0, view.head)
  BY <1>1, <1>2 DEF Shows, Root
<1>4. id \in NodeIds /\ view.all = InsideOf(id) /\ CloseOf(Printer) = NodeEnd
  BY <1>1, <1>2, <1>3 DEF Fits, NodeFits, CallRecord, CloseOf
<1>5. out' = ClosedBy(text, 0, view.all, NodeEnd) /\ printing' = SubSeq(printing, 1, 0)
  BY <1>1, <1>4, ClosesText
<1>6. Opens(text, <<>>, 0, view.head, view.all)
  <2>1. <<>> \o LineOf(0, view.head) = LineOf(0, view.head)
    <3>1. PICK line : line = LineOf(0, view.head)
      OBVIOUS
    <3>2. line \in Page
      BY <1>2, <3>1, OneRow DEF LineOf, Written
    <3>3. <<>> \o line = line
      BY <3>2, ConcatEmptySeq DEF Page
    <3>. QED  BY <3>1, <3>3
  <2>2. 2 * 1 = 0 + 2
    OBVIOUS
  <2>. QED  BY <1>1, <1>3, <2>1, <2>2 DEF Opens, On
<1>7. PICK block : block = Bracketed(view.head, view.all, NodeEnd)
  OBVIOUS
<1>8. block \in Page /\ Tree[id] = block
  <2>1. NodeEnd \in Pieces
    BY PieceTypes
  <2>. QED  BY <1>2, <1>3, <1>4, <1>7, <2>1, BracketType, TreeText DEF Written
<1>9. <<>> \o Moved(0, block) = ClosedBy(text, 0, view.all, NodeEnd)
  <2>1. PICK page, zero, head, inside :
          page = <<>> /\ zero = 0 /\ head = view.head /\ inside = view.all
    OBVIOUS
  <2>2. /\ NodeEnd \in Pieces /\ page \in Page /\ zero \in Nat /\ head \in Seq(Pieces)
        /\ inside \in Blocks /\ Opens(text, page, zero, head, inside)
    BY <1>2, <1>6, <2>1, PieceTypes, EmptySeq DEF Page
  <2>3. page \o Moved(zero, Bracketed(head, inside, NodeEnd)) =
          ClosedBy(text, zero, inside, NodeEnd)
    BY <2>2, BracketWritten
  <2>. QED  BY <1>7, <2>1, <2>3
<1>10. <<>> \o Moved(0, block) = block
  <2>1. Moved(0, block) = block
    BY <1>8, NotMoved
  <2>2. <<>> \o block = block
    BY <1>8, ConcatEmptySeq DEF Page
  <2>. QED  BY <2>1, <2>2
<1>11. SubSeq(printing, 1, 0) = <<>>
  OBVIOUS
<1>. QED  BY <1>3, <1>5, <1>8, <1>9, <1>10, <1>11, PrettyIsTree

\* The call of format_node for the root.
LEMMA Starts ==
  ASSUME Grown, Len(nodes) > 0, indent = 0, StartPrinting
  PROVE  outcome = "done" /\ Progress(out', fields_printed', indent', printing')
<1>1. PICK id, page, words, zero, text, next :
        /\ id = Len(nodes) /\ page = <<>> /\ words = <<>> /\ zero = 0 /\ text = out'
        /\ next = NodeCall(id, 0)
  OBVIOUS
<1>2. id \in NodeIds
  BY <1>1 DEF Grown, Sized
<1>3. /\ outcome = "done" /\ text = Write(LineOf(0, <<>>), NodeWord(nodes[id].type))
      /\ printing' = <<>> \o <<next>> /\ fields_printed' = 0 /\ indent' = indent + 2
  BY <1>1, Zenon DEF StartPrinting, FormatNode, NodeCall, NodeWord, LineOf
<1>4. printing' = <<next>> /\ indent' = 2 * 1
  BY <1>3
<1>5. /\ page \in Page /\ words \in Seq(Pieces) /\ zero \in Nat
      /\ \A line \in Page : page \o line = line
      /\ \A line \in Seq(Pieces) : words \o line = line
  BY <1>1, EmptySeq, ConcatEmptySeq DEF Page
<1>6. PICK head, base, all : head = Head1(id) /\ base = LineOf(0, head) /\ all = InsideOf(id)
  OBVIOUS
<1>7. head \in Seq(Pieces) /\ all \in Blocks /\ base \in Written
  <2>1. head \in Seq(Pieces) /\ all \in Blocks
    BY <1>2, <1>6, HeadType, TreeText
  <2>. QED  BY <1>6, <2>1, OneRow DEF LineOf
<1>8. text \in Written /\ base = IF IsNumber(id) THEN Write(text, Label("value")) ELSE text
  <2>1. NodeOpened(id, page, zero, words)
    BY <1>2, <1>5, NodeBegins
  <2>2. page \o LineOf(zero, words) = LineOf(0, <<>>)
    <3>1. PICK line : line = LineOf(zero, words)
      OBVIOUS
    <3>2. line \in Page
      BY <1>5, <3>1, OneRow DEF LineOf, Written
    <3>. QED  BY <1>1, <1>5, <3>1, <3>2
  <2>3. words \o Head1(id) = head /\ page \o LineOf(zero, head) = base
    BY <1>1, <1>5, <1>6, <1>7 DEF Written
  <2>. QED  BY <1>3, <2>1, <2>2, <2>3, Zenon DEF NodeOpened
<1>9. /\ next \in CallRecord /\ ~next.list /\ next.node = id
      /\ ValueToCome(next) <=> IsNumber(id)
      /\ \A view : view.made = <<>> /\ view.all = all => Fits(next, view, <<>>)
  <2>1. 0 \in Nat
    OBVIOUS
  <2>. QED  BY <1>1, <1>2, <1>6, <2>1, NodeCallFits
<1>10. PICK view : view = [base |-> base, head |-> head, made |-> <<>>, all |-> all]
  OBVIOUS
<1>11. /\ view \in View /\ view.base = base /\ view.head = head /\ view.made = <<>>
       /\ view.all = all
  <2>1. <<>> \in Blocks
    BY DEF Blocks
  <2>. QED  BY <1>7, <1>10, <2>1 DEF View
<1>12. Root(next, view)
  BY <1>1, <1>6, <1>9, <1>11 DEF Root
<1>13. PICK views, calls : views = <<view>> /\ calls = <<next>>
  OBVIOUS
<1>14. /\ views \in Seq(View) /\ calls \in Seq(CallRecord) /\ Len(views) = 1 /\ Len(calls) = 1
       /\ views[1] = view /\ calls[1] = next
  BY <1>9, <1>11, <1>13, OnlyOne
<1>15. Shows(views, calls)
  <2>1. Fits(next, view, <<>>)
    BY <1>9, <1>11
  <2>2. 1..(Len(calls) - 1) = {}
    BY <1>14
  <2>. QED  BY <1>12, <1>14, <2>1, <2>2 DEF Shows
<1>16. Tops(text, 0, 2 * 1, next, view, 1)
  <2>1. <<>> \in Blocks /\ Len(<<>>) = 0 /\ 1 \in Nat
    BY DEF Blocks
  <2>2. On(base, 1, <<>>) = base
    BY <1>7, <2>1, OnType
  <2>. QED  BY <1>8, <1>9, <1>11, <2>1, <2>2 DEF Tops
<1>17. Progress(text, 0, 2 * 1, calls)
  BY <1>14, <1>15, <1>16 DEF Progress
<1>. QED  BY <1>1, <1>3, <1>4, <1>13, <1>17

-----------------------------------------------------------------------------
(* The text and the tree                                                   *)

\* Nothing is written yet, or calls are in progress, or the text of the root is there.
Laid(text, count, blanks, calls) ==
  \/ text = <<>> /\ count = 0 /\ blanks = 0 /\ calls = <<>>
  \/ outcome = "done" /\ Progress(text, count, blanks, calls)
  \/ outcome = "done" /\ text = PrettyText /\ calls = <<>>
Formatted == Laid(out, fields_printed, indent, printing)
\* The file that has been parsed has a root.
Rooted == outcome = "done" => Len(nodes) > 0

\* Every step of the formatter leads from one of these to one of them.
LEMMA FormatLays ==
  ASSUME Grown, Rooted, Formatted, Format
  PROVE  Laid(out', fields_printed', indent', printing')
<1>1. CASE out = <<>> /\ fields_printed = 0 /\ indent = 0 /\ printing = <<>>
  <2>1. StartPrinting
    BY <1>1, Zenon DEF Format, PrintValue, PrintChild, OpenList, PrintItem, Close, InNode, InList
  <2>2. Len(nodes) > 0
    BY <2>1 DEF StartPrinting, Rooted
  <2>3. outcome = "done" /\ Progress(out', fields_printed', indent', printing')
    BY <1>1, <2>1, <2>2, Starts
  <2>. QED  BY <2>3 DEF Laid
<1>2. CASE outcome = "done" /\ Progress(out, fields_printed, indent, printing)
  <2>1. PICK views, n :
          /\ n = Len(printing) /\ Shows(views, printing)
          /\ Tops(out, fields_printed, indent, Printer, views[n], n)
    BY <1>2 DEF Progress, Printer
  <2>2. ~StartPrinting
    <3>1. out \in Written
      BY <2>1 DEF Tops
    <3>. QED  BY <3>1 DEF Written, StartPrinting
  <2>3. CASE PrintValue
    BY <1>2, <2>1, <2>3, PrintsValue DEF Laid
  <2>4. CASE PrintChild
    BY <1>2, <2>1, <2>4, PrintsChild DEF Laid
  <2>5. CASE OpenList
    BY <1>2, <2>1, <2>5, OpensList DEF Laid
  <2>6. CASE PrintItem
    BY <1>2, <2>1, <2>6, PrintsItem DEF Laid
  <2>7. CASE Close
    <3>1. n \in Nat \ {0}
      BY <2>1, TopCall
    <3>2. CASE n = 1
      BY <1>2, <2>1, <2>7, <3>2, ClosesRoot DEF Laid
    <3>3. CASE n # 1
      <4>1. n > 1
        BY <3>1, <3>3
      <4>. QED  BY <1>2, <2>1, <2>7, <4>1, ClosesInner DEF Laid
    <3>. QED  BY <3>2, <3>3
  <2>. QED  BY <2>2, <2>3, <2>4, <2>5, <2>6, <2>7 DEF Format
<1>3. CASE outcome = "done" /\ out = PrettyText /\ printing = <<>>
  <2>1. out # <<>>
    <3>1. Len(nodes) \in NodeIds
      BY <1>3 DEF Rooted, Grown, Sized
    <3>2. Tree[Len(nodes)] \in Written
      BY <3>1, TreeText
    <3>. QED  BY <1>3, <3>2, PrettyIsTree DEF Written
  <2>. QED
    BY <1>3, <2>1, Zenon DEF Format, StartPrinting, PrintValue, PrintChild, OpenList, PrintItem,
       Close, InNode, InList
<1>. QED  BY <1>1, <1>2, <1>3 DEF Formatted, Laid

\* The parser's variables say what the tree is.
LEMMA TreeSame ==
  ASSUME UNCHANGED vars
  PROVE  /\ Tree' = Tree /\ PrettyText' = PrettyText
         /\ \A id, name : BlockOf(Tree, id, name)' = BlockOf(Tree, id, name)
<1>1. nodes' = nodes /\ lists' = lists /\ tokens' = tokens
  BY DEF vars
<1>2. ASSUME NEW id
      PROVE  IsNumber(id)' <=> IsNumber(id)
  BY <1>1, Zenon DEF IsNumber
<1>3. ASSUME NEW id, NEW name
      PROVE  FieldNodes(id, name)' = FieldNodes(id, name)
  BY <1>1 DEF FieldNodes, TakenLists
<1>4. ASSUME NEW id, NEW name
      PROVE  (IsValue(id, name)' <=> IsValue(id, name)) /\ (IsList(id, name)' <=> IsList(id, name))
  BY <1>1, Zenon DEF IsValue, IsList
<1>5. ASSUME NEW id, NEW name
      PROVE  ValueShown(id, name)' <=> ValueShown(id, name)
  BY <1>1, <1>3, Zenon DEF ValueShown, TokenType
<1>6. ASSUME NEW text, NEW id, NEW name
      PROVE  BlockOf(text, id, name)' = BlockOf(text, id, name)
  BY <1>3, <1>4, <1>5, Zenon DEF BlockOf
<1>7. ASSUME NEW text, NEW id
      PROVE  AllBlocks(text, id)' = AllBlocks(text, id)
  BY <1>1, <1>6 DEF AllBlocks
<1>8. ASSUME NEW text, NEW id
      PROVE  TextStep(text, id)' = TextStep(text, id)
  BY <1>1, <1>2, <1>7, Zenon DEF TextStep
<1>9. ASSUME NEW text
      PROVE  IsTree(text)' <=> IsTree(text)
  BY <1>1, <1>8 DEF IsTree, NodeIds
<1>10. Tree' = Tree
  BY <1>9 DEF Tree
<1>11. PrettyText' = Tree'[Len(nodes')]
  BY Zenon DEF PrettyText, Tree, IsTree, TextStep, AllBlocks, BlockOf, IsNumber,
     NodeWord, ListWord, NodeEnd, ListEnd
<1>12. PrettyText' = PrettyText
  BY <1>1, <1>10, <1>11, PrettyIsTree
<1>13. ASSUME NEW id, NEW name
       PROVE  BlockOf(Tree, id, name)' = BlockOf(Tree, id, name)
  BY <1>3, <1>4, <1>5, <1>10, Zenon DEF BlockOf
<1>. QED  BY <1>10, <1>12, <1>13

\* A step of the formatter leaves the tree alone.
LEMMA LaidSame ==
  ASSUME UNCHANGED vars, Laid(out', fields_printed', indent', printing')
  PROVE  Formatted'
<1>1. /\ nodes' = nodes /\ outcome' = outcome /\ Tree' = Tree /\ PrettyText' = PrettyText
      /\ \A id, name : BlockOf(Tree, id, name)' = BlockOf(Tree, id, name)
  BY TreeSame DEF vars
<1>2. ASSUME NEW id
      PROVE  Names(id)' = Names(id) /\ (IsNumber(id)' <=> IsNumber(id))
  BY <1>1, Zenon DEF Names, IsNumber
<1>3. ASSUME NEW id, NEW i
      PROVE  FieldBlock(id, i)' = FieldBlock(id, i)
  BY <1>1, <1>2, Zenon DEF FieldBlock
<1>4. ASSUME NEW id, NEW n
      PROVE  UpTo(id, n)' = UpTo(id, n)
  BY <1>3 DEF UpTo
<1>5. ASSUME NEW id
      PROVE  InsideOf(id)' = InsideOf(id) /\ Head1(id)' = Head1(id)
  <2>1. Head1(id)' = Head1(id)
    BY <1>1, <1>2, Zenon DEF Head1
  <2>2. InsideOf(id)' = InsideOf(id)
    BY <1>2, <1>4 DEF InsideOf
  <2>. QED  BY <2>1, <2>2
<1>6. ASSUME NEW held, NEW n
      PROVE  Items(held, n)' = Items(held, n)
  BY <1>1 DEF Items
<1>7. ASSUME NEW call, NEW view, NEW open
      PROVE  Fits(call, view, open)' <=> Fits(call, view, open)
  <2>1. NodeFits(call, view, open)' <=> NodeFits(call, view, open)
    BY <1>2, <1>4, <1>5, Zenon DEF NodeFits
  <2>2. ListFits(call, view, open)' <=> ListFits(call, view, open)
    BY <1>1, <1>6, Zenon DEF ListFits, NodeIds
  <2>. QED  BY <2>1, <2>2, Zenon DEF Fits
<1>8. ASSUME NEW call, NEW view, NEW next, NEW inner, NEW depth
      PROVE  Link(call, view, next, inner, depth)' <=> Link(call, view, next, inner, depth)
  BY <1>2, <1>7, Zenon DEF Link
<1>9. ASSUME NEW call, NEW view
      PROVE  Root(call, view)' <=> Root(call, view)
  BY <1>1, <1>5, Zenon DEF Root
<1>10. ASSUME NEW views, NEW calls
       PROVE  Shows(views, calls)' <=> Shows(views, calls)
  <2>1. CallRecord' = CallRecord
    BY <1>1, Zenon DEF CallRecord, NodeIds
  <2>. QED  BY <1>7, <1>8, <1>9, <2>1, Zenon DEF Shows
<1>11. ASSUME NEW text, NEW count, NEW blanks, NEW call, NEW view, NEW depth
       PROVE  Tops(text, count, blanks, call, view, depth)'
                <=> Tops(text, count, blanks, call, view, depth)
  BY <1>2, Zenon DEF Tops, ValueToCome
<1>12. ASSUME NEW text, NEW count, NEW blanks, NEW calls
       PROVE  Progress(text, count, blanks, calls)' <=> Progress(text, count, blanks, calls)
  BY <1>10, <1>11, Zenon DEF Progress
<1>13. ASSUME Progress(out', fields_printed', indent', printing')
       PROVE  Progress(out, fields_printed, indent, printing)'
  <2>1. PICK text, count, blanks, calls :
          text = out' /\ count = fields_printed' /\ blanks = indent' /\ calls = printing'
    OBVIOUS
  <2>. QED  BY <1>12, <1>13, <2>1, Zenon DEF Progress
<1>. QED  BY <1>1, <1>13, Zenon DEF Formatted, Laid

\* Only the end of parse_module ends the parser well, and it makes the root.
LEMMA DoneByRoot == ASSUME Next PROVE MakeModuleNode \/ outcome' # "done"
  BY Running DEF Next, ReadAny, ReadType, Check, Branch, Loop, Call, TailCall, Dispatch,
     MakeOperand, MakeNode, HandOn, FixEnd, FixStart, Rename, Reassign, StartSubmodules,
     ReadLiteral, Refuse, Output

LEMMA RootedStep == Ready /\ Rooted /\ [Next]_vars => Rooted'
<1>1. ASSUME Ready, Next PROVE Rooted'
  <2>1. CASE outcome' # "done"
    BY <2>1 DEF Rooted
  <2>2. CASE MakeModuleNode
    <3>1. PICK node : nodes' = Append(nodes, node)
      BY <2>2 DEF MakeModuleNode
    <3>2. Ready' /\ nodes \in Seq(NodeRecord) /\ nodes' \in Seq(NodeRecord)
      BY <1>1, StepKind DEF Ready, TypeOK
    <3>3. Len(nodes') = Len(nodes) + 1 /\ Len(nodes) \in Nat
      BY <3>1, <3>2
    <3>. QED  BY <3>3 DEF Rooted
  <2>. QED  BY <1>1, <2>1, <2>2, DoneByRoot
<1>2. ASSUME Rooted, UNCHANGED vars PROVE Rooted'
  BY <1>2 DEF Rooted, vars
<1>. QED  BY <1>1, <1>2

\* What holds of the parser and the formatter, on the way to the text.
Printing == Ready /\ Forest /\ Collected /\ Rooted /\ Formatted

\* It holds at first, and every step keeps it.
LEMMA PrintingInit == TestCaseInit => Printing
<1> SUFFICES ASSUME TestCaseInit PROVE Printing
  OBVIOUS
<1>1. Init /\ FormatterInit
  BY DEF TestCaseInit
<1>2. Ready /\ Forest /\ Collected
  BY <1>1, ReadyInit, ForestInit, CollectedInit
<1>3. Rooted
  BY <1>1, Zenon DEF Init, Rooted
<1>4. Formatted
  BY <1>1 DEF FormatterInit, Formatted, Laid
<1>. QED  BY <1>2, <1>3, <1>4 DEF Printing

LEMMA PrintingStep == Printing /\ [TestCaseNext]_all_vars => Printing'
<1> SUFFICES ASSUME Printing, [TestCaseNext]_all_vars PROVE Printing'
  OBVIOUS
<1>1. [Next]_vars
  BY DEF TestCaseNext, all_vars
<1>2. Ready' /\ Forest' /\ Collected' /\ Rooted'
  BY <1>1, ReadyStep, ForestStep, CollectedStep, RootedStep DEF Printing
<1>3. CASE Next /\ UNCHANGED formatter_vars
  <2>1. outcome = "running"
    BY <1>3, Running
  <2>2. out = <<>> /\ fields_printed = 0 /\ indent = 0 /\ printing = <<>>
    BY <2>1 DEF Printing, Formatted, Laid
  <2>3. out' = <<>> /\ fields_printed' = 0 /\ indent' = 0 /\ printing' = <<>>
    BY <1>3, <2>2 DEF formatter_vars
  <2>4. Formatted'
    BY <2>3, Zenon DEF Formatted, Laid
  <2>. QED  BY <1>2, <2>4 DEF Printing
<1>4. CASE UNCHANGED vars /\ (Format \/ UNCHANGED formatter_vars)
  <2>1. Laid(out', fields_printed', indent', printing')
    <3>1. CASE Format
      BY <3>1, TreeGrown, FormatLays DEF Printing
    <3>2. CASE UNCHANGED formatter_vars
      BY <3>2 DEF formatter_vars, Printing, Formatted
    <3>. QED  BY <1>4, <3>1, <3>2
  <2>2. Formatted'
    BY <1>4, <2>1, LaidSame
  <2>. QED  BY <1>2, <2>2 DEF Printing
<1>. QED  BY <1>3, <1>4 DEF TestCaseNext, all_vars

\* Of every file that is parsed, NodeFormatter prints the tree in full: when it is through,
\* the text is the tree laid out, with every field of every node in its place.
THEOREM PrintsInFull == TestCaseSpec => []PrintedInFull
<1>1. Printing => PrintedInFull
  <2> SUFFICES ASSUME Printing, out # <<>>, printing = <<>> PROVE out = PrettyText
    BY DEF PrintedInFull
  <2>1. ~Progress(out, fields_printed, indent, printing)
    <3>1. ASSUME NEW views PROVE ~Shows(views, printing)
      BY ShowsFacts
    <3>. QED  BY <3>1 DEF Progress
  <2>. QED  BY <2>1 DEF Printing, Formatted, Laid
<1>. QED  BY <1>1, PrintingInit, PrintingStep, PTL DEF TestCaseSpec

================================================================================
