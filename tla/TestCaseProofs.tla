---------------------------- MODULE TestCaseProofs ----------------------------
(***************************************************************************)
(* Proofs about TestCases, for every directory, every text a file may hold *)
(* and every compiler whose output ends its lines.                         *)
(*                                                                         *)
(* The searches, the lexer and the outputs are recursive functions.  Each  *)
(* is first shown to satisfy its own equation, by induction on what is     *)
(* left of the text; what they compute follows by the same induction.      *)
(***************************************************************************)
EXTENDS TestCases, FiniteSetTheorems, SequenceTheorems, WellFoundedInduction, TLAPS

-----------------------------------------------------------------------------
(* Induction                                                               *)

\* A set of natural numbers that is not empty has a least element.
LEMMA Least ==
  ASSUME NEW S, S \subseteq Nat, S # {}
  PROVE  \E x \in S : \A y \in S : x <= y
<1> DEFINE R == {ss \in Nat \X Nat : ss[1] < ss[2]}
<1>1. IsWellFoundedOn(R, Nat)
  BY NatLessThanWellFounded DEF OpToRel
<1> HIDE DEF R
<1>2. PICK x \in S : \A y \in S : <<y, x>> \notin R
  BY <1>1, WFMin
<1>3. \A y \in S : ~(y < x)
  BY <1>2 DEF R
<1>. QED  BY <1>2, <1>3

\* Induction over the numbers, for a set.
LEMMA Upwards ==
  ASSUME NEW S, 0 \in S, \A n \in Nat : n \in S => n + 1 \in S
  PROVE  \A n \in Nat : n \in S
<1> SUFFICES ASSUME NEW n \in Nat, n \notin S
             PROVE  FALSE
  OBVIOUS
<1> DEFINE Missing == {m \in Nat : m \notin S}
<1>1. PICK x \in Missing : \A y \in Missing : x <= y
  BY Least
<1>2. x # 0 /\ x - 1 \in Nat /\ x - 1 \in S
  BY <1>1
<1>. QED  BY <1>1, <1>2

\* Induction from the end of a text towards a position.
FromBehind(S, first, last) ==
  \A i \in first .. last : (\A j \in i + 1 .. last : j \in S) => i \in S

LEMMA Backwards ==
  ASSUME NEW S, NEW first \in Nat, NEW last \in Nat, FromBehind(S, first, last)
  PROVE  \A i \in first .. last : i \in S
<1> SUFFICES ASSUME NEW i \in first .. last, i \notin S
             PROVE  FALSE
  OBVIOUS
<1> DEFINE Missing == {m \in Nat : m <= last - first /\ last - m \notin S}
<1>1. last - i \in Missing
  OBVIOUS
<1>2. PICK x \in Missing : \A y \in Missing : x <= y
  BY <1>1, Least
<1>3. ASSUME NEW j \in (last - x) + 1 .. last
      PROVE  j \in S
  <2>1. last - j \in Nat /\ last - j < x /\ last - j <= last - first /\ last - (last - j) = j
    BY <1>2
  <2>2. last - j \in Missing => x <= last - j
    BY <1>2
  <2>3. last - j \notin Missing
    BY <2>1, <2>2, <1>2
  <2>. QED  BY <2>1, <2>3
<1>4. last - x \in first .. last
  BY <1>2
<1>5. last - x \in S
  BY <1>3, <1>4 DEF FromBehind
<1>. QED  BY <1>2, <1>5

-----------------------------------------------------------------------------
(* The search                                                              *)

SearchStates(text, sub) ==
  (1 .. Len(text) + 1) \X (1 .. Len(text) + 1) \X (0 .. Len(sub))

SearchStep(text, sub, f, at) ==
  IF at[3] = Len(sub) THEN at[1]
  ELSE IF AtEnd(text, at[2]) THEN at[2]
  ELSE IF text[at[2]] = sub[at[3] + 1]
       THEN f[<<at[1], at[2] + 1, at[3] + 1>>]
       ELSE f[<<at[2] + 1, at[2] + 1, 0>>]

IsSearch(text, sub, f) ==
  f = [at \in SearchStates(text, sub) |-> SearchStep(text, sub, f, at)]

\* A step looks only at states whose current character is further on.
LEMMA SearchStepDepends ==
  ASSUME NEW text \in Seq(Characters), NEW sub \in Seq(Characters), NEW f, NEW g,
         NEW at \in SearchStates(text, sub),
         \A next \in SearchStates(text, sub) : next[2] > at[2] => f[next] = g[next]
  PROVE  SearchStep(text, sub, f, at) = SearchStep(text, sub, g, at)
<1>1. PICK s \in 1 .. Len(text) + 1, c \in 1 .. Len(text) + 1, m \in 0 .. Len(sub) :
        at = <<s, c, m>>
  BY DEF SearchStates
<1>2. Len(text) \in Nat /\ Len(sub) \in Nat
  OBVIOUS
<1>3. CASE m = Len(sub) \/ c > Len(text)
  BY <1>1, <1>3 DEF SearchStep, AtEnd
<1>4. CASE m # Len(sub) /\ ~(c > Len(text))
  <2>1. c + 1 \in 1 .. Len(text) + 1 /\ m + 1 \in 0 .. Len(sub) /\ 0 \in 0 .. Len(sub)
    BY <1>2, <1>4
  <2>2. f[<<s, c + 1, m + 1>>] = g[<<s, c + 1, m + 1>>]
    <3>1. <<s, c + 1, m + 1>> \in SearchStates(text, sub)
      BY <2>1 DEF SearchStates
    <3>. QED  BY <1>1, <3>1
  <2>3. f[<<c + 1, c + 1, 0>>] = g[<<c + 1, c + 1, 0>>]
    <3>1. <<c + 1, c + 1, 0>> \in SearchStates(text, sub)
      BY <2>1 DEF SearchStates
    <3>. QED  BY <1>1, <3>1
  <2>. QED  BY <1>1, <2>2, <2>3 DEF SearchStep
<1>. QED  BY <1>3, <1>4

\* There is a function that satisfies the equation of the search.
LEMMA SearchExists ==
  ASSUME NEW text \in Seq(Characters), NEW sub \in Seq(Characters)
  PROVE  \E f : IsSearch(text, sub, f)
<1> DEFINE D == SearchStates(text, sub)
           Right(f, k) == \A at \in D : at[2] + k > Len(text) =>
                            f[at] = SearchStep(text, sub, f, at)
           S == {k \in Nat : \E f : Right(f, k)}
<1>0. Len(text) \in Nat /\ \A at \in D : at[2] \in 1 .. Len(text) + 1
  BY DEF SearchStates
<1> HIDE DEF D
<1>1. 0 \in S
  <2> DEFINE f == [at \in D |-> IF at[3] = Len(sub) THEN at[1] ELSE at[2]]
  <2>1. Right(f, 0)
    BY <1>0 DEF SearchStep, AtEnd
  <2>. QED  BY <2>1
<1>2. ASSUME NEW k \in Nat, k \in S
      PROVE  k + 1 \in S
  <2>1. PICK f : Right(f, k)
    BY <1>2
  <2> DEFINE g == [at \in D |-> SearchStep(text, sub, f, at)]
  <2>2. \A at \in D : at[2] + k > Len(text) => g[at] = f[at]
    BY <2>1
  <2>3. \A at \in D : g[at] = SearchStep(text, sub, f, at)
    OBVIOUS
  <2> HIDE DEF g
  <2>4. ASSUME NEW at \in D, at[2] + (k + 1) > Len(text)
        PROVE  g[at] = SearchStep(text, sub, g, at)
    <3>1. \A next \in D : next[2] > at[2] => f[next] = g[next]
      BY <1>0, <2>2, <2>4
    <3>2. SearchStep(text, sub, f, at) = SearchStep(text, sub, g, at)
      BY <3>1, SearchStepDepends DEF D
    <3>. QED  BY <2>3, <3>2
  <2>. QED  BY <2>4
<1>3. Len(text) \in S
  <2> HIDE DEF S
  <2>. QED  BY <1>0, <1>1, <1>2, Upwards
<1>4. PICK f : Right(f, Len(text))
  BY <1>3
<1> DEFINE g == [at \in D |-> f[at]]
<1>5. ASSUME NEW at \in D
      PROVE  f[at] = SearchStep(text, sub, g, at)
  <2>1. f[at] = SearchStep(text, sub, f, at)
    BY <1>0, <1>4
  <2>2. \A next \in D : f[next] = g[next]
    OBVIOUS
  <2> HIDE DEF g
  <2>. QED  BY <2>1, <2>2, SearchStepDepends DEF D
<1>6. g = [at \in D |-> SearchStep(text, sub, g, at)]
  <2> SUFFICES \A at \in D : f[at] = SearchStep(text, sub, g, at)
    BY Zenon
  <2>. QED  BY <1>5
<1>. QED  BY <1>6 DEF IsSearch, D

\* It is the one that FindAfter chooses.
Search(text, sub) == CHOOSE f : IsSearch(text, sub, f)

LEMMA SearchEquation ==
  ASSUME NEW text \in Seq(Characters), NEW sub \in Seq(Characters),
         NEW at \in SearchStates(text, sub)
  PROVE  Search(text, sub)[at] = SearchStep(text, sub, Search(text, sub), at)
<1>1. IsSearch(text, sub, Search(text, sub))
  BY SearchExists, Zenon DEF Search
<1> DEFINE f == Search(text, sub)
<1> HIDE DEF f
<1>2. IsSearch(text, sub, f)
  BY <1>1 DEF f
<1>3. f[at] = SearchStep(text, sub, f, at)
  BY <1>2 DEF IsSearch
<1>. QED  BY <1>3 DEF f

LoopAt(text, sub, s, c, m) == Search(text, sub)[<<s, c, m>>]

LEMMA SearchAt ==
  ASSUME NEW text \in Seq(Characters), NEW sub \in Seq(Characters),
         NEW s \in 1 .. Len(text) + 1, NEW c \in 1 .. Len(text) + 1, NEW m \in 0 .. Len(sub)
  PROVE  LoopAt(text, sub, s, c, m) =
           IF m = Len(sub) THEN s
           ELSE IF c > Len(text) THEN c
           ELSE IF text[c] = sub[m + 1] THEN LoopAt(text, sub, s, c + 1, m + 1)
           ELSE LoopAt(text, sub, c + 1, c + 1, 0)
<1>1. <<s, c, m>> \in SearchStates(text, sub)
  BY DEF SearchStates
<1>2. Search(text, sub)[<<s, c, m>>] = SearchStep(text, sub, Search(text, sub), <<s, c, m>>)
  BY <1>1, SearchEquation
<1> DEFINE f == Search(text, sub)
<1> HIDE DEF f
<1>3. SearchStep(text, sub, f, <<s, c, m>>) =
           IF m = Len(sub) THEN s
           ELSE IF c > Len(text) THEN c
           ELSE IF text[c] = sub[m + 1] THEN f[<<s, c + 1, m + 1>>]
           ELSE f[<<c + 1, c + 1, 0>>]
  BY DEF SearchStep, AtEnd
<1>. QED  BY <1>2, <1>3 DEF f, LoopAt

LEMMA FindAfterSearches ==
  ASSUME NEW text \in Seq(Characters), NEW sub \in Seq(Characters), NEW from
  PROVE  FindAfter(text, sub, from) = LoopAt(text, sub, from, from, 0)
  BY DEF FindAfter, LoopAt, Search, IsSearch, SearchStates, SearchStep

LEMMA Delimiters ==
  /\ Footer \in Seq(Characters) /\ Len(Footer) = 2 /\ Footer[1] = "*" /\ Footer[2] = "/"
  /\ Header \in Seq(Characters) /\ Len(Header) = 3
  /\ Header[1] = "/" /\ Header[2] = "*" /\ Header[3] = "\n"
  BY CharactersAssumption DEF Footer, Header

\* The search for the footer, from position i.
LEMMA FindFooter ==
  ASSUME NEW text \in Seq(Characters), NEW i \in 1 .. Len(text) + 1
  PROVE  FindAfter(text, Footer, i) =
           IF i > Len(text) THEN i
           ELSE IF text[i] # "*" THEN FindAfter(text, Footer, i + 1)
           ELSE IF i + 1 > Len(text) THEN i + 1
           ELSE IF text[i + 1] = "/" THEN i
           ELSE FindAfter(text, Footer, i + 2)
<1> DEFINE F == Search(text, Footer)
<1>1. \A s, c \in 1 .. Len(text) + 1 : \A m \in 0 .. Len(Footer) :
        LoopAt(text, Footer, s, c, m) =
          IF m = Len(Footer) THEN s
          ELSE IF c > Len(text) THEN c
          ELSE IF text[c] = Footer[m + 1] THEN LoopAt(text, Footer, s, c + 1, m + 1)
          ELSE LoopAt(text, Footer, c + 1, c + 1, 0)
  BY Delimiters, SearchAt
<1>2. \A from : FindAfter(text, Footer, from) = LoopAt(text, Footer, from, from, 0)
  BY Delimiters, FindAfterSearches
<1>3. Len(text) \in Nat
  OBVIOUS
<1>4. LoopAt(text, Footer, i, i, 0) = IF i > Len(text) THEN i
                       ELSE IF text[i] = "*" THEN LoopAt(text, Footer, i, i + 1, 1)
                       ELSE LoopAt(text, Footer, i + 1, i + 1, 0)
  BY <1>1, <1>3, Delimiters
<1>5. ASSUME i <= Len(text)
      PROVE  LoopAt(text, Footer, i, i + 1, 1) = IF i + 1 > Len(text) THEN i + 1
                                  ELSE IF text[i + 1] = "/" THEN LoopAt(text, Footer, i, i + 2, 2)
                                  ELSE LoopAt(text, Footer, i + 2, i + 2, 0)
  BY <1>1, <1>3, <1>5, Delimiters
<1>6. ASSUME i + 1 <= Len(text)
      PROVE  LoopAt(text, Footer, i, i + 2, 2) = i
  BY <1>1, <1>3, <1>6, Delimiters
<1>7. /\ FindAfter(text, Footer, i) = LoopAt(text, Footer, i, i, 0)
      /\ FindAfter(text, Footer, i + 1) = LoopAt(text, Footer, i + 1, i + 1, 0)
      /\ FindAfter(text, Footer, i + 2) = LoopAt(text, Footer, i + 2, i + 2, 0)
  BY <1>2
<1>. QED  BY <1>3, <1>4, <1>5, <1>6, <1>7

\* The search for the header, from position i.
LEMMA FindHeader ==
  ASSUME NEW text \in Seq(Characters), NEW i \in 1 .. Len(text) + 1
  PROVE  FindAfter(text, Header, i) =
           IF i > Len(text) THEN i
           ELSE IF text[i] # "/" THEN FindAfter(text, Header, i + 1)
           ELSE IF i + 1 > Len(text) THEN i + 1
           ELSE IF text[i + 1] # "*" THEN FindAfter(text, Header, i + 2)
           ELSE IF i + 2 > Len(text) THEN i + 2
           ELSE IF text[i + 2] = "\n" THEN i
           ELSE FindAfter(text, Header, i + 3)
<1> DEFINE F == Search(text, Header)
<1>1. \A s, c \in 1 .. Len(text) + 1 : \A m \in 0 .. Len(Header) :
        LoopAt(text, Header, s, c, m) =
          IF m = Len(Header) THEN s
          ELSE IF c > Len(text) THEN c
          ELSE IF text[c] = Header[m + 1] THEN LoopAt(text, Header, s, c + 1, m + 1)
          ELSE LoopAt(text, Header, c + 1, c + 1, 0)
  BY Delimiters, SearchAt
<1>2. \A from : FindAfter(text, Header, from) = LoopAt(text, Header, from, from, 0)
  BY Delimiters, FindAfterSearches
<1>3. Len(text) \in Nat
  OBVIOUS
<1>4. LoopAt(text, Header, i, i, 0) = IF i > Len(text) THEN i
                       ELSE IF text[i] = "/" THEN LoopAt(text, Header, i, i + 1, 1)
                       ELSE LoopAt(text, Header, i + 1, i + 1, 0)
  BY <1>1, <1>3, Delimiters
<1>5. ASSUME i <= Len(text)
      PROVE  LoopAt(text, Header, i, i + 1, 1) = IF i + 1 > Len(text) THEN i + 1
                                  ELSE IF text[i + 1] = "*" THEN LoopAt(text, Header, i, i + 2, 2)
                                  ELSE LoopAt(text, Header, i + 2, i + 2, 0)
  BY <1>1, <1>3, <1>5, Delimiters
<1>6. ASSUME i + 1 <= Len(text)
      PROVE  LoopAt(text, Header, i, i + 2, 2) = IF i + 2 > Len(text) THEN i + 2
                                  ELSE IF text[i + 2] = "\n" THEN LoopAt(text, Header, i, i + 3, 3)
                                  ELSE LoopAt(text, Header, i + 3, i + 3, 0)
  BY <1>1, <1>3, <1>6, Delimiters
<1>7. ASSUME i + 2 <= Len(text)
      PROVE  LoopAt(text, Header, i, i + 3, 3) = i
  BY <1>1, <1>3, <1>7, Delimiters
<1>8. /\ FindAfter(text, Header, i) = LoopAt(text, Header, i, i, 0)
      /\ FindAfter(text, Header, i + 1) = LoopAt(text, Header, i + 1, i + 1, 0)
      /\ FindAfter(text, Header, i + 2) = LoopAt(text, Header, i + 2, i + 2, 0)
      /\ FindAfter(text, Header, i + 3) = LoopAt(text, Header, i + 3, i + 3, 0)
  BY <1>2
<1>. QED  BY <1>3, <1>4, <1>5, <1>6, <1>7, <1>8

\* What the search for the footer finds is there, at or behind the position.
LEMMA FooterFound ==
  ASSUME NEW text \in Seq(Characters), NEW i \in 1 .. Len(text) + 1
  PROVE  LET f == FindAfter(text, Footer, i)
         IN  /\ f \in i .. Len(text) + 1
             /\ f <= Len(text) =>
                  /\ f + 1 <= Len(text)
                  /\ text[f] = "*" /\ text[f + 1] = "/"
<1> DEFINE F(j) == FindAfter(text, Footer, j)
           Found(j) == /\ F(j) \in j .. Len(text) + 1
                       /\ F(j) <= Len(text) =>
                            F(j) + 1 <= Len(text) /\ text[F(j)] = "*" /\ text[F(j) + 1] = "/"
           S == {j \in 1 .. Len(text) + 1 : Found(j)}
<1>1. \A j \in 1 .. Len(text) + 1 :
        F(j) = IF j > Len(text) THEN j
               ELSE IF text[j] # "*" THEN F(j + 1)
               ELSE IF j + 1 > Len(text) THEN j + 1
               ELSE IF text[j + 1] = "/" THEN j
               ELSE F(j + 2)
  BY FindFooter
<1> HIDE DEF F
<1>2. Len(text) \in Nat
  OBVIOUS
<1>3. ASSUME NEW j \in 1 .. Len(text) + 1, \A k \in j + 1 .. Len(text) + 1 : Found(k)
      PROVE  Found(j)
  <2>1. j + 1 <= Len(text) + 1 => Found(j + 1)
    BY <1>2, <1>3
  <2>2. j + 2 <= Len(text) + 1 => Found(j + 2)
    BY <1>2, <1>3
  <2>. QED  BY <1>1, <1>2, <2>1, <2>2
<1>4. \A j \in 1 .. Len(text) + 1 : j \in S
  <2>1. FromBehind(S, 1, Len(text) + 1)
    BY <1>3 DEF FromBehind
  <2> HIDE DEF S
  <2>. QED  BY <1>2, <2>1, Backwards
<1>. QED  BY <1>4 DEF F

\* A line end is where the search starts afresh, unless it has found a footer before.
LEMMA FooterAcrossLine ==
  ASSUME NEW text \in Seq(Characters), NEW k \in 1 .. Len(text), text[k] = "\n",
         NEW i \in 1 .. k
  PROVE  \/ FindAfter(text, Footer, i) + 1 < k
         \/ FindAfter(text, Footer, i) = FindAfter(text, Footer, k + 1)
<1> DEFINE F(j) == FindAfter(text, Footer, j)
           S == {j \in 1 .. k : F(j) + 1 < k \/ F(j) = F(k + 1)}
<1>1. \A j \in 1 .. Len(text) + 1 :
        F(j) = IF j > Len(text) THEN j
               ELSE IF text[j] # "*" THEN F(j + 1)
               ELSE IF j + 1 > Len(text) THEN j + 1
               ELSE IF text[j + 1] = "/" THEN j
               ELSE F(j + 2)
  BY FindFooter
<1> HIDE DEF F
<1>2. Len(text) \in Nat
  OBVIOUS
<1>3. ASSUME NEW j \in 1 .. k, \A l \in j + 1 .. k : l \in S
      PROVE  j \in S
  <2>1. j + 1 <= k => F(j + 1) + 1 < k \/ F(j + 1) = F(k + 1)
    BY <1>3
  <2>2. j + 2 <= k => F(j + 2) + 1 < k \/ F(j + 2) = F(k + 1)
    BY <1>3
  <2>3. CASE j = k
    BY <1>1, <1>2, <2>3
  <2>4. CASE j < k /\ text[j] # "*"
    BY <1>1, <1>2, <2>1, <2>4
  <2>5. CASE j < k /\ text[j] = "*"
    BY <1>1, <1>2, <2>2, <2>5
  <2>. QED  BY <2>3, <2>4, <2>5
<1>4. \A j \in 1 .. k : j \in S
  <2>1. FromBehind(S, 1, k)
    BY <1>3 DEF FromBehind
  <2> HIDE DEF S
  <2>. QED  BY <2>1, Backwards
<1>. QED  BY <1>4 DEF F

LEMMA HeaderFound ==
  ASSUME NEW text \in Seq(Characters), NEW i \in 1 .. Len(text) + 1
  PROVE  LET f == FindAfter(text, Header, i)
         IN  /\ f \in i .. Len(text) + 1
             /\ f <= Len(text) =>
                  /\ f + 2 <= Len(text)
                  /\ text[f] = "/" /\ text[f + 1] = "*" /\ text[f + 2] = "\n"
<1> DEFINE F(j) == FindAfter(text, Header, j)
           Found(j) == /\ F(j) \in j .. Len(text) + 1
                       /\ F(j) <= Len(text) =>
                            /\ F(j) + 2 <= Len(text)
                            /\ text[F(j)] = "/" /\ text[F(j) + 1] = "*" /\ text[F(j) + 2] = "\n"
           S == {j \in 1 .. Len(text) + 1 : Found(j)}
<1>1. \A j \in 1 .. Len(text) + 1 :
        F(j) = IF j > Len(text) THEN j
               ELSE IF text[j] # "/" THEN F(j + 1)
               ELSE IF j + 1 > Len(text) THEN j + 1
               ELSE IF text[j + 1] # "*" THEN F(j + 2)
               ELSE IF j + 2 > Len(text) THEN j + 2
               ELSE IF text[j + 2] = "\n" THEN j
               ELSE F(j + 3)
  BY FindHeader
<1> HIDE DEF F
<1>2. Len(text) \in Nat
  OBVIOUS
<1>3. ASSUME NEW j \in 1 .. Len(text) + 1, \A k \in j + 1 .. Len(text) + 1 : Found(k)
      PROVE  Found(j)
  <2>1. j + 1 <= Len(text) + 1 => Found(j + 1)
    BY <1>2, <1>3
  <2>2. j + 2 <= Len(text) + 1 => Found(j + 2)
    BY <1>2, <1>3
  <2>3. j + 3 <= Len(text) + 1 => Found(j + 3)
    BY <1>2, <1>3
  <2>4. CASE j > Len(text) \/ text[j] # "/"
    BY <1>1, <1>2, <2>1, <2>4
  <2>5. CASE j <= Len(text) /\ text[j] = "/" /\ (j + 1 > Len(text) \/ text[j + 1] # "*")
    BY <1>1, <1>2, <2>2, <2>5
  <2>6. CASE j + 1 <= Len(text) /\ text[j] = "/" /\ text[j + 1] = "*"
    BY <1>1, <1>2, <2>3, <2>6
  <2>. QED  BY <1>2, <2>4, <2>5, <2>6
<1>4. \A j \in 1 .. Len(text) + 1 : j \in S
  <2>1. FromBehind(S, 1, Len(text) + 1)
    BY <1>3 DEF FromBehind
  <2> HIDE DEF S
  <2>. QED  BY <1>2, <2>1, Backwards
<1>. QED  BY <1>4 DEF F

LEMMA HeaderAcrossLine ==
  ASSUME NEW text \in Seq(Characters), NEW k \in 1 .. Len(text), text[k] = "\n",
         NEW i \in 1 .. k
  PROVE  \/ FindAfter(text, Header, i) + 2 <= k
         \/ FindAfter(text, Header, i) = FindAfter(text, Header, k + 1)
<1> DEFINE F(j) == FindAfter(text, Header, j)
           S == {j \in 1 .. k : F(j) + 2 <= k \/ F(j) = F(k + 1)}
<1>1. \A j \in 1 .. Len(text) + 1 :
        F(j) = IF j > Len(text) THEN j
               ELSE IF text[j] # "/" THEN F(j + 1)
               ELSE IF j + 1 > Len(text) THEN j + 1
               ELSE IF text[j + 1] # "*" THEN F(j + 2)
               ELSE IF j + 2 > Len(text) THEN j + 2
               ELSE IF text[j + 2] = "\n" THEN j
               ELSE F(j + 3)
  BY FindHeader
<1> HIDE DEF F
<1>2. Len(text) \in Nat
  OBVIOUS
<1>3. ASSUME NEW j \in 1 .. k, \A l \in j + 1 .. k : l \in S
      PROVE  j \in S
  <2>1. j + 1 <= k => F(j + 1) + 2 <= k \/ F(j + 1) = F(k + 1)
    BY <1>3
  <2>2. j + 2 <= k => F(j + 2) + 2 <= k \/ F(j + 2) = F(k + 1)
    BY <1>3
  <2>3. j + 3 <= k => F(j + 3) + 2 <= k \/ F(j + 3) = F(k + 1)
    BY <1>3
  <2>4. CASE j = k
    BY <1>1, <1>2, <2>4
  <2>5. CASE j < k /\ text[j] # "/"
    BY <1>1, <1>2, <2>1, <2>5
  <2>6. CASE j < k /\ text[j] = "/" /\ text[j + 1] # "*"
    BY <1>1, <1>2, <2>2, <2>6
  <2>7. CASE j < k /\ text[j] = "/" /\ text[j + 1] = "*"
    <3>1. j + 2 <= k
      BY <2>7
    <3>. QED  BY <1>1, <1>2, <2>3, <2>7, <3>1
  <2>. QED  BY <2>4, <2>5, <2>6, <2>7
<1>4. \A j \in 1 .. k : j \in S
  <2>1. FromBehind(S, 1, k)
    BY <1>3 DEF FromBehind
  <2> HIDE DEF S
  <2>. QED  BY <2>1, Backwards
<1>. QED  BY <1>4 DEF F

\* A header found in the common beginning of two texts is found in both.
LEMMA HeaderInBoth ==
  ASSUME NEW one \in Seq(Characters), NEW two \in Seq(Characters),
         NEW n \in 0 .. Len(one), n <= Len(two), \A k \in 1 .. n : one[k] = two[k],
         NEW i \in 1 .. n + 1, FindAfter(one, Header, i) + 2 <= n
  PROVE  FindAfter(two, Header, i) = FindAfter(one, Header, i)
<1> DEFINE F(j) == FindAfter(one, Header, j)
           G(j) == FindAfter(two, Header, j)
           S == {j \in 1 .. n + 1 : F(j) + 2 <= n => G(j) = F(j)}
<1>1. \A j \in 1 .. Len(one) + 1 :
        F(j) = IF j > Len(one) THEN j
               ELSE IF one[j] # "/" THEN F(j + 1)
               ELSE IF j + 1 > Len(one) THEN j + 1
               ELSE IF one[j + 1] # "*" THEN F(j + 2)
               ELSE IF j + 2 > Len(one) THEN j + 2
               ELSE IF one[j + 2] = "\n" THEN j
               ELSE F(j + 3)
  BY FindHeader
<1>2. \A j \in 1 .. Len(two) + 1 :
        G(j) = IF j > Len(two) THEN j
               ELSE IF two[j] # "/" THEN G(j + 1)
               ELSE IF j + 1 > Len(two) THEN j + 1
               ELSE IF two[j + 1] # "*" THEN G(j + 2)
               ELSE IF j + 2 > Len(two) THEN j + 2
               ELSE IF two[j + 2] = "\n" THEN j
               ELSE G(j + 3)
  BY FindHeader
<1>3. \A j \in 1 .. Len(one) + 1 : F(j) \in j .. Len(one) + 1
  BY HeaderFound
<1> HIDE DEF F, G
<1>4. Len(one) \in Nat /\ Len(two) \in Nat /\ n \in Nat
  OBVIOUS
<1>5. ASSUME NEW j \in 1 .. n + 1, \A l \in j + 1 .. n + 1 : l \in S
      PROVE  j \in S
  <2> SUFFICES ASSUME F(j) + 2 <= n
               PROVE  G(j) = F(j)
    OBVIOUS
  <2>1. j + 2 <= n
    BY <1>3, <1>4
  <2>2. one[j] = two[j] /\ one[j + 1] = two[j + 1] /\ one[j + 2] = two[j + 2]
    BY <1>4, <2>1
  <2>3. /\ F(j + 1) + 2 <= n => G(j + 1) = F(j + 1)
        /\ F(j + 2) + 2 <= n => G(j + 2) = F(j + 2)
        /\ F(j + 3) + 2 <= n => G(j + 3) = F(j + 3)
    BY <1>4, <1>5, <2>1
  <2>4. F(j) = IF one[j] # "/" THEN F(j + 1)
               ELSE IF one[j + 1] # "*" THEN F(j + 2)
               ELSE IF one[j + 2] = "\n" THEN j
               ELSE F(j + 3)
    <3>1. j \in 1 .. Len(one) + 1 /\ ~(j > Len(one)) /\ ~(j + 1 > Len(one)) /\ ~(j + 2 > Len(one))
      BY <1>4, <2>1
    <3>. QED  BY ONLY <1>1, <3>1
  <2>5. G(j) = IF two[j] # "/" THEN G(j + 1)
               ELSE IF two[j + 1] # "*" THEN G(j + 2)
               ELSE IF two[j + 2] = "\n" THEN j
               ELSE G(j + 3)
    <3>1. j \in 1 .. Len(two) + 1 /\ ~(j > Len(two)) /\ ~(j + 1 > Len(two)) /\ ~(j + 2 > Len(two))
      BY <1>4, <2>1
    <3>. QED  BY ONLY <1>2, <3>1
  <2>. QED  BY <2>2, <2>3, <2>4, <2>5
<1>6. \A j \in 1 .. n + 1 : j \in S
  <2>1. FromBehind(S, 1, n + 1)
    BY <1>5 DEF FromBehind
  <2> HIDE DEF S
  <2>. QED  BY <1>4, <2>1, Backwards
<1>. QED  BY <1>6 DEF F, G

-----------------------------------------------------------------------------
(* A file that is rewritten                                                *)

\* The text two is the text one with a new section in place of positions h to
\* t - 1, whose footer is at position e.
Rewritten(one, two, output, h, t, e) ==
  /\ h \in 1 .. Len(one) + 1 /\ t \in h .. Len(one) + 1
  /\ e = h + 3 + Len(output)
  /\ two \in Seq(Characters)
  /\ Len(two) = IF t > Len(one) THEN e + 2 ELSE e + 2 + Len(one) - t
  /\ \A k \in 1 .. h - 1 : two[k] = one[k]
  /\ two[h] = "/" /\ two[h + 1] = "*" /\ two[h + 2] = "\n"
  /\ \A k \in 1 .. Len(output) : two[h + 2 + k] = output[k]
  /\ two[e] = "*" /\ two[e + 1] = "/"
  /\ t > Len(one) => two[e + 2] = "\n"
  /\ \A k \in t .. Len(one) : two[k - t + e + 2] = one[k]

HeaderOf(text) == Find(text, Header)
FooterOf(text) == FindAfter(text, Footer, HeaderOf(text))
TailOf(text) == IF AtEnd(text, FooterOf(text)) THEN FooterOf(text) ELSE FooterOf(text) + 2

LEMMA HeaderIs ==
  ASSUME NEW text \in Seq(Characters)
  PROVE  LET h == HeaderOf(text)
         IN  /\ h \in 1 .. Len(text) + 1
             /\ h <= Len(text) =>
                  h + 2 <= Len(text) /\ text[h] = "/" /\ text[h + 1] = "*" /\ text[h + 2] = "\n"
<1>1. 1 \in 1 .. Len(text) + 1
  OBVIOUS
<1>. QED  BY <1>1, HeaderFound DEF HeaderOf, Find

LEMMA FooterIs ==
  ASSUME NEW text \in Seq(Characters)
  PROVE  LET f == FooterOf(text)
         IN  /\ f \in HeaderOf(text) .. Len(text) + 1
             /\ f <= Len(text) => f + 1 <= Len(text) /\ text[f] = "*" /\ text[f + 1] = "/"
             /\ TailOf(text) = IF f > Len(text) THEN Len(text) + 1 ELSE f + 2
             /\ TailOf(text) \in f .. Len(text) + 1
<1>1. HeaderOf(text) \in 1 .. Len(text) + 1
  BY HeaderIs
<1>2. LET f == FooterOf(text)
      IN  /\ f \in HeaderOf(text) .. Len(text) + 1
          /\ f <= Len(text) => f + 1 <= Len(text) /\ text[f] = "*" /\ text[f + 1] = "/"
  BY <1>1, FooterFound DEF FooterOf
<1>3. Len(text) \in Nat
  OBVIOUS
<1>. QED  BY <1>1, <1>2, <1>3 DEF TailOf, AtEnd

\* What is where in texts put side by side.
LEMMA JoinTwo ==
  ASSUME NEW a \in Seq(Characters), NEW b \in Seq(Characters)
  PROVE  /\ a \o b \in Seq(Characters) /\ Len(a \o b) = Len(a) + Len(b)
         /\ \A k \in 1 .. Len(a) : (a \o b)[k] = a[k]
         /\ \A k \in 1 .. Len(b) : (a \o b)[Len(a) + k] = b[k]
<1>1. a \o b \in Seq(Characters) /\ Len(a \o b) = Len(a) + Len(b)
  OBVIOUS
<1>2. ASSUME NEW k \in 1 .. Len(a)
      PROVE  (a \o b)[k] = a[k]
  OBVIOUS
<1>3. ASSUME NEW k \in 1 .. Len(b)
      PROVE  (a \o b)[Len(a) + k] = b[k]
  OBVIOUS
<1>. QED  BY <1>1, <1>2, <1>3

ThreeParts(s, a, b, c) ==
  /\ s \in Seq(Characters) /\ Len(s) = Len(a) + Len(b) + Len(c)
  /\ \A k \in 1 .. Len(a) : s[k] = a[k]
  /\ \A k \in 1 .. Len(b) : s[Len(a) + k] = b[k]
  /\ \A k \in 1 .. Len(c) : s[Len(a) + Len(b) + k] = c[k]

LEMMA JoinThree ==
  ASSUME NEW a \in Seq(Characters), NEW b \in Seq(Characters), NEW c \in Seq(Characters)
  PROVE  ThreeParts(a \o b \o c, a, b, c)
<1>1. PICK ab : ab = a \o b
  OBVIOUS
<1>2. /\ ab \in Seq(Characters) /\ Len(ab) = Len(a) + Len(b)
      /\ \A k \in 1 .. Len(a) : ab[k] = a[k]
      /\ \A k \in 1 .. Len(b) : ab[Len(a) + k] = b[k]
  BY <1>1, JoinTwo
<1>3. PICK abc : abc = ab \o c
  OBVIOUS
<1>4. /\ abc \in Seq(Characters) /\ Len(abc) = Len(ab) + Len(c)
      /\ \A k \in 1 .. Len(ab) : abc[k] = ab[k]
      /\ \A k \in 1 .. Len(c) : abc[Len(ab) + k] = c[k]
  BY <1>2, <1>3, JoinTwo
<1>5. Len(a) \in Nat /\ Len(b) \in Nat /\ Len(c) \in Nat
  OBVIOUS
<1>6. \A k \in 1 .. Len(a) : abc[k] = a[k]
  BY <1>2, <1>4, <1>5
<1>7. \A k \in 1 .. Len(b) : abc[Len(a) + k] = b[k]
  BY <1>2, <1>4, <1>5
<1>8. \A k \in 1 .. Len(c) : abc[Len(a) + Len(b) + k] = c[k]
  BY <1>2, <1>4
<1>9. abc = a \o b \o c
  BY <1>1, <1>3
<1>10. Len(abc) = Len(a) + Len(b) + Len(c)
  BY <1>2, <1>4
<1>. QED  BY ONLY <1>4, <1>6, <1>7, <1>8, <1>9, <1>10 DEF ThreeParts

FiveParts(s, a, b, c, d, f) ==
  /\ s \in Seq(Characters)
  /\ Len(s) = Len(a) + Len(b) + Len(c) + Len(d) + Len(f)
  /\ \A k \in 1 .. Len(a) : s[k] = a[k]
  /\ \A k \in 1 .. Len(b) : s[Len(a) + k] = b[k]
  /\ \A k \in 1 .. Len(c) : s[Len(a) + Len(b) + k] = c[k]
  /\ \A k \in 1 .. Len(d) : s[Len(a) + Len(b) + Len(c) + k] = d[k]
  /\ \A k \in 1 .. Len(f) : s[Len(a) + Len(b) + Len(c) + Len(d) + k] = f[k]

LEMMA Joined ==
  ASSUME NEW a \in Seq(Characters), NEW b \in Seq(Characters), NEW c \in Seq(Characters),
         NEW d \in Seq(Characters), NEW f \in Seq(Characters)
  PROVE  FiveParts(a \o b \o c \o d \o f, a, b, c, d, f)
<1>1. PICK abc : abc = a \o b \o c
  OBVIOUS
<1>2. /\ abc \in Seq(Characters) /\ Len(abc) = Len(a) + Len(b) + Len(c)
      /\ \A k \in 1 .. Len(a) : abc[k] = a[k]
      /\ \A k \in 1 .. Len(b) : abc[Len(a) + k] = b[k]
      /\ \A k \in 1 .. Len(c) : abc[Len(a) + Len(b) + k] = c[k]
  BY <1>1, JoinThree DEF ThreeParts
<1>3. PICK s : s = abc \o d \o f
  OBVIOUS
<1>4. /\ s \in Seq(Characters) /\ Len(s) = Len(abc) + Len(d) + Len(f)
      /\ \A k \in 1 .. Len(abc) : s[k] = abc[k]
      /\ \A k \in 1 .. Len(d) : s[Len(abc) + k] = d[k]
      /\ \A k \in 1 .. Len(f) : s[Len(abc) + Len(d) + k] = f[k]
  <2>1. ThreeParts(s, abc, d, f)
    BY <1>2, <1>3, JoinThree
  <2>. QED  BY <2>1 DEF ThreeParts
<1>5. Len(a) \in Nat /\ Len(b) \in Nat /\ Len(c) \in Nat
  OBVIOUS
<1>6. \A k \in 1 .. Len(a) : s[k] = a[k]
  BY <1>2, <1>4, <1>5
<1>7. \A k \in 1 .. Len(b) : s[Len(a) + k] = b[k]
  <2>1. \A k \in 1 .. Len(b) : Len(a) + k \in 1 .. Len(abc)
    BY <1>2, <1>5
  <2>. QED  BY <1>2, <1>4, <2>1
<1>8. \A k \in 1 .. Len(c) : s[Len(a) + Len(b) + k] = c[k]
  <2>1. \A k \in 1 .. Len(c) : Len(a) + Len(b) + k \in 1 .. Len(abc)
    BY <1>2, <1>5
  <2>. QED  BY <1>2, <1>4, <2>1
<1>9. /\ \A k \in 1 .. Len(d) : s[Len(a) + Len(b) + Len(c) + k] = d[k]
      /\ \A k \in 1 .. Len(f) : s[Len(a) + Len(b) + Len(c) + Len(d) + k] = f[k]
  BY <1>2, <1>4
<1>10. Len(s) = Len(a) + Len(b) + Len(c) + Len(d) + Len(f)
  BY <1>2, <1>4
<1>11. FiveParts(s, a, b, c, d, f)
  BY ONLY <1>4, <1>6, <1>7, <1>8, <1>9, <1>10 DEF FiveParts
<1>. QED  BY <1>1, <1>3, <1>11

\* The parts of a text before and from a position.
LEMMA HeadAndTail ==
  ASSUME NEW text \in Seq(Characters), NEW i \in 1 .. Len(text) + 1
  PROVE  /\ HeadText(text, i) \in Seq(Characters) /\ Len(HeadText(text, i)) = i - 1
         /\ \A k \in 1 .. i - 1 : HeadText(text, i)[k] = text[k]
         /\ TailText(text, i) \in Seq(Characters) /\ Len(TailText(text, i)) = Len(text) + 1 - i
         /\ \A k \in 1 .. Len(text) + 1 - i : TailText(text, i)[k] = text[i - 1 + k]
<1>1. Len(text) \in Nat /\ i - 1 \in Nat /\ Len(text) + 1 - 1 = Len(text)
  OBVIOUS
<1>2. \A k \in 1 .. i - 1 : text[k] \in Characters
  BY <1>1, ElementOfSeq
<1>3. /\ SubSeq(text, 1, i - 1) \in Seq(Characters) /\ Len(SubSeq(text, 1, i - 1)) = i - 1
      /\ \A k \in 1 .. i - 1 : SubSeq(text, 1, i - 1)[k] = text[k]
  BY <1>1, <1>2, SubSeqProperties
<1>4. \A k \in i .. Len(text) : text[k] \in Characters
  BY <1>1, ElementOfSeq
<1>5. /\ SubSeq(text, i, Len(text)) \in Seq(Characters)
      /\ Len(SubSeq(text, i, Len(text))) = Len(text) + 1 - i
      /\ \A k \in 1 .. Len(text) + 1 - i : SubSeq(text, i, Len(text))[k] = text[i - 1 + k]
  BY <1>1, <1>4, SubSeqProperties
<1>. QED  BY <1>1, <1>3, <1>5 DEF HeadText, TailText, Substr

LEMMA UpdateRewrites ==
  ASSUME NEW text \in Seq(Characters), NEW output \in Seq(Characters)
  PROVE  Rewritten(text, Updated(text, output), output, HeaderOf(text), TailOf(text),
                   HeaderOf(text) + 3 + Len(output))
<1> DEFINE h == HeaderOf(text)
           t == TailOf(text)
           e == h + 3 + Len(output)
           head == HeadText(text, h)
           rest == TailText(text, t)
           tail == IF rest = <<>> THEN <<"\n">> ELSE rest
           two == head \o Header \o output \o Footer \o tail
<1>1. Updated(text, output) = two
  BY Delimiters DEF Updated, HeaderOf, FooterOf, TailOf
<1>2. Len(text) \in Nat /\ Len(output) \in Nat /\ h \in 1 .. Len(text) + 1 /\ t \in h .. Len(text) + 1
  BY HeaderIs, FooterIs
<1> HIDE DEF h, t
<1>3. /\ head \in Seq(Characters) /\ Len(head) = h - 1
      /\ \A k \in 1 .. h - 1 : head[k] = text[k]
  BY <1>2, HeadAndTail
<1>4. /\ rest \in Seq(Characters) /\ Len(rest) = Len(text) + 1 - t
      /\ \A k \in 1 .. Len(text) + 1 - t : rest[k] = text[t - 1 + k]
  BY <1>2, HeadAndTail
<1> HIDE DEF head, rest
<1>5. rest = <<>> <=> t > Len(text)
  BY <1>2, <1>4
<1>6. /\ tail \in Seq(Characters)
      /\ t > Len(text) => Len(tail) = 1 /\ tail[1] = "\n"
      /\ ~(t > Len(text)) => tail = rest
  <2>1. <<"\n">> \in Seq(Characters) /\ Len(<<"\n">>) = 1 /\ <<"\n">>[1] = "\n"
    BY CharactersAssumption
  <2>. QED  BY <1>4, <1>5, <2>1
<1> HIDE DEF tail
<1>7. /\ two \in Seq(Characters)
      /\ Len(two) = (h - 1) + 3 + Len(output) + 2 + Len(tail)
      /\ \A k \in 1 .. h - 1 : two[k] = head[k]
      /\ \A k \in 1 .. 3 : two[(h - 1) + k] = Header[k]
      /\ \A k \in 1 .. Len(output) : two[(h - 1) + 3 + k] = output[k]
      /\ \A k \in 1 .. 2 : two[(h - 1) + 3 + Len(output) + k] = Footer[k]
      /\ \A k \in 1 .. Len(tail) : two[(h - 1) + 3 + Len(output) + 2 + k] = tail[k]
  <2>1. FiveParts(two, head, Header, output, Footer, tail)
    BY <1>3, <1>6, Delimiters, Joined
  <2>2. Len(head) = h - 1 /\ Len(Header) = 3 /\ Len(Footer) = 2
    BY <1>3, Delimiters
  <2> HIDE DEF two
  <2>. QED  BY <2>1, <2>2 DEF FiveParts
<1> HIDE DEF two
<1>8. two[h] = "/" /\ two[h + 1] = "*" /\ two[h + 2] = "\n"
  <2>1. two[(h - 1) + 1] = "/" /\ two[(h - 1) + 2] = "*" /\ two[(h - 1) + 3] = "\n"
    BY <1>7, Delimiters
  <2>2. (h - 1) + 1 = h /\ (h - 1) + 2 = h + 1 /\ (h - 1) + 3 = h + 2
    BY <1>2
  <2>. QED  BY <2>1, <2>2
<1>9. \A k \in 1 .. Len(output) : two[h + 2 + k] = output[k]
  <2>1. \A k \in 1 .. Len(output) : h + 2 + k = (h - 1) + 3 + k
    BY <1>2
  <2>. QED  BY <1>7, <2>1
<1>10. two[e] = "*" /\ two[e + 1] = "/"
  <2>1. two[(h - 1) + 3 + Len(output) + 1] = "*" /\ two[(h - 1) + 3 + Len(output) + 2] = "/"
    BY <1>7, Delimiters
  <2>2. (h - 1) + 3 + Len(output) + 1 = e /\ (h - 1) + 3 + Len(output) + 2 = e + 1
    BY <1>2
  <2>. QED  BY <2>1, <2>2
<1>11. t > Len(text) => two[e + 2] = "\n"
  <2>1. (h - 1) + 3 + Len(output) + 2 + 1 = e + 2
    BY <1>2
  <2> SUFFICES ASSUME t > Len(text)
               PROVE  two[e + 2] = "\n"
    OBVIOUS
  <2>2. Len(tail) = 1 /\ tail[1] = "\n"
    BY <1>6
  <2>4. 1 \in 1 .. Len(tail)
    BY <2>2
  <2>3. two[(h - 1) + 3 + Len(output) + 2 + 1] = "\n"
    BY <1>7, <2>2, <2>4
  <2>. QED  BY <2>1, <2>3
<1>12. ASSUME NEW k \in t .. Len(text)
       PROVE  two[k - t + e + 2] = text[k]
  <2>1. k - t + 1 \in 1 .. Len(text) + 1 - t /\ ~(t > Len(text)) /\ t - 1 + (k - t + 1) = k
    BY <1>2
  <2>2. tail[k - t + 1] = text[k]
    BY <1>4, <1>6, <2>1
  <2>3. two[(h - 1) + 3 + Len(output) + 2 + (k - t + 1)] = tail[k - t + 1]
    BY <1>4, <1>6, <1>7, <2>1
  <2>4. (h - 1) + 3 + Len(output) + 2 + (k - t + 1) = k - t + e + 2
    BY <1>2
  <2>. QED  BY <2>2, <2>3, <2>4
<1>13. Len(two) = IF t > Len(text) THEN e + 2 ELSE e + 2 + Len(text) - t
  <2>1. /\ Len(tail) \in Nat
        /\ Len(tail) = IF t > Len(text) THEN 1 ELSE Len(text) + 1 - t
    BY <1>2, <1>4, <1>6
  <2>2. Len(two) = (h - 1) + 3 + Len(output) + 2 + Len(tail)
    BY <1>7
  <2>3. CASE t > Len(text)
    BY <1>2, <2>1, <2>2, <2>3
  <2>4. CASE ~(t > Len(text))
    BY <1>2, <2>1, <2>2, <2>4
  <2>. QED  BY <2>3, <2>4
<1>14. \A k \in 1 .. h - 1 : two[k] = text[k]
  BY <1>3, <1>7
<1>15. Rewritten(text, two, output, h, t, e)
  BY <1>2, <1>7, <1>8, <1>9, <1>10, <1>11, <1>12, <1>13, <1>14 DEF Rewritten
<1>. QED  BY <1>1, <1>15 DEF h, t

\* Occurrences of texts of one and of two characters.
LEMMA OccursTwo ==
  ASSUME NEW text \in Seq(Characters), NEW a \in Characters, NEW b \in Characters,
         NEW i \in Nat \ {0}
  PROVE  OccursAt(text, <<a, b>>, i) <=> i + 1 <= Len(text) /\ text[i] = a /\ text[i + 1] = b
<1>1. Len(<<a, b>>) = 2 /\ Len(text) \in Nat
  OBVIOUS
<1>2. CASE i + 1 <= Len(text)
  <2>1. Substr(text, i, i + 2) = SubSeq(text, i, i + 1)
    BY DEF Substr
  <2>2. \A k \in i .. i + 1 : text[k] \in Characters
    BY <1>1, <1>2, ElementOfSeq
  <2>3. PICK s : s = SubSeq(text, i, i + 1)
    OBVIOUS
  <2>4. /\ s \in Seq(Characters) /\ Len(s) = 2
        /\ \A k \in 1 .. 2 : s[k] = text[i + k - 1]
    <3>1. i \in Nat /\ i + 1 \in Nat /\ i <= (i + 1) + 1 /\ (i + 1) - i + 1 = 2
      OBVIOUS
    <3>2. /\ s \in Seq(Characters)
          /\ Len(s) = IF i <= i + 1 THEN (i + 1) - i + 1 ELSE 0
          /\ \A k \in 1 .. (i + 1) - i + 1 : s[k] = text[i + k - 1]
      BY <2>2, <2>3, <3>1, SubSeqProperties
    <3>. QED  BY <3>1, <3>2
  <2>5. s[1] = text[i] /\ s[2] = text[i + 1]
    BY <2>4
  <2>6. s = <<a, b>> <=> s[1] = a /\ s[2] = b
    <3>1. ASSUME s[1] = a, s[2] = b
          PROVE  s = <<a, b>>
      <4>1. <<a, b>> \in Seq(Characters) /\ <<a, b>>[1] = a /\ <<a, b>>[2] = b
        OBVIOUS
      <4>. QED  BY <1>1, <2>4, <3>1, <4>1, SeqEqual
    <3>. QED  BY <3>1
  <2>7. i + 2 <= Len(text) + 1
    BY <1>1, <1>2
  <2>. QED  BY <1>1, <1>2, <2>1, <2>3, <2>5, <2>6, <2>7 DEF OccursAt
<1>3. CASE ~(i + 1 <= Len(text))
  BY <1>1, <1>3 DEF OccursAt
<1>. QED  BY <1>2, <1>3

LEMMA OccursOne ==
  ASSUME NEW text \in Seq(Characters), NEW a \in Characters, NEW i \in Nat \ {0}
  PROVE  OccursAt(text, <<a>>, i) <=> i <= Len(text) /\ text[i] = a
<1>1. Len(<<a>>) = 1 /\ Len(text) \in Nat
  OBVIOUS
<1>2. CASE i <= Len(text)
  <2>1. Substr(text, i, i + 1) = SubSeq(text, i, i)
    BY DEF Substr
  <2>2. \A k \in i .. i : text[k] \in Characters
    BY <1>1, <1>2, ElementOfSeq
  <2>3. PICK s : s = SubSeq(text, i, i)
    OBVIOUS
  <2>4. /\ s \in Seq(Characters) /\ Len(s) = 1
        /\ \A k \in 1 .. 1 : s[k] = text[i + k - 1]
    <3>1. i \in Nat /\ i <= i + 1 /\ i - i + 1 = 1
      OBVIOUS
    <3>2. /\ s \in Seq(Characters)
          /\ Len(s) = IF i <= i THEN i - i + 1 ELSE 0
          /\ \A k \in 1 .. i - i + 1 : s[k] = text[i + k - 1]
      BY <2>2, <2>3, <3>1, SubSeqProperties
    <3>. QED  BY <3>1, <3>2
  <2>5. s[1] = text[i]
    BY <2>4
  <2>6. s = <<a>> <=> s[1] = a
    <3>1. ASSUME s[1] = a
          PROVE  s = <<a>>
      <4>1. <<a>> \in Seq(Characters) /\ <<a>>[1] = a
        OBVIOUS
      <4>. QED  BY <1>1, <2>4, <3>1, <4>1, SeqEqual
    <3>. QED  BY <3>1
  <2>7. i + 1 <= Len(text) + 1
    BY <1>1, <1>2
  <2>. QED  BY <1>1, <1>2, <2>1, <2>3, <2>5, <2>6, <2>7 DEF OccursAt
<1>3. CASE ~(i <= Len(text))
  BY <1>1, <1>3 DEF OccursAt
<1>. QED  BY <1>2, <1>3

LEMMA OccursFooter ==
  ASSUME NEW text \in Seq(Characters)
  PROVE  Occurs(text, Footer) <=>
           \E i \in 1 .. Len(text) : i + 1 <= Len(text) /\ text[i] = "*" /\ text[i + 1] = "/"
<1>1. \A i \in 1 .. Len(text) :
        OccursAt(text, Footer, i) <=> i + 1 <= Len(text) /\ text[i] = "*" /\ text[i + 1] = "/"
  BY CharactersAssumption, OccursTwo DEF Footer
<1>. QED  BY <1>1 DEF Occurs, Occurrences

\* A text of whole lines.
LineText(text) == text # <<>> => text[Len(text)] = "\n"

\* The facts of a rewritten file that do not depend on what follows the section.
LEMMA RewrittenFacts ==
  ASSUME NEW one \in Seq(Characters), NEW two, NEW output \in Seq(Characters), NEW h, NEW t,
         NEW e, Rewritten(one, two, output, h, t, e)
  PROVE  /\ Len(one) \in Nat /\ Len(two) \in Nat /\ Len(output) \in Nat
         /\ h \in Nat \ {0} /\ t \in Nat \ {0} /\ e \in Nat \ {0}
         /\ h <= t /\ t <= Len(one) + 1 /\ e = h + 3 + Len(output) /\ e + 2 <= Len(two)
<1>1. Len(one) \in Nat /\ Len(output) \in Nat
  OBVIOUS
<1>2. /\ h \in 1 .. Len(one) + 1 /\ t \in h .. Len(one) + 1
      /\ e = h + 3 + Len(output) /\ two \in Seq(Characters)
      /\ Len(two) = IF t > Len(one) THEN e + 2 ELSE e + 2 + Len(one) - t
  BY DEF Rewritten
<1>3. Len(two) \in Nat
  BY <1>2
<1>4. e + 2 <= Len(two)
  <2>1. CASE t > Len(one)
    BY <1>1, <1>2, <2>1
  <2>2. CASE ~(t > Len(one))
    BY <1>1, <1>2, <2>2
  <2>. QED  BY <2>1, <2>2
<1>5. h \in Nat \ {0} /\ t \in Nat \ {0} /\ h <= t /\ t <= Len(one) + 1
  BY <1>1, <1>2
<1>6. e \in Nat \ {0}
  BY <1>1, <1>2, <1>5
<1>. QED  BY <1>1, <1>2, <1>3, <1>4, <1>5, <1>6

\* The new section is found where the old one was, ...
LEMMA NewHeader ==
  ASSUME NEW one \in Seq(Characters), NEW two, NEW output \in Seq(Characters), NEW h, NEW t,
         NEW e, Rewritten(one, two, output, h, t, e), h = HeaderOf(one),
         h = 1 \/ one[h - 1] = "\n"
  PROVE  HeaderOf(two) = h
<1>1. /\ two \in Seq(Characters) /\ h \in 1 .. Len(one) + 1 /\ h + 4 <= Len(two)
      /\ two[h] = "/" /\ two[h + 1] = "*" /\ two[h + 2] = "\n"
      /\ \A k \in 1 .. h - 1 : two[k] = one[k]
      /\ Len(one) \in Nat /\ Len(two) \in Nat /\ h \in Nat
  <2>1. /\ two \in Seq(Characters) /\ h \in 1 .. Len(one) + 1
        /\ two[h] = "/" /\ two[h + 1] = "*" /\ two[h + 2] = "\n"
        /\ \A k \in 1 .. h - 1 : two[k] = one[k]
    BY DEF Rewritten
  <2>2. /\ Len(one) \in Nat /\ Len(two) \in Nat /\ Len(output) \in Nat /\ h \in Nat \ {0}
        /\ e = h + 3 + Len(output) /\ e + 2 <= Len(two)
    BY RewrittenFacts
  <2>3. h + 4 <= Len(two)
    BY <2>2
  <2>. QED  BY <2>1, <2>2, <2>3
<1>2. FindAfter(two, Header, h) = h
  <2>1. h \in 1 .. Len(two) + 1 /\ ~(h > Len(two)) /\ ~(h + 1 > Len(two)) /\ ~(h + 2 > Len(two))
    BY <1>1
  <2>. QED  BY <1>1, <2>1, FindHeader
<1>3. CASE h = 1
  BY <1>2, <1>3 DEF HeaderOf, Find
<1>4. CASE h # 1
  <2>1. h - 1 \in 1 .. Len(two) /\ two[h - 1] = "\n" /\ 1 \in 1 .. h - 1
    <3>1. h - 1 \in 1 .. h - 1 /\ h - 1 \in 1 .. Len(two) /\ 1 \in 1 .. h - 1
      BY <1>1, <1>4
    <3>2. two[h - 1] = one[h - 1] /\ one[h - 1] = "\n"
      BY <1>1, <1>4, <3>1
    <3>. QED  BY <3>1, <3>2
  <2>2. \/ FindAfter(two, Header, 1) + 2 <= h - 1
        \/ FindAfter(two, Header, 1) = FindAfter(two, Header, h - 1 + 1)
    BY <1>1, <2>1, HeaderAcrossLine
  <2>3. CASE FindAfter(two, Header, 1) + 2 <= h - 1
    <3>1. /\ h - 1 \in 0 .. Len(two) /\ h - 1 <= Len(one) /\ 1 \in 1 .. (h - 1) + 1
          /\ \A k \in 1 .. h - 1 : two[k] = one[k]
      BY <1>1, <2>1
    <3>2. FindAfter(one, Header, 1) = FindAfter(two, Header, 1)
      BY <1>1, <2>3, <3>1, HeaderInBoth
    <3>3. FindAfter(one, Header, 1) = h
      BY DEF HeaderOf, Find
    <3>. QED  BY <1>1, <2>3, <3>2, <3>3
  <2>4. CASE FindAfter(two, Header, 1) = FindAfter(two, Header, h - 1 + 1)
    <3>1. h - 1 + 1 = h
      BY <1>1
    <3>. QED  BY <1>2, <2>4, <3>1 DEF HeaderOf, Find
  <2>. QED  BY <2>2, <2>3, <2>4
<1>. QED  BY <1>3, <1>4

\* The header is not the place where a search for the footer ends.
LEMMA BehindHeader ==
  ASSUME NEW text \in Seq(Characters), NEW h \in 1 .. Len(text), h + 2 <= Len(text),
         text[h] = "/", text[h + 1] = "*", text[h + 2] = "\n"
  PROVE  FindAfter(text, Footer, h) = FindAfter(text, Footer, h + 3)
<1>1. Len(text) \in Nat
  OBVIOUS
<1>2. FindAfter(text, Footer, h) = FindAfter(text, Footer, h + 1)
  BY <1>1, FindFooter
<1>3. FindAfter(text, Footer, h + 1) = FindAfter(text, Footer, h + 1 + 2)
  <2>1. h + 1 \in 1 .. Len(text) + 1 /\ ~(h + 1 > Len(text)) /\ ~(h + 1 + 1 > Len(text))
    BY <1>1
  <2>2. h + 1 + 1 = h + 2
    OBVIOUS
  <2>. QED  BY <2>1, <2>2, FindFooter
<1>4. h + 1 + 2 = h + 3
  OBVIOUS
<1>. QED  BY <1>2, <1>3, <1>4

\* ... and so is its footer, unless the search sees one in the output.
LEMMA NewFooter ==
  ASSUME NEW one \in Seq(Characters), NEW two, NEW output \in Seq(Characters), NEW h, NEW t,
         NEW e, Rewritten(one, two, output, h, t, e), LineText(output)
  PROVE  /\ FindAfter(two, Footer, h) = FindAfter(two, Footer, h + 3)
         /\ \/ FindAfter(two, Footer, h + 3) = e
            \/ FindAfter(two, Footer, h + 3) + 2 < e
<1>1. /\ two \in Seq(Characters) /\ h \in Nat \ {0} /\ e = h + 3 + Len(output) /\ e + 2 <= Len(two)
      /\ two[h] = "/" /\ two[h + 1] = "*" /\ two[h + 2] = "\n"
      /\ \A k \in 1 .. Len(output) : two[h + 2 + k] = output[k]
      /\ two[e] = "*" /\ two[e + 1] = "/"
      /\ Len(two) \in Nat /\ Len(output) \in Nat /\ e \in Nat
  <2>1. /\ two \in Seq(Characters)
        /\ two[h] = "/" /\ two[h + 1] = "*" /\ two[h + 2] = "\n"
        /\ \A k \in 1 .. Len(output) : two[h + 2 + k] = output[k]
        /\ two[e] = "*" /\ two[e + 1] = "/"
    BY DEF Rewritten
  <2>. QED  BY <2>1, RewrittenFacts
<1>2. FindAfter(two, Footer, h) = FindAfter(two, Footer, h + 3)
  <2>1. h \in 1 .. Len(two) /\ h + 2 <= Len(two)
    BY <1>1
  <2>. QED  BY <1>1, <2>1, BehindHeader
<1>3. FindAfter(two, Footer, e) = e
  <2>1. e \in 1 .. Len(two) + 1 /\ ~(e > Len(two)) /\ ~(e + 1 > Len(two))
    BY <1>1
  <2>. QED  BY <1>1, <2>1, FindFooter
<1>4. CASE Len(output) = 0
  BY <1>1, <1>2, <1>3, <1>4
<1>5. CASE Len(output) # 0
  <2>1. output # <<>> /\ Len(output) \in 1 .. Len(output)
    BY <1>1, <1>5
  <2>2. two[h + 2 + Len(output)] = "\n"
    BY <1>1, <2>1 DEF LineText
  <2>3. h + 2 + Len(output) = e - 1 /\ e - 1 \in 1 .. Len(two) /\ h + 3 \in 1 .. e - 1
    BY <1>1, <1>5
  <2>4. \/ FindAfter(two, Footer, h + 3) + 1 < e - 1
        \/ FindAfter(two, Footer, h + 3) = FindAfter(two, Footer, e - 1 + 1)
    BY <1>1, <2>2, <2>3, FooterAcrossLine
  <2>5. e - 1 + 1 = e
    BY <1>1
  <2>6. FindAfter(two, Footer, h + 3) \in Int
    <3>1. h + 3 \in 1 .. Len(two) + 1
      BY <1>1
    <3>2. FindAfter(two, Footer, h + 3) \in h + 3 .. Len(two) + 1
      BY <1>1, <3>1, FooterFound
    <3>. QED  BY <3>2
  <2>. QED  BY <1>1, <1>2, <1>3, <2>4, <2>5, <2>6
<1>. QED  BY <1>1, <1>4, <1>5

\* What a file is said to expect lies between its header and its footer.
LEMMA Expected ==
  ASSUME NEW text \in Seq(Characters)
  PROVE  ExpectedOutput(text) =
           IF HeaderOf(text) > Len(text) \/ FooterOf(text) > Len(text) THEN <<>>
           ELSE SubSeq(text, HeaderOf(text) + 3, FooterOf(text) - 1)
<1> DEFINE h == HeaderOf(text)
<1>1. /\ h \in 1 .. Len(text) + 1
      /\ h <= Len(text) =>
           h + 2 <= Len(text) /\ text[h] = "/" /\ text[h + 1] = "*" /\ text[h + 2] = "\n"
  BY HeaderIs
<1>2. ExpectedOutput(text) =
        IF h > Len(text) \/ FindAfter(text, Footer, h + 3) > Len(text) THEN <<>>
        ELSE SubSeq(text, h + 3, FindAfter(text, Footer, h + 3) - 1)
  BY Delimiters DEF ExpectedOutput, HeaderOf, AtEnd, Substr
<1>3. h <= Len(text) => FooterOf(text) = FindAfter(text, Footer, h + 3)
  <2>1. ASSUME h <= Len(text)
        PROVE  h \in 1 .. Len(text)
    BY <1>1, <2>1
  <2>2. FooterOf(text) = FindAfter(text, Footer, h)
    BY DEF FooterOf
  <2> HIDE DEF h
  <2>. QED  BY <1>1, <2>1, <2>2, BehindHeader
<1>4. Len(text) \in Nat /\ h \in Nat
  BY <1>1
<1>5. CASE h > Len(text)
  BY <1>2, <1>5
<1>6. CASE ~(h > Len(text))
  <2>1. FooterOf(text) = FindAfter(text, Footer, h + 3)
    BY <1>3, <1>4, <1>6
  <2> HIDE DEF h
  <2>. QED  BY <1>2, <1>6, <2>1 DEF h
<1>. QED  BY <1>5, <1>6

\* A part of a text, from inside it.
LEMMA PartOf ==
  ASSUME NEW text \in Seq(Characters), NEW a \in Nat \ {0}, NEW b \in Nat,
         a <= b + 1, b <= Len(text)
  PROVE  /\ SubSeq(text, a, b) \in Seq(Characters)
         /\ Len(SubSeq(text, a, b)) = b - a + 1
         /\ \A k \in 1 .. b - a + 1 : SubSeq(text, a, b)[k] = text[a + k - 1]
<1>1. \A k \in a .. b : text[k] \in Characters
  <2>1. \A k \in a .. b : k \in 1 .. Len(text)
    OBVIOUS
  <2>. QED  BY <2>1, ElementOfSeq
<1>2. b \in Int /\ a \in Int
  OBVIOUS
<1>. QED  BY <1>1, <1>2, SubSeqProperties

LEMMA ExpectedType ==
  ASSUME NEW text \in Seq(Characters)
  PROVE  ExpectedOutput(text) \in Seq(Characters)
<1> DEFINE h == HeaderOf(text)
           f == FooterOf(text)
<1>1. /\ h \in 1 .. Len(text) + 1
      /\ h <= Len(text) =>
           h + 2 <= Len(text) /\ text[h] = "/" /\ text[h + 1] = "*" /\ text[h + 2] = "\n"
      /\ f \in h .. Len(text) + 1
      /\ f <= Len(text) => text[f] = "*"
  BY HeaderIs, FooterIs
<1>2. ExpectedOutput(text) = IF h > Len(text) \/ f > Len(text) THEN <<>>
                             ELSE SubSeq(text, h + 3, f - 1)
  BY Expected
<1>3. CASE h > Len(text) \/ f > Len(text)
  BY <1>2, <1>3
<1>4. CASE ~(h > Len(text) \/ f > Len(text))
  <2>1. h \in 1 .. Len(text) /\ h + 3 \in 1 .. Len(text) + 1 /\ Len(text) \in Nat
    BY <1>1, <1>4
  <2>2. f = FindAfter(text, Footer, h + 3)
    BY <1>1, <1>4, <2>1, BehindHeader DEF FooterOf
  <2>3. f \in h + 3 .. Len(text) + 1
    BY <2>1, <2>2, FooterFound
  <2> HIDE DEF h, f
  <2>4. /\ h + 3 \in Nat \ {0} /\ f - 1 \in Nat /\ h + 3 <= (f - 1) + 1 /\ f - 1 <= Len(text)
    BY <1>4, <2>1, <2>3
  <2>5. SubSeq(text, h + 3, f - 1) \in Seq(Characters)
    BY <2>4, PartOf
  <2>. QED  BY <1>2, <1>4, <2>5
<1>. QED  BY <1>3, <1>4

LEMMA UpdatedType ==
  ASSUME NEW text \in Seq(Characters), NEW output \in Seq(Characters)
  PROVE  Updated(text, output) \in Seq(Characters)
  BY UpdateRewrites DEF Rewritten

\* An update that is called for changes the file.
LEMMA UpdateDiffers ==
  ASSUME NEW text \in Seq(Characters), NEW output \in Seq(Characters), LineText(output),
         output # ExpectedOutput(text)
  PROVE  Updated(text, output) # text
<1> SUFFICES ASSUME Updated(text, output) = text
             PROVE  FALSE
  OBVIOUS
<1> DEFINE h == HeaderOf(text)
           f == FooterOf(text)
           t == TailOf(text)
           e == h + 3 + Len(output)
<1>1. Rewritten(text, text, output, h, t, e)
  BY UpdateRewrites
<1>2. /\ Len(text) \in Nat /\ Len(output) \in Nat /\ h \in Nat \ {0} /\ t \in Nat \ {0}
      /\ e \in Nat \ {0} /\ h <= t /\ t <= Len(text) + 1 /\ e = h + 3 + Len(output)
      /\ e + 2 <= Len(text)
  BY <1>1, RewrittenFacts
<1>3. f \in h .. Len(text) + 1 /\ t = IF f > Len(text) THEN Len(text) + 1 ELSE f + 2
  BY FooterIs
<1>4. f = e \/ f + 2 < e
  <2>1. f = FindAfter(text, Footer, h)
    BY DEF FooterOf
  <2>2. /\ FindAfter(text, Footer, h) = FindAfter(text, Footer, h + 3)
        /\ \/ FindAfter(text, Footer, h + 3) = e
           \/ FindAfter(text, Footer, h + 3) + 2 < e
    <3> HIDE DEF h, t, e
    <3>. QED  BY <1>1, NewFooter
  <2> HIDE DEF h, f, t, e
  <2>. QED  BY <2>1, <2>2
<1> HIDE DEF h, f, t, e
<1>5. f <= Len(text) /\ t = f + 2
  BY <1>2, <1>3, <1>4
<1>6. /\ Len(text) = IF t > Len(text) THEN e + 2 ELSE e + 2 + Len(text) - t
      /\ \A k \in 1 .. Len(output) : text[h + 2 + k] = output[k]
  BY <1>1 DEF Rewritten
<1>7. f = e
  <2>1. ~(t > Len(text))
    BY <1>2, <1>4, <1>5
  <2>2. Len(text) = e + 2 + Len(text) - t
    BY <1>6, <2>1
  <2>. QED  BY <1>2, <1>3, <1>5, <2>2
<1>8. ExpectedOutput(text) = SubSeq(text, h + 3, f - 1)
  <2>1. ~(h > Len(text) \/ f > Len(text))
    BY <1>2, <1>3, <1>5
  <2>. QED  BY <2>1, Expected DEF h, f
<1>9. PICK part : part = SubSeq(text, h + 3, f - 1)
  OBVIOUS
<1>10. /\ part \in Seq(Characters) /\ Len(part) = Len(output)
       /\ \A k \in 1 .. Len(output) : part[k] = text[h + 2 + k]
  <2>1. /\ h + 3 \in Nat \ {0} /\ f - 1 \in Nat /\ h + 3 <= (f - 1) + 1 /\ f - 1 <= Len(text)
        /\ (f - 1) - (h + 3) + 1 = Len(output)
    BY <1>2, <1>5, <1>7
  <2>2. /\ part \in Seq(Characters) /\ Len(part) = (f - 1) - (h + 3) + 1
        /\ \A k \in 1 .. (f - 1) - (h + 3) + 1 : part[k] = text[(h + 3) + k - 1]
    BY <1>9, <2>1, PartOf
  <2>3. \A k \in 1 .. Len(output) : (h + 3) + k - 1 = h + 2 + k
    BY <1>2
  <2>. QED  BY <2>1, <2>2, <2>3
<1>11. part = output
  BY <1>6, <1>10, SeqEqual
<1>. QED  BY <1>8, <1>9, <1>11

-----------------------------------------------------------------------------
(* The lexer                                                               *)

\* Where a comment ends: behind the first end that is there, ...
LEMMA LineCommentEnds ==
  ASSUME NEW text \in Seq(Characters), NEW i \in 1 .. Len(text),
         NEW j \in i + 2 .. Len(text), text[j] = "\n",
         \A k \in i + 2 .. j - 1 : text[k] # "\n"
  PROVE  CommentEnd(text, i, <<"\n">>, 2) = j + 1
<1> DEFINE ends == Occurrences(text, <<"\n">>, i + 2)
<1>1. \A k \in i + 2 .. Len(text) : k \in ends <=> text[k] = "\n"
  BY CharactersAssumption, OccursOne DEF Occurrences
<1>2. ends \subseteq i + 2 .. Len(text) /\ Len(text) \in Nat /\ Len(<<"\n">>) = 1
  BY DEF Occurrences
<1> HIDE DEF ends
<1>3. j \in ends /\ \A k \in ends : j <= k
  BY <1>1, <1>2
<1>4. Min(ends) = j
  <2>1. \A x \in ends : (\A y \in ends : x <= y) => x = j
    BY <1>2, <1>3
  <2>2. \E x \in ends : \A y \in ends : x <= y
    BY <1>3
  <2>. QED  BY <1>3, <2>1, <2>2, Zenon DEF Min
<1>5. ends # {}
  BY <1>3
<1>6. CommentEnd(text, i, <<"\n">>, 2) = Min(ends) + 1
  BY <1>2, <1>5 DEF CommentEnd, ends
<1>. QED  BY <1>4, <1>6

LEMMA BlockCommentEnds ==
  ASSUME NEW text \in Seq(Characters), NEW i \in 1 .. Len(text),
         NEW j \in i + 2 .. Len(text) - 1, text[j] = "*", text[j + 1] = "/",
         \A k \in i + 2 .. j - 1 : ~(text[k] = "*" /\ text[k + 1] = "/")
  PROVE  CommentEnd(text, i, Footer, 2) = j + 2
<1> DEFINE ends == Occurrences(text, Footer, i + 2)
<1>1. \A k \in i + 2 .. Len(text) :
        k \in ends <=> k + 1 <= Len(text) /\ text[k] = "*" /\ text[k + 1] = "/"
  BY CharactersAssumption, OccursTwo DEF Occurrences, Footer
<1>2. ends \subseteq i + 2 .. Len(text) /\ Len(text) \in Nat /\ Len(Footer) = 2
  BY Delimiters DEF Occurrences
<1> HIDE DEF ends
<1>3. j \in ends /\ \A k \in ends : j <= k
  BY <1>1, <1>2
<1>4. Min(ends) = j
  <2>1. \A x \in ends : (\A y \in ends : x <= y) => x = j
    BY <1>2, <1>3
  <2>2. \E x \in ends : \A y \in ends : x <= y
    BY <1>3
  <2>. QED  BY <1>3, <2>1, <2>2, Zenon DEF Min
<1>5. ends # {}
  BY <1>3
<1>6. CommentEnd(text, i, Footer, 2) = Min(ends) + 2
  BY <1>2, <1>5 DEF CommentEnd, ends
<1>. QED  BY <1>4, <1>6

\* ... or with the text.
LEMMA LineCommentOpen ==
  ASSUME NEW text \in Seq(Characters), NEW i \in 1 .. Len(text),
         \A k \in i + 2 .. Len(text) : text[k] # "\n"
  PROVE  CommentEnd(text, i, <<"\n">>, 2) = Len(text) + 1
<1>1. \A k \in i + 2 .. Len(text) : ~OccursAt(text, <<"\n">>, k)
  BY CharactersAssumption, OccursOne
<1>. QED  BY <1>1 DEF CommentEnd, Occurrences

LEMMA BlockCommentOpen ==
  ASSUME NEW text \in Seq(Characters), NEW i \in 1 .. Len(text),
         \A k \in i + 2 .. Len(text) - 1 : ~(text[k] = "*" /\ text[k + 1] = "/")
  PROVE  CommentEnd(text, i, Footer, 2) = Len(text) + 1
<1>1. \A k \in i + 2 .. Len(text) : ~OccursAt(text, Footer, k)
  <2>1. \A k \in i + 2 .. Len(text) :
          OccursAt(text, Footer, k) <=> k + 1 <= Len(text) /\ text[k] = "*" /\ text[k + 1] = "/"
    BY CharactersAssumption, OccursTwo DEF Footer
  <2>. QED  BY <2>1
<1>. QED  BY <1>1 DEF CommentEnd, Occurrences

\* The first end of a comment, if it has one.
LEMMA FirstLineEnd ==
  ASSUME NEW text \in Seq(Characters), NEW i \in 1 .. Len(text)
  PROVE  \/ \A k \in i + 2 .. Len(text) : text[k] # "\n"
         \/ \E j \in i + 2 .. Len(text) :
              text[j] = "\n" /\ \A k \in i + 2 .. j - 1 : text[k] # "\n"
<1> DEFINE S == {k \in i + 2 .. Len(text) : text[k] = "\n"}
<1> SUFFICES ASSUME S # {}
             PROVE  \E j \in i + 2 .. Len(text) :
                      text[j] = "\n" /\ \A k \in i + 2 .. j - 1 : text[k] # "\n"
  OBVIOUS
<1>1. Len(text) \in Nat /\ S \subseteq Nat
  OBVIOUS
<1>2. PICK j \in S : \A k \in S : j <= k
  BY <1>1, Least
<1>3. \A k \in i + 2 .. j - 1 : text[k] # "\n"
  BY <1>1, <1>2
<1>. QED  BY <1>2, <1>3

LEMMA FirstFooter ==
  ASSUME NEW text \in Seq(Characters), NEW i \in 1 .. Len(text)
  PROVE  \/ \A k \in i + 2 .. Len(text) - 1 : ~(text[k] = "*" /\ text[k + 1] = "/")
         \/ \E j \in i + 2 .. Len(text) - 1 :
              /\ text[j] = "*" /\ text[j + 1] = "/"
              /\ \A k \in i + 2 .. j - 1 : ~(text[k] = "*" /\ text[k + 1] = "/")
<1> DEFINE S == {k \in i + 2 .. Len(text) - 1 : text[k] = "*" /\ text[k + 1] = "/"}
<1> SUFFICES ASSUME S # {}
             PROVE  \E j \in i + 2 .. Len(text) - 1 :
              /\ text[j] = "*" /\ text[j + 1] = "/"
              /\ \A k \in i + 2 .. j - 1 : ~(text[k] = "*" /\ text[k + 1] = "/")
  OBVIOUS
<1>1. Len(text) \in Nat /\ S \subseteq Nat
  OBVIOUS
<1>2. PICK j \in S : \A k \in S : j <= k
  BY <1>1, Least
<1>3. \A k \in i + 2 .. j - 1 : ~(text[k] = "*" /\ text[k + 1] = "/")
  BY <1>1, <1>2
<1>. QED  BY <1>2, <1>3

\* A comment is not empty, and ends in the text.
LEMMA CommentEndsBehind ==
  ASSUME NEW text \in Seq(Characters), NEW i \in 1 .. Len(text)
  PROVE  /\ CommentEnd(text, i, <<"\n">>, 2) \in i + 1 .. Len(text) + 1
         /\ CommentEnd(text, i, Footer, 2) \in i + 1 .. Len(text) + 1
<1>1. Len(text) \in Nat /\ i \in Nat
  OBVIOUS
<1>2. CommentEnd(text, i, <<"\n">>, 2) \in i + 1 .. Len(text) + 1
  <2>1. CASE \A k \in i + 2 .. Len(text) : text[k] # "\n"
    <3>1. CommentEnd(text, i, <<"\n">>, 2) = Len(text) + 1
      BY <2>1, LineCommentOpen
    <3>. QED  BY <1>1, <3>1
  <2>2. ASSUME NEW j \in i + 2 .. Len(text), text[j] = "\n",
               \A k \in i + 2 .. j - 1 : text[k] # "\n"
        PROVE  CommentEnd(text, i, <<"\n">>, 2) \in i + 1 .. Len(text) + 1
    <3>1. CommentEnd(text, i, <<"\n">>, 2) = j + 1
      BY <2>2, LineCommentEnds
    <3>. QED  BY <1>1, <3>1
  <2>. QED  BY <2>1, <2>2, FirstLineEnd
<1>3. CommentEnd(text, i, Footer, 2) \in i + 1 .. Len(text) + 1
  <2>1. CASE \A k \in i + 2 .. Len(text) - 1 : ~(text[k] = "*" /\ text[k + 1] = "/")
    <3>1. CommentEnd(text, i, Footer, 2) = Len(text) + 1
      BY <2>1, BlockCommentOpen
    <3>. QED  BY <1>1, <3>1
  <2>2. ASSUME NEW j \in i + 2 .. Len(text) - 1, text[j] = "*", text[j + 1] = "/",
               \A k \in i + 2 .. j - 1 : ~(text[k] = "*" /\ text[k + 1] = "/")
        PROVE  CommentEnd(text, i, Footer, 2) \in i + 1 .. Len(text) + 1
    <3>1. CommentEnd(text, i, Footer, 2) = j + 2
      BY <2>2, BlockCommentEnds
    <3>. QED  BY <1>1, <3>1
  <2>. QED  BY <2>1, <2>2, FirstFooter
<1>. QED  BY <1>2, <1>3

ReadStep(text, f, i) ==
  IF AtEnd(text, i) THEN <<>>
  ELSE IF OccursAt(text, <<"/", "/">>, i) THEN f[CommentEnd(text, i, <<"\n">>, 2)]
  ELSE IF OccursAt(text, <<"/", "*">>, i) THEN f[CommentEnd(text, i, Footer, 2)]
  ELSE IF text[i] = "\n" THEN f[i + 1]
  ELSE <<i>> \o f[i + 1]

IsReading(text, f) == f = [i \in 1 .. Len(text) + 1 |-> ReadStep(text, f, i)]

\* What is read at a position depends on the positions behind it.
LEMMA ReadStepDepends ==
  ASSUME NEW text \in Seq(Characters), NEW i \in 1 .. Len(text) + 1, NEW f, NEW g,
         \A k \in i + 1 .. Len(text) + 1 : f[k] = g[k]
  PROVE  ReadStep(text, f, i) = ReadStep(text, g, i)
<1>1. CASE i > Len(text)
  BY <1>1 DEF ReadStep, AtEnd
<1>2. CASE i <= Len(text)
  <2>1. i \in 1 .. Len(text) /\ i + 1 \in i + 1 .. Len(text) + 1
    BY <1>2
  <2>2. /\ f[CommentEnd(text, i, <<"\n">>, 2)] = g[CommentEnd(text, i, <<"\n">>, 2)]
        /\ f[CommentEnd(text, i, Footer, 2)] = g[CommentEnd(text, i, Footer, 2)]
        /\ f[i + 1] = g[i + 1]
    BY <2>1, CommentEndsBehind
  <2>. QED  BY <2>2 DEF ReadStep
<1>. QED  BY <1>1, <1>2

LEMMA ReadingExists ==
  ASSUME NEW text \in Seq(Characters)
  PROVE  \E f : IsReading(text, f)
<1> DEFINE D == 1 .. Len(text) + 1
           Right(f, k) == \A i \in D : i + k > Len(text) => f[i] = ReadStep(text, f, i)
           S == {k \in Nat : \E f : Right(f, k)}
<1>0. Len(text) \in Nat
  OBVIOUS
<1>1. 0 \in S
  <2> DEFINE f == [i \in D |-> <<>>]
  <2>1. Right(f, 0)
    BY <1>0 DEF ReadStep, AtEnd
  <2>. QED  BY <2>1
<1>2. ASSUME NEW k \in Nat, k \in S
      PROVE  k + 1 \in S
  <2>1. PICK f : Right(f, k)
    BY <1>2
  <2> DEFINE g == [i \in D |-> ReadStep(text, f, i)]
  <2>2. \A i \in D : i + k > Len(text) => g[i] = f[i]
    BY <2>1
  <2>3. \A i \in D : g[i] = ReadStep(text, f, i)
    OBVIOUS
  <2> HIDE DEF g
  <2>4. ASSUME NEW i \in D, i + (k + 1) > Len(text)
        PROVE  g[i] = ReadStep(text, g, i)
    <3>1. \A j \in i + 1 .. Len(text) + 1 : f[j] = g[j]
      BY <1>0, <2>2, <2>4
    <3>2. ReadStep(text, f, i) = ReadStep(text, g, i)
      BY <3>1, ReadStepDepends
    <3>. QED  BY <2>3, <3>2
  <2>. QED  BY <2>4
<1>3. Len(text) \in S
  <2> HIDE DEF S
  <2>. QED  BY <1>0, <1>1, <1>2, Upwards
<1>4. PICK f : Right(f, Len(text))
  BY <1>3
<1> DEFINE g == [i \in D |-> f[i]]
<1>5. ASSUME NEW i \in D
      PROVE  f[i] = ReadStep(text, g, i)
  <2>1. f[i] = ReadStep(text, f, i)
    BY <1>0, <1>4
  <2>2. \A j \in i + 1 .. Len(text) + 1 : f[j] = g[j]
    BY <1>0
  <2> HIDE DEF g
  <2>. QED  BY <2>1, <2>2, ReadStepDepends
<1>6. g = [i \in D |-> ReadStep(text, g, i)]
  <2> SUFFICES \A i \in D : f[i] = ReadStep(text, g, i)
    BY Zenon
  <2>. QED  BY <1>5
<1>. QED  BY <1>6 DEF IsReading

\* What is read from a position on.
Reading(text) == CHOOSE f : IsReading(text, f)
Read(text, i) == Reading(text)[i]

LEMMA ReadAt ==
  ASSUME NEW text \in Seq(Characters), NEW i \in 1 .. Len(text) + 1
  PROVE  Read(text, i) =
           IF i > Len(text) THEN <<>>
           ELSE IF i + 1 <= Len(text) /\ text[i] = "/" /\ text[i + 1] = "/"
                THEN Read(text, CommentEnd(text, i, <<"\n">>, 2))
           ELSE IF i + 1 <= Len(text) /\ text[i] = "/" /\ text[i + 1] = "*"
                THEN Read(text, CommentEnd(text, i, Footer, 2))
           ELSE IF text[i] = "\n" THEN Read(text, i + 1)
           ELSE <<i>> \o Read(text, i + 1)
<1>1. IsReading(text, Reading(text))
  BY ReadingExists, Zenon DEF Reading
<1> DEFINE f == Reading(text)
<1> HIDE DEF f
<1>2. IsReading(text, f)
  BY <1>1 DEF f
<1>3. f[i] = ReadStep(text, f, i)
  BY <1>2 DEF IsReading
<1>4. /\ OccursAt(text, <<"/", "/">>, i) <=> i + 1 <= Len(text) /\ text[i] = "/" /\ text[i + 1] = "/"
      /\ OccursAt(text, <<"/", "*">>, i) <=> i + 1 <= Len(text) /\ text[i] = "/" /\ text[i + 1] = "*"
  BY CharactersAssumption, OccursTwo
<1>5. f[i] = IF i > Len(text) THEN <<>>
           ELSE IF i + 1 <= Len(text) /\ text[i] = "/" /\ text[i + 1] = "/"
                THEN f[CommentEnd(text, i, <<"\n">>, 2)]
           ELSE IF i + 1 <= Len(text) /\ text[i] = "/" /\ text[i + 1] = "*"
                THEN f[CommentEnd(text, i, Footer, 2)]
           ELSE IF text[i] = "\n" THEN f[i + 1]
           ELSE <<i>> \o f[i + 1]
  BY <1>3, <1>4 DEF ReadStep, AtEnd
<1>. QED  BY <1>5 DEF f, Read

LEMMA ProgramIsRead ==
  ASSUME NEW text
  PROVE  Program(text) = Read(text, 1)
  BY DEF Program, Read, Reading, IsReading, ReadStep

\* The program of a text is made of its positions.
LEMMA ReadType ==
  ASSUME NEW text \in Seq(Characters), NEW i \in 1 .. Len(text) + 1
  PROVE  Read(text, i) \in Seq(i .. Len(text))
<1> DEFINE S == {j \in 1 .. Len(text) + 1 : Read(text, j) \in Seq(j .. Len(text))}
<1>1. Len(text) \in Nat
  OBVIOUS
<1>2. ASSUME NEW j \in 1 .. Len(text) + 1, \A k \in j + 1 .. Len(text) + 1 : k \in S
      PROVE  j \in S
  <2>0. <<>> \in Seq(j .. Len(text))
    OBVIOUS
  <2>1. CASE j > Len(text)
    BY <2>0, <2>1, ReadAt
  <2>2. CASE j <= Len(text)
    <3>1. j \in 1 .. Len(text) /\ j + 1 \in j + 1 .. Len(text) + 1
      BY <1>1, <2>2
    <3>2. \A k \in j + 1 .. Len(text) + 1 : Read(text, k) \in Seq(j .. Len(text))
      <4>1. ASSUME NEW k \in j + 1 .. Len(text) + 1
            PROVE  Read(text, k) \in Seq(j .. Len(text))
        <5>1. Read(text, k) \in Seq(k .. Len(text))
          BY <1>2
        <5>2. k .. Len(text) \subseteq j .. Len(text)
          BY <1>1
        <5>. QED  BY <5>1, <5>2
      <4>. QED  BY <4>1
    <3>3. /\ Read(text, CommentEnd(text, j, <<"\n">>, 2)) \in Seq(j .. Len(text))
          /\ Read(text, CommentEnd(text, j, Footer, 2)) \in Seq(j .. Len(text))
          /\ Read(text, j + 1) \in Seq(j .. Len(text))
      BY <3>1, <3>2, CommentEndsBehind
    <3>4. <<j>> \o Read(text, j + 1) \in Seq(j .. Len(text))
      <4>1. j \in j .. Len(text)
        BY <3>1
      <4>. QED  BY <3>3, <4>1
    <3>5. Read(text, j) \in {Read(text, CommentEnd(text, j, <<"\n">>, 2)),
                             Read(text, CommentEnd(text, j, Footer, 2)),
                             Read(text, j + 1), <<j>> \o Read(text, j + 1)}
      <4>1. ~(j > Len(text))
        BY <1>1, <2>2
      <4>. QED  BY <4>1, ReadAt, Zenon
    <3>. QED  BY <3>3, <3>4, <3>5
  <2>. QED  BY <1>1, <2>1, <2>2
<1>3. \A j \in 1 .. Len(text) + 1 : j \in S
  <2>1. FromBehind(S, 1, Len(text) + 1)
    BY <1>2 DEF FromBehind
  <2> HIDE DEF S
  <2>. QED  BY <1>1, <2>1, Backwards
<1>. QED  BY <1>3

-----------------------------------------------------------------------------
(* What the tests print                                                    *)

Lines == {text \in Seq(Characters) : LineText(text)}

LEMMA LinesJoin ==
  ASSUME NEW a \in Lines, NEW b \in Lines
  PROVE  a \o b \in Lines
<1>1. a \in Seq(Characters) /\ b \in Seq(Characters) /\ LineText(a) /\ LineText(b)
  BY DEF Lines
<1>2. PICK s : s = a \o b
  OBVIOUS
<1>3. /\ s \in Seq(Characters) /\ Len(s) = Len(a) + Len(b)
      /\ \A k \in 1 .. Len(a) : s[k] = a[k]
      /\ \A k \in 1 .. Len(b) : s[Len(a) + k] = b[k]
  BY <1>1, <1>2, JoinTwo
<1>4. Len(a) \in Nat /\ Len(b) \in Nat
  BY <1>1
<1>5. CASE Len(b) = 0
  <2>1. ASSUME s # <<>>
        PROVE  s[Len(s)] = "\n"
    <3>1. Len(a) # 0 /\ Len(s) = Len(a)
      BY <1>3, <1>4, <1>5, <2>1, EmptySeq
    <3>2. a # <<>> /\ Len(a) \in 1 .. Len(a)
      BY <1>4, <3>1
    <3>. QED  BY <1>1, <1>3, <3>1, <3>2 DEF LineText
  <2>. QED  BY <1>2, <1>3, <2>1 DEF Lines, LineText
<1>6. CASE Len(b) # 0
  <2>1. b # <<>> /\ Len(b) \in 1 .. Len(b)
    BY <1>4, <1>6
  <2>2. s[Len(s)] = "\n"
    BY <1>1, <1>3, <2>1 DEF LineText
  <2>. QED  BY <1>2, <1>3, <2>2 DEF Lines, LineText
<1>. QED  BY <1>5, <1>6

FlattenStep(seqs, f, i) == IF i = 1 THEN seqs[i] ELSE f[i - 1] \o seqs[i]

IsFlatten(seqs, f) == f = [i \in 1 .. Len(seqs) |-> FlattenStep(seqs, f, i)]

LEMMA FlattenExists ==
  ASSUME NEW S, NEW seqs \in Seq(S)
  PROVE  \E f : IsFlatten(seqs, f)
<1> DEFINE D == 1 .. Len(seqs)
           Right(f, k) == \A i \in D : i <= k => f[i] = FlattenStep(seqs, f, i)
           T == {k \in Nat : \E f : Right(f, k)}
<1>0. Len(seqs) \in Nat
  OBVIOUS
<1>1. 0 \in T
  OBVIOUS
<1>2. ASSUME NEW k \in Nat, k \in T
      PROVE  k + 1 \in T
  <2>1. PICK f : Right(f, k)
    BY <1>2
  <2> DEFINE g == [i \in D |-> FlattenStep(seqs, f, i)]
  <2>2. \A i \in D : i <= k => g[i] = f[i]
    BY <2>1
  <2>3. \A i \in D : g[i] = FlattenStep(seqs, f, i)
    OBVIOUS
  <2> HIDE DEF g
  <2>4. ASSUME NEW i \in D, i <= k + 1
        PROVE  g[i] = FlattenStep(seqs, g, i)
    <3>1. CASE i = 1
      BY <2>3, <3>1 DEF FlattenStep
    <3>2. CASE i # 1
      <4>1. i - 1 \in D /\ i - 1 <= k
        BY <1>0, <2>4, <3>2
      <4>2. f[i - 1] = g[i - 1]
        BY <2>2, <4>1
      <4>. QED  BY <2>3, <3>2, <4>2 DEF FlattenStep
    <3>. QED  BY <3>1, <3>2
  <2>5. Right(g, k + 1)
    BY <2>4
  <2>. QED  BY <2>5
<1>3. Len(seqs) \in T
  <2> HIDE DEF T
  <2>. QED  BY <1>0, <1>1, <1>2, Upwards
<1>4. PICK f : Right(f, Len(seqs))
  BY <1>3
<1> DEFINE g == [i \in D |-> f[i]]
<1>5. ASSUME NEW i \in D
      PROVE  f[i] = FlattenStep(seqs, g, i)
  <2>1. f[i] = FlattenStep(seqs, f, i)
    BY <1>0, <1>4
  <2>2. CASE i = 1
    BY <2>1, <2>2 DEF FlattenStep
  <2>3. CASE i # 1
    <3>1. i - 1 \in D
      BY <1>0, <2>3
    <3>2. f[i - 1] = g[i - 1]
      BY <3>1
    <3> HIDE DEF g
    <3>. QED  BY <2>1, <2>3, <3>2 DEF FlattenStep
  <2>. QED  BY <2>2, <2>3
<1>6. g = [i \in D |-> FlattenStep(seqs, g, i)]
  <2> SUFFICES \A i \in D : f[i] = FlattenStep(seqs, g, i)
    BY Zenon
  <2>. QED  BY <1>5
<1>. QED  BY <1>6 DEF IsFlatten

Flatten(seqs) == CHOOSE f : IsFlatten(seqs, f)

\* Lines behind lines are lines.
LEMMA FlattenLines ==
  ASSUME NEW seqs \in Seq(Lines)
  PROVE  FlattenSeq(seqs) \in Lines
<1>1. IsFlatten(seqs, Flatten(seqs))
  BY FlattenExists, Zenon DEF Flatten
<1>2. FlattenSeq(seqs) = IF Len(seqs) = 0 THEN seqs ELSE Flatten(seqs)[Len(seqs)]
  BY DEF FlattenSeq, Flatten, IsFlatten, FlattenStep
<1>3. PICK f : f = Flatten(seqs)
  OBVIOUS
<1>4. \A i \in 1 .. Len(seqs) : f[i] = IF i = 1 THEN seqs[i] ELSE f[i - 1] \o seqs[i]
  BY <1>1, <1>3 DEF IsFlatten, FlattenStep
<1>5. Len(seqs) \in Nat /\ \A i \in 1 .. Len(seqs) : seqs[i] \in Lines
  OBVIOUS
<1> DEFINE T == {k \in Nat : k + 1 <= Len(seqs) => f[k + 1] \in Lines}
<1>6. 0 \in T
  BY <1>4, <1>5
<1>7. ASSUME NEW k \in Nat, k \in T
      PROVE  k + 1 \in T
  <2> SUFFICES ASSUME (k + 1) + 1 <= Len(seqs)
               PROVE  f[(k + 1) + 1] \in Lines
    OBVIOUS
  <2>1. /\ (k + 1) + 1 \in 1 .. Len(seqs) /\ (k + 1) + 1 # 1 /\ ((k + 1) + 1) - 1 = k + 1
        /\ k + 1 <= Len(seqs)
    BY <1>5
  <2>2. f[(k + 1) + 1] = f[k + 1] \o seqs[(k + 1) + 1]
    BY <1>4, <2>1
  <2>3. f[k + 1] \in Lines /\ seqs[(k + 1) + 1] \in Lines
    BY <1>5, <1>7, <2>1
  <2>. QED  BY <2>2, <2>3, LinesJoin
<1>8. \A k \in Nat : k \in T
  <2> HIDE DEF T
  <2>. QED  BY <1>6, <1>7, Upwards
<1>9. CASE Len(seqs) = 0
  <2>1. seqs = <<>>
    BY <1>9, EmptySeq
  <2>. QED  BY <1>2, <1>9, <2>1 DEF Lines, LineText
<1>10. CASE Len(seqs) # 0
  <2>1. Len(seqs) - 1 \in Nat /\ (Len(seqs) - 1) + 1 = Len(seqs)
    BY <1>5, <1>10
  <2>2. f[Len(seqs)] \in Lines
    <3>1. Len(seqs) - 1 \in T
      BY <1>8, <2>1
    <3>2. (Len(seqs) - 1) + 1 <= Len(seqs)
      BY <1>5
    <3>3. f[(Len(seqs) - 1) + 1] \in Lines
      BY <3>1, <3>2
    <3>. QED  BY <2>1, <3>3
  <2>. QED  BY <1>2, <1>3, <1>10, <2>2
<1>. QED  BY <1>9, <1>10

\* The number of a line is a number.
LEMMA LineOfType ==
  ASSUME NEW text, NEW i \in Nat
  PROVE  LineOf(text, i) \in Nat \ {0}
<1>1. IsFiniteSet(1 .. i - 1)
  BY FS_Interval
<1>2. IsFiniteSet({k \in 1 .. i - 1 : text[k] = "\n"})
  BY <1>1, FS_Subset
<1>3. Cardinality({k \in 1 .. i - 1 : text[k] = "\n"}) \in Nat
  BY <1>2, FS_CardinalityType
<1>. QED  BY <1>3 DEF LineOf

\* What a compiler does not accept in the program of a text.
Refused(text, c) == {i \in ToSet(Program(text)) : text[i] # "x" \/ c.does # "prints"}

LEMMA ProgramPositions ==
  ASSUME NEW text \in Seq(Characters)
  PROVE  /\ Program(text) \in Seq(1 .. Len(text))
         /\ ToSet(Program(text)) \subseteq 1 .. Len(text)
         /\ ToSet(Program(text)) = {Program(text)[k] : k \in 1 .. Len(Program(text))}
<1>1. Program(text) \in Seq(1 .. Len(text))
  <2>1. 1 \in 1 .. Len(text) + 1
    OBVIOUS
  <2>. QED  BY <2>1, ReadType, ProgramIsRead
<1>. QED  BY <1>1 DEF ToSet

LEMMA FirstRefused ==
  ASSUME NEW text \in Seq(Characters), NEW c, Refused(text, c) # {}
  PROVE  /\ Min(Refused(text, c)) \in Refused(text, c)
         /\ Min(Refused(text, c)) \in 1 .. Len(text)
         /\ \A i \in Refused(text, c) : Min(Refused(text, c)) <= i
<1>1. Refused(text, c) \subseteq 1 .. Len(text) /\ Refused(text, c) \subseteq Nat
  BY ProgramPositions DEF Refused
<1>2. \E x \in Refused(text, c) : \A y \in Refused(text, c) : x <= y
  BY <1>1, Least
<1> DEFINE R == Refused(text, c)
<1> HIDE DEF R
<1>3. Min(R) \in R /\ \A i \in R : Min(R) <= i
  BY <1>2, Zenon DEF Min, R
<1>. QED  BY <1>1, <1>3 DEF R

\* The result of a test, in its three forms.
ErrorText(n) == <<"E">> \o [k \in 1 .. n |-> "1"] \o <<"\n">>

ResultFor(text, c) ==
  IF Refused(text, c) = {}
  THEN [did |-> "print", output |-> FlattenSeq([k \in DOMAIN Program(text) |-> c.text])]
  ELSE IF c.does = "crashes" /\ text[Min(Refused(text, c))] = "x"
  THEN [did |-> "crash", output |-> <<>>]
  ELSE [did |-> "error", output |-> ErrorText(LineOf(text, Min(Refused(text, c))))]

LEMMA Results ==
  ASSUME NEW text
  PROVE  RunTestCase(text) = ResultFor(text, compiler)
  BY DEF RunTestCase, ResultFor, Refused, ErrorText

LEMMA ErrorLines ==
  ASSUME NEW n \in Nat
  PROVE  ErrorText(n) \in Lines
<1>1. PICK strokes : strokes = [k \in 1 .. n |-> "1"]
  OBVIOUS
<1>2. strokes \in Seq(Characters) /\ <<"E">> \in Seq(Characters) /\ <<"\n">> \in Seq(Characters)
  BY <1>1, CharactersAssumption
<1>3. PICK s : s = <<"E">> \o strokes \o <<"\n">>
  OBVIOUS
<1>4. ThreeParts(s, <<"E">>, strokes, <<"\n">>)
  BY <1>2, <1>3, JoinThree
<1>5. /\ s \in Seq(Characters) /\ Len(s) = Len(<<"E">>) + Len(strokes) + Len(<<"\n">>)
      /\ \A k \in 1 .. Len(<<"\n">>) : s[Len(<<"E">>) + Len(strokes) + k] = <<"\n">>[k]
  BY <1>4 DEF ThreeParts
<1>6. Len(<<"\n">>) = 1 /\ <<"\n">>[1] = "\n" /\ 1 \in 1 .. 1
  OBVIOUS
<1>7. s[Len(s)] = "\n"
  BY <1>5, <1>6
<1>. QED  BY <1>1, <1>3, <1>5, <1>7 DEF Lines, LineText, ErrorText

\* Every test prints whole lines.
LEMMA OutputsFor ==
  ASSUME NEW c \in Compilers, NEW text \in Seq(Characters)
  PROVE  ResultFor(text, c).output \in Lines
<1>1. c.text \in Lines
  BY CompilersAssumption DEF Lines, LineText
<1>2. CASE Refused(text, c) = {}
  <2>1. DOMAIN Program(text) = 1 .. Len(Program(text)) /\ Len(Program(text)) \in Nat
    BY ProgramPositions
  <2>2. [k \in DOMAIN Program(text) |-> c.text] \in Seq(Lines)
    BY <1>1, <2>1
  <2>. QED  BY <1>2, <2>2, FlattenLines DEF ResultFor
<1>3. CASE Refused(text, c) # {}
  <2>1. LineOf(text, Min(Refused(text, c))) \in Nat
    BY <1>3, FirstRefused, LineOfType
  <2>2. ErrorText(LineOf(text, Min(Refused(text, c)))) \in Lines
    BY <2>1, ErrorLines
  <2>3. <<>> \in Lines
    BY DEF Lines, LineText
  <2>4. ResultFor(text, c).output \in {<<>>, ErrorText(LineOf(text, Min(Refused(text, c))))}
    BY <1>3 DEF ResultFor
  <2>. QED  BY <2>2, <2>3, <2>4
<1>. QED  BY <1>2, <1>3

LEMMA Outputs ==
  ASSUME compiler \in Compilers, NEW text \in Seq(Characters)
  PROVE  RunTestCase(text).output \in Lines
  BY OutputsFor, Results

-----------------------------------------------------------------------------
(* The collected tests                                                     *)

TestCaseType ==
  [filename : Names, input : Seq(Characters), expected_output : Seq(Characters)]

FilesType == files \in [Names -> Seq(Characters)]

CollectStep(filtered, f, n) ==
  IF n = 0 THEN <<>>
  ELSE IF FileNames[n] \in filtered
       THEN Append(f[n - 1], CollectedCase(FileNames[n]))
       ELSE f[n - 1]

IsCollect(filtered, f) == f = [n \in 0 .. Len(FileNames) |-> CollectStep(filtered, f, n)]

LEMMA CollectExists ==
  ASSUME NEW filtered
  PROVE  \E f : IsCollect(filtered, f)
<1> DEFINE D == 0 .. Len(FileNames)
           Right(f, k) == \A i \in D : i <= k => f[i] = CollectStep(filtered, f, i)
           T == {k \in Nat : \E f : Right(f, k)}
<1>0. Len(FileNames) \in Nat
  BY FileNamesAssumption
<1>1. 0 \in T
  <2> DEFINE f == [i \in D |-> <<>>]
  <2>1. Right(f, 0)
    BY <1>0 DEF CollectStep
  <2>. QED  BY <2>1
<1>2. ASSUME NEW k \in Nat, k \in T
      PROVE  k + 1 \in T
  <2>1. PICK f : Right(f, k)
    BY <1>2
  <2> DEFINE g == [i \in D |-> CollectStep(filtered, f, i)]
  <2>2. \A i \in D : i <= k => g[i] = f[i]
    BY <2>1
  <2>3. \A i \in D : g[i] = CollectStep(filtered, f, i)
    OBVIOUS
  <2> HIDE DEF g
  <2>4. ASSUME NEW i \in D, i <= k + 1
        PROVE  g[i] = CollectStep(filtered, g, i)
    <3>1. CASE i = 0
      BY <2>3, <3>1 DEF CollectStep
    <3>2. CASE i # 0
      <4>1. i - 1 \in D /\ i - 1 <= k
        BY <1>0, <2>4, <3>2
      <4>2. f[i - 1] = g[i - 1]
        BY <2>2, <4>1
      <4>3. g[i] = CollectStep(filtered, f, i)
        BY <2>3
      <4>. QED  BY ONLY <4>2, <4>3 DEF CollectStep
    <3>. QED  BY <3>1, <3>2
  <2>5. Right(g, k + 1)
    BY <2>4
  <2>. QED  BY <2>5
<1>3. Len(FileNames) \in T
  <2> HIDE DEF T
  <2>. QED  BY <1>0, <1>1, <1>2, Upwards
<1>4. PICK f : Right(f, Len(FileNames))
  BY <1>3
<1> DEFINE g == [i \in D |-> f[i]]
<1>5. ASSUME NEW i \in D
      PROVE  f[i] = CollectStep(filtered, g, i)
  <2>1. f[i] = CollectStep(filtered, f, i)
    BY <1>0, <1>4
  <2>2. CASE i = 0
    BY <2>1, <2>2 DEF CollectStep
  <2>3. CASE i # 0
    <3>1. i - 1 \in D
      BY <1>0, <2>3
    <3>2. f[i - 1] = g[i - 1]
      BY <3>1
    <3> HIDE DEF g
    <3>. QED  BY ONLY <2>1, <3>2 DEF CollectStep
  <2>. QED  BY <2>2, <2>3
<1>6. g = [i \in D |-> CollectStep(filtered, g, i)]
  <2> SUFFICES \A i \in D : f[i] = CollectStep(filtered, g, i)
    BY Zenon
  <2>. QED  BY <1>5
<1>. QED  BY <1>6 DEF IsCollect

Collect(filtered) == CHOOSE f : IsCollect(filtered, f)

\* The tests of the first n files: what each file holds, no file twice.
CollectedFrom(cases, n) ==
  /\ cases \in Seq(TestCaseType)
  /\ \A k \in 1 .. Len(cases) :
       /\ \E m \in 1 .. n : cases[k].filename = FileNames[m]
       /\ cases[k] = CollectedCase(cases[k].filename)
  /\ \A j, k \in 1 .. Len(cases) : cases[j].filename = cases[k].filename => j = k

LEMMA CollectedCaseType ==
  ASSUME FilesType, NEW name \in Names
  PROVE  CollectedCase(name) \in TestCaseType
<1>1. files[name] \in Seq(Characters)
  BY DEF FilesType
<1>2. ExpectedOutput(files[name]) \in Seq(Characters)
  BY <1>1, ExpectedType
<1>. QED  BY <1>1, <1>2 DEF CollectedCase, TestCaseType

LEMMA AppendCase ==
  ASSUME FilesType, NEW cases, NEW n \in 0 .. Len(FileNames) - 1, CollectedFrom(cases, n)
  PROVE  CollectedFrom(Append(cases, CollectedCase(FileNames[n + 1])), n + 1)
<1> DEFINE name == FileNames[n + 1]
           case == CollectedCase(name)
<1>1. PICK more : more = Append(cases, case)
  OBVIOUS
<1>2. Len(FileNames) \in Nat /\ n + 1 \in 1 .. Len(FileNames) /\ name \in Names
  BY FileNamesAssumption
<1>3. case \in TestCaseType /\ case.filename = name
  BY <1>2, CollectedCaseType DEF CollectedCase
<1>4. /\ cases \in Seq(TestCaseType) /\ Len(cases) \in Nat
      /\ more \in Seq(TestCaseType) /\ Len(more) = Len(cases) + 1
      /\ \A k \in 1 .. Len(cases) : more[k] = cases[k]
      /\ more[Len(cases) + 1] = case
  <2>1. cases \in Seq(TestCaseType)
    BY DEF CollectedFrom
  <2> HIDE DEF case
  <2>. QED  BY <1>1, <1>3, <2>1, AppendProperties
<1>5. \A k \in 1 .. Len(cases) :
        /\ \E m \in 1 .. n : cases[k].filename = FileNames[m]
        /\ cases[k] = CollectedCase(cases[k].filename)
  BY DEF CollectedFrom
<1>6. \A k \in 1 .. Len(cases) : cases[k].filename # name
  <2>1. ASSUME NEW k \in 1 .. Len(cases), NEW m \in 1 .. n, cases[k].filename = FileNames[m]
        PROVE  cases[k].filename # name
    <3>1. m \in DOMAIN FileNames /\ n + 1 \in DOMAIN FileNames /\ m # n + 1
      BY <1>2, FileNamesAssumption
    <3>. QED  BY <2>1, <3>1, FileNamesAssumption
  <2>. QED  BY <1>5, <2>1
<1> HIDE DEF case, name
<1>7. ASSUME NEW k \in 1 .. Len(more)
      PROVE  /\ \E m \in 1 .. n + 1 : more[k].filename = FileNames[m]
             /\ more[k] = CollectedCase(more[k].filename)
  <2>1. CASE k = Len(cases) + 1
    <3>1. more[k] = case /\ n + 1 \in 1 .. n + 1
      BY <1>2, <1>4, <2>1
    <3>. QED  BY <1>3, <3>1 DEF case, name
  <2>2. CASE k # Len(cases) + 1
    <3>1. k \in 1 .. Len(cases) /\ more[k] = cases[k]
      BY <1>4, <2>2
    <3>2. 1 .. n \subseteq 1 .. n + 1
      BY <1>2
    <3>. QED  BY <1>5, <3>1, <3>2
  <2>. QED  BY <2>1, <2>2
<1>8. ASSUME NEW j \in 1 .. Len(more), NEW k \in 1 .. Len(more),
             more[j].filename = more[k].filename
      PROVE  j = k
  <2>1. \A i \in 1 .. Len(more) :
          \/ i = Len(cases) + 1 /\ more[i].filename = name
          \/ i \in 1 .. Len(cases) /\ more[i] = cases[i] /\ more[i].filename # name
    BY <1>3, <1>4, <1>6
  <2>2. \A i, l \in 1 .. Len(cases) : cases[i].filename = cases[l].filename => i = l
    BY DEF CollectedFrom
  <2>. QED  BY <1>8, <2>1, <2>2
<1>9. CollectedFrom(more, n + 1)
  BY <1>4, <1>7, <1>8 DEF CollectedFrom
<1>. QED  BY <1>1, <1>9 DEF case, name

LEMMA CollectedTests ==
  ASSUME FilesType, NEW filtered
  PROVE  CollectedFrom(Collected(filtered), Len(FileNames))
<1>1. IsCollect(filtered, Collect(filtered))
  BY CollectExists, Zenon DEF Collect
<1>2. Collected(filtered) = Collect(filtered)[Len(FileNames)]
  BY DEF Collected, Collect, IsCollect, CollectStep
<1>3. PICK f : f = Collect(filtered)
  OBVIOUS
<1>4. Len(FileNames) \in Nat
  BY FileNamesAssumption
<1>5. \A n \in 0 .. Len(FileNames) : f[n] = CollectStep(filtered, f, n)
  BY <1>1, <1>3 DEF IsCollect
<1> DEFINE T == {n \in Nat : n <= Len(FileNames) => CollectedFrom(f[n], n)}
<1>6. 0 \in T
  <2>1. f[0] = <<>>
    BY <1>4, <1>5 DEF CollectStep
  <2>2. <<>> \in Seq(TestCaseType) /\ 1 .. Len(<<>>) = {}
    OBVIOUS
  <2>3. CollectedFrom(<<>>, 0)
    BY <2>2 DEF CollectedFrom
  <2>. QED  BY <2>1, <2>3
<1>7. ASSUME NEW n \in Nat, n \in T
      PROVE  n + 1 \in T
  <2> SUFFICES ASSUME n + 1 <= Len(FileNames)
               PROVE  CollectedFrom(f[n + 1], n + 1)
    OBVIOUS
  <2>1. /\ n + 1 \in 0 .. Len(FileNames) /\ n + 1 # 0 /\ (n + 1) - 1 = n
        /\ n \in 0 .. Len(FileNames) - 1 /\ n <= Len(FileNames)
    BY <1>4
  <2>2. f[n + 1] \in {Append(f[n], CollectedCase(FileNames[n + 1])), f[n]}
    <3>1. f[n + 1] = CollectStep(filtered, f, n + 1)
      BY <1>5, <2>1
    <3>. QED  BY ONLY <2>1, <3>1 DEF CollectStep
  <2>3. CollectedFrom(f[n], n)
    BY <1>7, <2>1
  <2>4. CollectedFrom(Append(f[n], CollectedCase(FileNames[n + 1])), n + 1)
    BY <2>1, <2>3, AppendCase
  <2>5. CollectedFrom(f[n], n + 1)
    <3>1. 1 .. n \subseteq 1 .. n + 1
      OBVIOUS
    <3>. QED  BY <2>3, <3>1 DEF CollectedFrom
  <2>. QED  BY <2>2, <2>4, <2>5
<1>8. Len(FileNames) \in T
  <2> HIDE DEF T
  <2>. QED  BY <1>4, <1>6, <1>7, Upwards
<1>. QED  BY <1>2, <1>3, <1>4, <1>8

-----------------------------------------------------------------------------
(* What a run reports                                                      *)

OutcomeType == [count_executed : Nat, count_failed : Nat, count_updated : Nat]

TypesRight ==
  /\ FilesType
  /\ compiler \in Compilers
  /\ update_test_cases \in BOOLEAN
  /\ test_cases \in Seq(TestCaseType)
  /\ outcome \in OutcomeType
  /\ running \in BOOLEAN
  /\ settled \in [Names -> 0 .. 2]

\* Between two runs nothing is left of a run.
Idle ==
  ~running => test_cases = <<>> /\ outcome = NoOutcome /\ lost = {} /\ ~update_test_cases

\* The tests of a run are of different files, and expect what their texts say.
Distinct(cases) ==
  \A j, k \in 1 .. Len(cases) : cases[j].filename = cases[k].filename => j = k

AsCollected ==
  /\ Distinct(test_cases)
  /\ \A k \in 1 .. Len(test_cases) :
       test_cases[k].expected_output = ExpectedOutput(test_cases[k].input)
  /\ outcome.count_executed <= Len(test_cases)

\* A new text gets lost only by executing its test.
LostExecuted ==
  \A name \in lost :
    \E k \in 1 .. outcome.count_executed : test_cases[k].filename = name

ChangedIn(fs, cases) == {k \in DOMAIN cases : fs[cases[k].filename] # cases[k].input}

Counted(fs, cases, out, gone, asked) ==
  LET updated == Cardinality(ChangedIn(fs, cases)) + Cardinality(gone)
  IN  /\ ChangedIn(fs, cases) \subseteq 1 .. out.count_executed
      /\ out.count_updated = updated
      /\ updated + out.count_failed <= out.count_executed
      /\ ~asked => updated = 0

RunInv ==
  /\ TypesRight
  /\ Idle
  /\ AsCollected
  /\ LostExecuted
  /\ IsFiniteSet(lost)
  /\ Counted(files, test_cases, outcome, lost, update_test_cases)

LEMMA SameOutcome ==
  OutcomeMatchesFiles <=> Counted(files, test_cases, outcome, lost, update_test_cases)
  BY DEF OutcomeMatchesFiles, Counted, ChangedIn

LEMMA NothingCounted ==
  ASSUME NEW fs, NEW asked
  PROVE  Counted(fs, <<>>, NoOutcome, {}, asked)
<1>1. ChangedIn(fs, <<>>) = {}
  BY DEF ChangedIn
<1>. QED  BY <1>1, FS_EmptySet DEF Counted, NoOutcome

LEMMA NothingChanged ==
  ASSUME NEW fs, NEW cases, NEW asked,
         \A k \in DOMAIN cases : fs[cases[k].filename] = cases[k].input
  PROVE  Counted(fs, cases, NoOutcome, {}, asked)
<1>1. ChangedIn(fs, cases) = {}
  BY DEF ChangedIn
<1>. QED  BY <1>1, FS_EmptySet DEF Counted, NoOutcome

LEMMA ChangedFinite ==
  ASSUME NEW fs, NEW cases \in Seq(TestCaseType)
  PROVE  /\ IsFiniteSet(ChangedIn(fs, cases))
         /\ Cardinality(ChangedIn(fs, cases)) \in Nat
<1>1. IsFiniteSet(1 .. Len(cases))
  BY FS_Interval
<1>2. ChangedIn(fs, cases) \subseteq 1 .. Len(cases)
  BY DEF ChangedIn
<1>. QED  BY <1>1, <1>2, FS_Subset, FS_CardinalityType

\* A test that changes no file is executed, ...
LEMMA CountExecuted ==
  ASSUME NEW fs, NEW cases \in Seq(TestCaseType), NEW out \in OutcomeType,
         NEW new \in OutcomeType, NEW gone, IsFiniteSet(gone), NEW asked,
         Counted(fs, cases, out, gone, asked),
         new.count_executed = out.count_executed + 1,
         new.count_updated = out.count_updated,
         new.count_failed = out.count_failed \/ new.count_failed = out.count_failed + 1
  PROVE  Counted(fs, cases, new, gone, asked)
<1>1. /\ out.count_executed \in Nat /\ out.count_updated \in Nat /\ out.count_failed \in Nat
      /\ new.count_executed \in Nat /\ new.count_updated \in Nat /\ new.count_failed \in Nat
  BY DEF OutcomeType
<1>2. Cardinality(ChangedIn(fs, cases)) \in Nat /\ Cardinality(gone) \in Nat
  BY ChangedFinite, FS_CardinalityType
<1>3. ChangedIn(fs, cases) \subseteq 1 .. new.count_executed
  <2>1. 1 .. out.count_executed \subseteq 1 .. new.count_executed
    BY <1>1
  <2>. QED  BY <2>1 DEF Counted
<1>4. /\ new.count_updated = Cardinality(ChangedIn(fs, cases)) + Cardinality(gone)
      /\ ~asked => Cardinality(ChangedIn(fs, cases)) + Cardinality(gone) = 0
      /\ Cardinality(ChangedIn(fs, cases)) + Cardinality(gone) + out.count_failed
           <= out.count_executed
  BY DEF Counted
<1>5. Cardinality(ChangedIn(fs, cases)) + Cardinality(gone) + new.count_failed
        <= new.count_executed
  <2>1. PICK c : c = Cardinality(ChangedIn(fs, cases)) + Cardinality(gone)
    OBVIOUS
  <2>2. c \in Nat /\ c + out.count_failed <= out.count_executed
    BY <1>2, <1>4, <2>1
  <2>3. c + new.count_failed <= new.count_executed
    BY <1>1, <2>2
  <2>. QED  BY <2>1, <2>3
<1>. QED  BY <1>3, <1>4, <1>5 DEF Counted

\* ... one whose file is rewritten is counted as updated, ...
LEMMA CountWritten ==
  ASSUME NEW fs \in [Names -> Seq(Characters)], NEW cases \in Seq(TestCaseType),
         NEW out \in OutcomeType, NEW new \in OutcomeType, NEW gone, IsFiniteSet(gone),
         Counted(fs, cases, out, gone, TRUE), Distinct(cases),
         out.count_executed < Len(cases), NEW fs2, NEW text,
         fs2 = [fs EXCEPT ![cases[out.count_executed + 1].filename] = text],
         text # cases[out.count_executed + 1].input,
         new.count_executed = out.count_executed + 1,
         new.count_updated = out.count_updated + 1,
         new.count_failed = out.count_failed
  PROVE  Counted(fs2, cases, new, gone, TRUE)
<1> DEFINE n == out.count_executed + 1
           before == ChangedIn(fs, cases)
           after == ChangedIn(fs2, cases)
<1>1. /\ out.count_executed \in Nat /\ out.count_updated \in Nat /\ out.count_failed \in Nat
      /\ new.count_executed \in Nat /\ new.count_updated \in Nat /\ new.count_failed \in Nat
      /\ n \in 1 .. Len(cases) /\ n \notin 1 .. out.count_executed
  BY DEF OutcomeType
<1>2. /\ DOMAIN cases = 1 .. Len(cases)
      /\ \A k \in 1 .. Len(cases) : cases[k].filename \in Names
  <2>1. \A k \in 1 .. Len(cases) : cases[k] \in TestCaseType
    OBVIOUS
  <2>. QED  BY <2>1 DEF TestCaseType
<1>3. \A k \in 1 .. Len(cases) :
        fs2[cases[k].filename] = IF k = n THEN text ELSE fs[cases[k].filename]
  BY <1>1, <1>2 DEF Distinct
<1>4. after = before \cup {n}
  BY <1>1, <1>2, <1>3 DEF ChangedIn
<1>5. /\ before \subseteq 1 .. out.count_executed
      /\ out.count_updated = Cardinality(before) + Cardinality(gone)
      /\ Cardinality(before) + Cardinality(gone) + out.count_failed <= out.count_executed
  BY DEF Counted
<1>6. /\ IsFiniteSet(before) /\ Cardinality(before) \in Nat
      /\ Cardinality(gone) \in Nat
  BY ChangedFinite, FS_CardinalityType
<1> HIDE DEF before, after
<1>7. Cardinality(after) = Cardinality(before) + 1
  BY <1>1, <1>4, <1>5, <1>6, FS_AddElement
<1>8. after \subseteq 1 .. new.count_executed
  <2>1. 1 .. out.count_executed \subseteq 1 .. new.count_executed /\ n \in 1 .. new.count_executed
    BY <1>1
  <2>. QED  BY <1>4, <1>5, <2>1
<1>9. /\ new.count_updated = Cardinality(after) + Cardinality(gone)
      /\ Cardinality(after) + Cardinality(gone) + new.count_failed <= new.count_executed
  <2>1. PICK b, g : b = Cardinality(before) /\ g = Cardinality(gone)
    OBVIOUS
  <2>2. b \in Nat /\ g \in Nat /\ out.count_updated = b + g /\ b + g + out.count_failed <= out.count_executed
    BY <1>5, <1>6, <2>1
  <2>3. new.count_updated = (b + 1) + g /\ (b + 1) + g + new.count_failed <= new.count_executed
    BY <1>1, <2>2
  <2>. QED  BY <1>7, <2>1, <2>3
<1>. QED  BY <1>8, <1>9 DEF Counted, after

\* ... and so is one whose new text got lost.
LEMMA CountLost ==
  ASSUME NEW fs, NEW cases \in Seq(TestCaseType), NEW out \in OutcomeType,
         NEW new \in OutcomeType, NEW gone, IsFiniteSet(gone), NEW name, name \notin gone,
         Counted(fs, cases, out, gone, TRUE),
         new.count_executed = out.count_executed + 1,
         new.count_updated = out.count_updated + 1,
         new.count_failed = out.count_failed
  PROVE  Counted(fs, cases, new, gone \cup {name}, TRUE) /\ IsFiniteSet(gone \cup {name})
<1>1. /\ out.count_executed \in Nat /\ out.count_updated \in Nat /\ out.count_failed \in Nat
  BY DEF OutcomeType
<1>2. Cardinality(ChangedIn(fs, cases)) \in Nat /\ Cardinality(gone) \in Nat
  BY ChangedFinite, FS_CardinalityType
<1>3. IsFiniteSet(gone \cup {name}) /\ Cardinality(gone \cup {name}) = Cardinality(gone) + 1
  BY FS_AddElement
<1>4. /\ ChangedIn(fs, cases) \subseteq 1 .. out.count_executed
      /\ out.count_updated = Cardinality(ChangedIn(fs, cases)) + Cardinality(gone)
      /\ Cardinality(ChangedIn(fs, cases)) + Cardinality(gone) + out.count_failed
           <= out.count_executed
  BY DEF Counted
<1>5. ChangedIn(fs, cases) \subseteq 1 .. new.count_executed
  <2>1. 1 .. out.count_executed \subseteq 1 .. new.count_executed
    BY <1>1
  <2>. QED  BY <1>4, <2>1
<1>6. /\ new.count_updated = Cardinality(ChangedIn(fs, cases)) + Cardinality(gone \cup {name})
      /\ Cardinality(ChangedIn(fs, cases)) + Cardinality(gone \cup {name}) + new.count_failed
           <= new.count_executed
  <2>1. PICK b, g : b = Cardinality(ChangedIn(fs, cases)) /\ g = Cardinality(gone)
    OBVIOUS
  <2>2. b \in Nat /\ g \in Nat /\ out.count_updated = b + g /\ b + g + out.count_failed <= out.count_executed
    BY <1>2, <1>4, <2>1
  <2>3. new.count_updated = b + (g + 1) /\ b + (g + 1) + new.count_failed <= new.count_executed
    BY <1>1, <2>2
  <2>. QED  BY <1>3, <2>1, <2>3
<1>. QED  BY <1>3, <1>5, <1>6 DEF Counted

LEMMA RunInit == Init => RunInv
<1> SUFFICES ASSUME Init
             PROVE  RunInv
  OBVIOUS
<1>1. files \in [Names -> Seq(Characters)]
  BY ContentsAssumption DEF Init
<1>2. NoOutcome \in OutcomeType
  BY DEF NoOutcome, OutcomeType
<1>3. TypesRight
  <2>1. settled \in [Names -> 0 .. 2]
    BY DEF Init
  <2>2. compiler \in Compilers /\ update_test_cases \in BOOLEAN /\ running \in BOOLEAN
    BY DEF Init
  <2>3. test_cases \in Seq(TestCaseType)
    BY DEF Init
  <2>4. outcome \in OutcomeType
    BY <1>2 DEF Init
  <2>. QED  BY <1>1, <2>1, <2>2, <2>3, <2>4 DEF TypesRight, FilesType
<1>4. Idle
  BY DEF Idle, Init
<1>5. AsCollected
  <2>1. test_cases = <<>> /\ outcome.count_executed = 0 /\ Len(<<>>) = 0 /\ 1 .. 0 = {}
    BY DEF Init, NoOutcome
  <2>. QED  BY <2>1 DEF AsCollected, Distinct
<1>6. LostExecuted /\ IsFiniteSet(lost)
  BY FS_EmptySet DEF Init, LostExecuted
<1>7. Counted(files, test_cases, outcome, lost, update_test_cases)
  BY NothingCounted DEF Init
<1>. QED  BY <1>3, <1>4, <1>5, <1>6, <1>7 DEF RunInv

LEMMA SettleType ==
  ASSUME settled \in [Names -> 0 .. 2], NEW name, NEW kept, Settle(name, kept)
  PROVE  settled' \in [Names -> 0 .. 2]
<1>1. \A n \in 0 .. 2 : (IF ~kept THEN 0 ELSE IF n < 2 THEN n + 1 ELSE n) \in 0 .. 2
  OBVIOUS
<1>. QED  BY <1>1 DEF Settle

\* What ends a run leaves nothing of it.
LEMMA EndRunKeeps ==
  ASSUME RunInv, EndRun, UNCHANGED <<files, compiler>>, settled' \in [Names -> 0 .. 2]
  PROVE  RunInv'
<1>1. NoOutcome \in OutcomeType /\ NoOutcome.count_executed = 0
  BY DEF NoOutcome, OutcomeType
<1>2. TypesRight'
  <2>1. FilesType' /\ (compiler \in Compilers)'
    BY DEF RunInv, TypesRight, FilesType
  <2>2. (update_test_cases \in BOOLEAN)' /\ (running \in BOOLEAN)'
    BY DEF EndRun
  <2>3. (test_cases \in Seq(TestCaseType))'
    BY DEF EndRun
  <2>4. (outcome \in OutcomeType)'
    BY <1>1 DEF EndRun
  <2>. QED  BY <2>1, <2>2, <2>3, <2>4 DEF TypesRight
<1>3. Idle'
  BY DEF Idle, EndRun
<1>4. AsCollected'
  <2>1. test_cases' = <<>> /\ outcome'.count_executed = 0 /\ Len(<<>>) = 0 /\ 1 .. 0 = {}
    BY <1>1 DEF EndRun
  <2>. QED  BY <2>1 DEF AsCollected, Distinct
<1>5. LostExecuted' /\ IsFiniteSet(lost')
  BY FS_EmptySet DEF EndRun, LostExecuted
<1>6. Counted(files, test_cases, outcome, lost, update_test_cases)'
  <2>1. Counted(files', <<>>, NoOutcome, {}, update_test_cases')
    BY NothingCounted
  <2>. QED  BY <2>1 DEF EndRun
<1>. QED  BY <1>2, <1>3, <1>4, <1>5, <1>6 DEF RunInv

\* The test that is being executed.
LEMMA Executed ==
  ASSUME RunInv, Executing
  PROVE  /\ outcome.count_executed \in Nat
         /\ outcome.count_executed + 1 \in 1 .. Len(test_cases)
         /\ outcome.count_executed < Len(test_cases)
         /\ TestCase \in TestCaseType
         /\ TestCase.filename \in Names
         /\ TestCase.input \in Seq(Characters)
         /\ files[TestCase.filename] = TestCase.input
         /\ TestCase.expected_output = ExpectedOutput(TestCase.input)
         /\ TestCase.filename \notin lost
         /\ Result.output \in Lines
<1>1. /\ outcome.count_executed \in Nat
      /\ outcome.count_executed + 1 \in 1 .. Len(test_cases)
      /\ outcome.count_executed < Len(test_cases)
  BY DEF RunInv, TypesRight, Executing, OutcomeType
<1>2. TestCase \in TestCaseType
  BY <1>1 DEF RunInv, TypesRight, TestCase
<1>3. TestCase.filename \in Names /\ TestCase.input \in Seq(Characters)
  BY <1>2 DEF TestCaseType
<1>4. files[TestCase.filename] = TestCase.input
  <2>1. outcome.count_executed + 1 \notin ChangedIn(files, test_cases)
    BY <1>1 DEF RunInv, Counted
  <2>2. DOMAIN test_cases = 1 .. Len(test_cases)
    BY DEF RunInv, TypesRight
  <2>. QED  BY <1>1, <2>1, <2>2 DEF ChangedIn, TestCase
<1>5. TestCase.expected_output = ExpectedOutput(TestCase.input)
  BY <1>1 DEF RunInv, AsCollected, TestCase
<1>6. TestCase.filename \notin lost
  <2> SUFFICES ASSUME NEW k \in 1 .. outcome.count_executed,
                      test_cases[k].filename = TestCase.filename
               PROVE  FALSE
    BY DEF RunInv, LostExecuted
  <2>1. k \in 1 .. Len(test_cases) /\ k # outcome.count_executed + 1
    BY <1>1
  <2>. QED  BY <1>1, <2>1 DEF RunInv, AsCollected, Distinct, TestCase
<1>7. Result.output \in Lines
  BY <1>3, Outputs DEF RunInv, TypesRight, Result
<1>. QED  BY <1>1, <1>2, <1>3, <1>4, <1>5, <1>6, <1>7

\* One test further, with the same tests and the same compiler.
LEMMA NextTest ==
  ASSUME RunInv, Executing,
         UNCHANGED <<compiler, update_test_cases, test_cases, running>>,
         outcome' \in OutcomeType, outcome'.count_executed = outcome.count_executed + 1,
         files' \in [Names -> Seq(Characters)], settled' \in [Names -> 0 .. 2],
         lost' = lost \/ lost' = lost \cup {TestCase.filename}, IsFiniteSet(lost'),
         Counted(files', test_cases, outcome', lost', update_test_cases)
  PROVE  RunInv'
<1>1. /\ outcome.count_executed \in Nat
      /\ outcome.count_executed + 1 \in 1 .. Len(test_cases)
  BY Executed
<1>2. TypesRight'
  BY DEF RunInv, TypesRight, FilesType
<1>3. Idle'
  BY DEF Idle, Executing
<1>4. AsCollected'
  BY <1>1 DEF RunInv, AsCollected
<1>5. LostExecuted'
  <2> SUFFICES ASSUME NEW name \in lost'
               PROVE  \E k \in 1 .. outcome.count_executed + 1 : test_cases[k].filename = name
    BY DEF LostExecuted
  <2>1. CASE name \in lost
    <3>1. PICK k \in 1 .. outcome.count_executed : test_cases[k].filename = name
      BY <2>1 DEF RunInv, LostExecuted
    <3>2. k \in 1 .. outcome.count_executed + 1
      BY <1>1
    <3>. QED  BY <3>1, <3>2
  <2>2. CASE name = TestCase.filename
    <3>1. outcome.count_executed + 1 \in 1 .. outcome.count_executed + 1
      BY <1>1
    <3>. QED  BY <2>2, <3>1 DEF TestCase
  <2>. QED  BY <2>1, <2>2
<1>6. Counted(files, test_cases, outcome, lost, update_test_cases)'
  OBVIOUS
<1>. QED  BY <1>2, <1>3, <1>4, <1>5, <1>6 DEF RunInv

LEMMA RunChangeCompiler == RunInv /\ ChangeCompiler => RunInv'
<1> SUFFICES ASSUME RunInv, ChangeCompiler
             PROVE  RunInv'
  OBVIOUS
<1>1. (settled \in [Names -> 0 .. 2])'
  BY DEF ChangeCompiler
<1>2. UNCHANGED <<files, update_test_cases, test_cases, outcome, running, lost>>
  BY DEF ChangeCompiler
<1>3. TypesRight'
  BY <1>1, <1>2 DEF RunInv, TypesRight, FilesType, ChangeCompiler
<1>4. Idle' /\ AsCollected' /\ LostExecuted' /\ IsFiniteSet(lost')
  BY <1>2 DEF RunInv, Idle, AsCollected, LostExecuted
<1>5. Counted(files, test_cases, outcome, lost, update_test_cases)'
  BY <1>2 DEF RunInv
<1>. QED  BY <1>3, <1>4, <1>5 DEF RunInv

LEMMA CollectedFields ==
  ASSUME NEW case, NEW name, case = CollectedCase(name)
  PROVE  case.input = files[name] /\ case.expected_output = ExpectedOutput(case.input)
<1>1. case.input = files[name] /\ case.expected_output = ExpectedOutput(files[name])
  BY DEF CollectedCase
<1>. QED  BY <1>1

LEMMA OnePassed ==
  ASSUME NEW out \in OutcomeType, NEW new, new = [out EXCEPT !.count_executed = @ + 1]
  PROVE  /\ new \in OutcomeType
         /\ new.count_executed = out.count_executed + 1
         /\ new.count_failed = out.count_failed
         /\ new.count_updated = out.count_updated
  BY DEF OutcomeType

LEMMA OneFailed ==
  ASSUME NEW out \in OutcomeType, NEW new,
         new = [out EXCEPT !.count_executed = @ + 1, !.count_failed = @ + 1]
  PROVE  /\ new \in OutcomeType
         /\ new.count_executed = out.count_executed + 1
         /\ new.count_failed = out.count_failed + 1
         /\ new.count_updated = out.count_updated
<1>1. PICK more : more = [out EXCEPT !.count_executed = @ + 1]
  OBVIOUS
<1>2. /\ more \in OutcomeType
      /\ more.count_executed = out.count_executed + 1
      /\ more.count_failed = out.count_failed /\ more.count_updated = out.count_updated
  BY <1>1 DEF OutcomeType
<1>3. new = [more EXCEPT !.count_failed = out.count_failed + 1]
  BY <1>1
<1>4. out.count_failed + 1 \in Nat
  BY DEF OutcomeType
<1>. QED  BY <1>2, <1>3, <1>4 DEF OutcomeType

LEMMA OneUpdated ==
  ASSUME NEW out \in OutcomeType, NEW new,
         new = [out EXCEPT !.count_executed = @ + 1, !.count_updated = @ + 1]
  PROVE  /\ new \in OutcomeType
         /\ new.count_executed = out.count_executed + 1
         /\ new.count_updated = out.count_updated + 1
         /\ new.count_failed = out.count_failed
<1>1. PICK more : more = [out EXCEPT !.count_executed = @ + 1]
  OBVIOUS
<1>2. /\ more \in OutcomeType
      /\ more.count_executed = out.count_executed + 1
      /\ more.count_updated = out.count_updated /\ more.count_failed = out.count_failed
  BY <1>1 DEF OutcomeType
<1>3. new = [more EXCEPT !.count_updated = out.count_updated + 1]
  BY <1>1
<1>4. out.count_updated + 1 \in Nat
  BY DEF OutcomeType
<1>. QED  BY <1>2, <1>3, <1>4 DEF OutcomeType

LEMMA RunCollect ==
  ASSUME RunInv, NEW filtered, NEW env_value, CollectTestCases(filtered, env_value)
  PROVE  RunInv'
<1>1. /\ test_cases' = Collected(filtered) /\ outcome' = NoOutcome /\ lost' = {}
      /\ running' = TRUE /\ update_test_cases' \in BOOLEAN
      /\ UNCHANGED <<files, compiler, settled>>
  BY DEF CollectTestCases
<1>2. CollectedFrom(test_cases', Len(FileNames))
  BY <1>1, CollectedTests DEF RunInv, TypesRight
<1>3. NoOutcome \in OutcomeType /\ NoOutcome.count_executed = 0
  BY DEF NoOutcome, OutcomeType
<1>4. TypesRight'
  <2>1. (test_cases \in Seq(TestCaseType))'
    BY <1>2 DEF CollectedFrom
  <2>2. FilesType' /\ (compiler \in Compilers)' /\ (settled \in [Names -> 0 .. 2])'
    BY <1>1 DEF RunInv, TypesRight, FilesType
  <2>3. (outcome \in OutcomeType)' /\ (update_test_cases \in BOOLEAN)' /\ (running \in BOOLEAN)'
    BY <1>1, <1>3
  <2>. QED  BY <2>1, <2>2, <2>3 DEF TypesRight
<1>5. Idle'
  BY <1>1 DEF Idle
<1>6. \A k \in 1 .. Len(test_cases') : test_cases'[k] = CollectedCase(test_cases'[k].filename)
  BY <1>2 DEF CollectedFrom
<1>7. AsCollected'
  <2>1. Distinct(test_cases')
    BY <1>2 DEF CollectedFrom, Distinct
  <2>2. \A k \in 1 .. Len(test_cases') :
          test_cases'[k].expected_output = ExpectedOutput(test_cases'[k].input)
    BY <1>6, CollectedFields
  <2>3. Len(test_cases') \in Nat
    BY <1>4 DEF TypesRight
  <2>. QED  BY <1>1, <1>3, <2>1, <2>2, <2>3 DEF AsCollected
<1>8. LostExecuted' /\ IsFiniteSet(lost')
  BY <1>1, FS_EmptySet DEF LostExecuted
<1>9. Counted(files, test_cases, outcome, lost, update_test_cases)'
  <2>1. \A k \in 1 .. Len(test_cases') :
          files'[test_cases'[k].filename] = test_cases'[k].input
    BY <1>1, <1>6, CollectedFields
  <2>2. DOMAIN test_cases' = 1 .. Len(test_cases')
    BY <1>4 DEF TypesRight
  <2>3. \A k \in DOMAIN test_cases' : files'[test_cases'[k].filename] = test_cases'[k].input
    BY <2>1, <2>2
  <2>4. Counted(files', test_cases', NoOutcome, {}, update_test_cases')
    BY <2>3, NothingChanged
  <2>. QED  BY <1>1, <2>4
<1>. QED  BY <1>4, <1>5, <1>7, <1>8, <1>9 DEF RunInv

LEMMA RunPassOrFail == RunInv /\ (Pass \/ Fail) => RunInv'
<1> SUFFICES ASSUME RunInv, Pass \/ Fail
             PROVE  RunInv'
  OBVIOUS
<1>1. Executing /\ UNCHANGED <<files, compiler, update_test_cases, test_cases, running, lost>>
  BY DEF Pass, Fail
<1>2. settled' \in [Names -> 0 .. 2]
  BY SettleType DEF RunInv, TypesRight, Pass, Fail
<1>3. /\ outcome' \in OutcomeType
      /\ outcome'.count_executed = outcome.count_executed + 1
      /\ outcome'.count_updated = outcome.count_updated
      /\ \/ outcome'.count_failed = outcome.count_failed
         \/ outcome'.count_failed = outcome.count_failed + 1
  <2>1. outcome \in OutcomeType
    BY DEF RunInv, TypesRight
  <2>2. CASE outcome' = [outcome EXCEPT !.count_executed = @ + 1]
    BY <2>1, <2>2, OnePassed
  <2>3. CASE outcome' = [outcome EXCEPT !.count_executed = @ + 1, !.count_failed = @ + 1]
    BY <2>1, <2>3, OneFailed
  <2>. QED  BY <2>2, <2>3 DEF Pass, Fail
<1>4. test_cases \in Seq(TestCaseType) /\ outcome \in OutcomeType
  BY DEF RunInv, TypesRight
<1>5. IsFiniteSet(lost) /\ Counted(files, test_cases, outcome, lost, update_test_cases)
  BY DEF RunInv
<1>6. Counted(files, test_cases, outcome', lost, update_test_cases)
  BY <1>3, <1>4, <1>5, CountExecuted
<1>7. files' \in [Names -> Seq(Characters)] /\ IsFiniteSet(lost')
  BY <1>1 DEF RunInv, TypesRight, FilesType
<1>8. Counted(files', test_cases, outcome', lost', update_test_cases)
  BY <1>1, <1>6
<1>. QED  BY <1>1, <1>2, <1>3, <1>7, <1>8, NextTest

LEMMA RunUpdate == RunInv /\ Update => RunInv'
<1> SUFFICES ASSUME RunInv, Update
             PROVE  RunInv'
  OBVIOUS
<1>1. /\ Executing /\ UNCHANGED <<compiler, update_test_cases, test_cases, running>>
      /\ update_test_cases /\ Result.output # TestCase.expected_output
  BY DEF Update, MayUpdate
<1>2. /\ outcome' \in OutcomeType
      /\ outcome'.count_executed = outcome.count_executed + 1
      /\ outcome'.count_updated = outcome.count_updated + 1
      /\ outcome'.count_failed = outcome.count_failed
  <2>1. outcome \in OutcomeType
    BY DEF RunInv, TypesRight
  <2>2. outcome' = [outcome EXCEPT !.count_executed = @ + 1, !.count_updated = @ + 1]
    BY DEF Update
  <2>. QED  BY <2>1, <2>2, OneUpdated
<1>3. /\ test_cases \in Seq(TestCaseType) /\ outcome \in OutcomeType
      /\ files \in [Names -> Seq(Characters)] /\ settled \in [Names -> 0 .. 2]
  BY DEF RunInv, TypesRight, FilesType
<1>4. /\ IsFiniteSet(lost) /\ Counted(files, test_cases, outcome, lost, TRUE)
      /\ update_test_cases = TRUE
  BY <1>1 DEF RunInv, TypesRight
<1>5. /\ TestCase.filename \in Names /\ TestCase.input \in Seq(Characters)
      /\ TestCase.expected_output = ExpectedOutput(TestCase.input)
      /\ TestCase.filename \notin lost
      /\ Result.output \in Seq(Characters) /\ LineText(Result.output)
      /\ outcome.count_executed < Len(test_cases)
  BY <1>1, Executed DEF Lines
<1>6. CASE WriteFile(TestCase.filename, TestCase.input, Result.output) /\ UNCHANGED lost
  <2>1. PICK text : text = Updated(TestCase.input, Result.output)
    OBVIOUS
  <2>2. text \in Seq(Characters) /\ text # TestCase.input
    BY <1>1, <1>5, <2>1, UpdatedType, UpdateDiffers
  <2>3. files' = [files EXCEPT ![TestCase.filename] = text]
    BY <1>6, <2>1 DEF WriteFile
  <2>4. files' \in [Names -> Seq(Characters)]
    BY <1>3, <1>5, <2>2, <2>3
  <2>5. settled' \in [Names -> 0 .. 2]
    BY <1>3, <1>6, SettleType DEF WriteFile
  <2>6. Counted(files', test_cases, outcome', lost, TRUE)
    <3>1. Distinct(test_cases)
      BY DEF RunInv, AsCollected
    <3>2. /\ files' = [files EXCEPT ![test_cases[outcome.count_executed + 1].filename] = text]
          /\ text # test_cases[outcome.count_executed + 1].input
      BY <2>2, <2>3 DEF TestCase
    <3>. QED  BY <1>2, <1>3, <1>4, <1>5, <3>1, <3>2, CountWritten
  <2>7. Counted(files', test_cases, outcome', lost', update_test_cases) /\ IsFiniteSet(lost')
    BY <1>4, <1>6, <2>6
  <2>. QED  BY <1>1, <1>2, <1>6, <2>4, <2>5, <2>7, NextTest
<1>7. CASE WriteNothing(TestCase.filename) /\ lost' = lost \cup {TestCase.filename}
  <2>1. files' = files /\ files' \in [Names -> Seq(Characters)]
    BY <1>3, <1>7 DEF WriteNothing
  <2>2. settled' \in [Names -> 0 .. 2]
    BY <1>3, <1>7, SettleType DEF WriteNothing
  <2>3. /\ Counted(files, test_cases, outcome', lost \cup {TestCase.filename}, TRUE)
        /\ IsFiniteSet(lost \cup {TestCase.filename})
    BY <1>2, <1>3, <1>4, <1>5, CountLost
  <2>4. Counted(files', test_cases, outcome', lost', update_test_cases) /\ IsFiniteSet(lost')
    BY <1>4, <1>7, <2>1, <2>3
  <2>. QED  BY <1>1, <1>2, <1>7, <2>1, <2>2, <2>4, NextTest
<1>. QED  BY <1>6, <1>7 DEF Update

LEMMA RunEnd == RunInv /\ (Abort \/ Finish) => RunInv'
<1> SUFFICES ASSUME RunInv, Abort \/ Finish
             PROVE  RunInv'
  OBVIOUS
<1>1. EndRun /\ UNCHANGED <<files, compiler>>
  BY DEF Abort, Finish
<1>2. settled' \in [Names -> 0 .. 2]
  BY SettleType DEF RunInv, TypesRight, Abort, Finish
<1>. QED  BY <1>1, <1>2, EndRunKeeps

LEMMA RunUpdateExpectedOutput ==
  ASSUME RunInv, NEW name \in Names, UpdateExpectedOutput(name)
  PROVE  RunInv'
<1> DEFINE output == RunTestCase(files[name]).output
<1>1. /\ ~running
      /\ WriteFile(name, files[name], output) \/ WriteNothing(name)
      /\ UNCHANGED <<compiler, update_test_cases, test_cases, outcome, running, lost>>
  BY DEF UpdateExpectedOutput
<1>2. files \in [Names -> Seq(Characters)] /\ settled \in [Names -> 0 .. 2]
  BY DEF RunInv, TypesRight, FilesType
<1>3. files[name] \in Seq(Characters) /\ output \in Seq(Characters)
  BY <1>2, Outputs DEF RunInv, TypesRight, Lines
<1>4. Updated(files[name], output) \in Seq(Characters)
  BY <1>3, UpdatedType
<1>5. files' \in [Names -> Seq(Characters)]
  BY <1>1, <1>2, <1>4 DEF WriteFile, WriteNothing
<1>6. settled' \in [Names -> 0 .. 2]
  BY <1>1, <1>2, SettleType DEF WriteFile, WriteNothing
<1>7. TypesRight'
  BY <1>1, <1>5, <1>6 DEF RunInv, TypesRight, FilesType
<1>8. Idle' /\ AsCollected' /\ LostExecuted' /\ IsFiniteSet(lost')
  BY <1>1 DEF RunInv, Idle, AsCollected, LostExecuted
<1>9. Counted(files, test_cases, outcome, lost, update_test_cases)'
  <2>1. test_cases = <<>> /\ outcome = NoOutcome /\ lost = {}
    BY <1>1 DEF RunInv, Idle
  <2>2. Counted(files', <<>>, NoOutcome, {}, update_test_cases')
    BY NothingCounted
  <2>. QED  BY <1>1, <2>1, <2>2
<1>. QED  BY <1>7, <1>8, <1>9 DEF RunInv

LEMMA RunNext == RunInv /\ [Next]_vars => RunInv'
<1> SUFFICES ASSUME RunInv, [Next]_vars
             PROVE  RunInv'
  OBVIOUS
<1>1. CASE ChangeCompiler
  BY <1>1, RunChangeCompiler
<1>2. ASSUME NEW filtered \in SUBSET Names, NEW env_value \in {"", "0", "1"},
             CollectTestCases(filtered, env_value)
      PROVE  RunInv'
  BY <1>2, RunCollect
<1>3. CASE Pass \/ Fail
  BY <1>3, RunPassOrFail
<1>4. CASE Update
  BY <1>4, RunUpdate
<1>5. CASE Abort \/ Finish
  BY <1>5, RunEnd
<1>6. ASSUME NEW name \in Names, UpdateExpectedOutput(name)
      PROVE  RunInv'
  BY <1>6, RunUpdateExpectedOutput
<1>7. CASE UNCHANGED vars
  BY <1>7 DEF vars, history, RunInv, TypesRight, FilesType, Idle, AsCollected, LostExecuted
<1>. QED  BY <1>1, <1>2, <1>3, <1>4, <1>5, <1>6, <1>7 DEF Next

\* The inductive invariant of the runs: what has been collected is what the files held,
\* and the counts are those of the files that changed and of the texts that got lost.
THEOREM RunInvariant == Spec => []RunInv
<1>1. Init => RunInv
  BY RunInit
<1>2. RunInv /\ [Next]_vars => RunInv'
  BY RunNext
<1>. QED  BY <1>1, <1>2, PTL DEF Spec

\* What a run reports is what happened on disk, for every directory, every compiler and
\* every sequence of runs.
THEOREM OutcomeIsReported == Spec => []OutcomeMatchesFiles
<1>1. RunInv => OutcomeMatchesFiles
  BY SameOutcome DEF RunInv
<1>. QED  BY <1>1, RunInvariant, PTL

-----------------------------------------------------------------------------
(* The program of a rewritten file                                         *)

\* The positions in q are those in p: the same before position h, moved by d from
\* position t on, and none between.
Moved(p, q, h, t, d) ==
  /\ p \in Seq(Nat) /\ q \in Seq(Nat) /\ Len(q) = Len(p)
  /\ \A k \in 1 .. Len(p) :
       \/ p[k] < h /\ q[k] = p[k]
       \/ p[k] >= t /\ q[k] = p[k] + d

LEMMA MovedNothing ==
  ASSUME NEW h, NEW t, NEW d
  PROVE  Moved(<<>>, <<>>, h, t, d)
<1>1. <<>> \in Seq(Nat) /\ Len(<<>>) = 0 /\ 1 .. 0 = {}
  OBVIOUS
<1>. QED  BY <1>1 DEF Moved

LEMMA InFront ==
  ASSUME NEW i \in Nat, NEW p \in Seq(Nat)
  PROVE  /\ <<i>> \o p \in Seq(Nat) /\ Len(<<i>> \o p) = Len(p) + 1
         /\ (<<i>> \o p)[1] = i
         /\ \A k \in 2 .. Len(p) + 1 : (<<i>> \o p)[k] = p[k - 1]
<1>1. <<i>> \in Seq(Nat) /\ Len(<<i>>) = 1 /\ <<i>>[1] = i
  OBVIOUS
<1>2. <<i>> \o p \in Seq(Nat) /\ Len(<<i>> \o p) = Len(p) + 1
  BY <1>1
<1>3. (<<i>> \o p)[1] = i
  BY <1>1
<1>4. \A k \in 2 .. Len(p) + 1 : (<<i>> \o p)[k] = p[k - 1]
  BY <1>1
<1>. QED  BY <1>2, <1>3, <1>4

LEMMA MovedMore ==
  ASSUME NEW h \in Nat, NEW t \in Nat, NEW d \in Int, NEW p, NEW q, Moved(p, q, h, t, d),
         NEW i \in Nat, NEW j \in Nat, (i < h /\ j = i) \/ (i >= t /\ j = i + d)
  PROVE  Moved(<<i>> \o p, <<j>> \o q, h, t, d)
<1>1. /\ p \in Seq(Nat) /\ q \in Seq(Nat) /\ Len(q) = Len(p) /\ Len(p) \in Nat
      /\ \A k \in 1 .. Len(p) : \/ p[k] < h /\ q[k] = p[k]
                                \/ p[k] >= t /\ q[k] = p[k] + d
  BY DEF Moved
<1>2. PICK pp, qq : pp = <<i>> \o p /\ qq = <<j>> \o q
  OBVIOUS
<1>3. /\ pp \in Seq(Nat) /\ Len(pp) = Len(p) + 1 /\ pp[1] = i
      /\ \A k \in 2 .. Len(p) + 1 : pp[k] = p[k - 1]
  BY <1>1, <1>2, InFront
<1>4. /\ qq \in Seq(Nat) /\ Len(qq) = Len(p) + 1 /\ qq[1] = j
      /\ \A k \in 2 .. Len(p) + 1 : qq[k] = q[k - 1]
  BY <1>1, <1>2, InFront
<1>5. ASSUME NEW k \in 1 .. Len(pp)
      PROVE  \/ pp[k] < h /\ qq[k] = pp[k]
             \/ pp[k] >= t /\ qq[k] = pp[k] + d
  <2>1. CASE k = 1
    BY <1>3, <1>4, <2>1
  <2>2. CASE k # 1
    <3>1. k \in 2 .. Len(p) + 1 /\ k - 1 \in 1 .. Len(p)
      BY <1>1, <1>3, <2>2
    <3>. QED  BY <1>1, <1>3, <1>4, <3>1
  <2>. QED  BY <2>1, <2>2
<1>6. Moved(pp, qq, h, t, d)
  BY <1>3, <1>4, <1>5 DEF Moved
<1>. QED  BY <1>2, <1>6

\* A comment behind the section ends as far behind it as before.
Shifted(one, two, t, d) ==
  /\ t \in 1 .. Len(one) /\ d \in Int /\ t + d \in Nat \ {0} /\ Len(two) = Len(one) + d
  /\ \A k \in t .. Len(one) : two[k + d] = one[k]

LEMMA ShiftedLineComment ==
  ASSUME NEW one \in Seq(Characters), NEW two \in Seq(Characters), NEW t, NEW d,
         Shifted(one, two, t, d), NEW i \in t .. Len(one)
  PROVE  CommentEnd(two, i + d, <<"\n">>, 2) = CommentEnd(one, i, <<"\n">>, 2) + d
<1>1. /\ t \in Nat \ {0} /\ d \in Int /\ t + d \in Nat \ {0} /\ Len(two) = Len(one) + d
      /\ \A k \in t .. Len(one) : two[k + d] = one[k]
      /\ Len(one) \in Nat /\ Len(two) \in Nat
      /\ i \in 1 .. Len(one) /\ i + d \in 1 .. Len(two)
  BY DEF Shifted
<1>2. CASE \A k \in i + 2 .. Len(one) : one[k] # "\n"
  <2>1. ASSUME NEW k \in (i + d) + 2 .. Len(two)
        PROVE  two[k] # "\n"
    <3>1. k - d \in i + 2 .. Len(one) /\ k - d \in t .. Len(one) /\ (k - d) + d = k
      BY <1>1
    <3>2. two[k] = one[k - d]
      BY <1>1, <3>1
    <3>. QED  BY <1>2, <3>1, <3>2
  <2>2. CommentEnd(one, i, <<"\n">>, 2) = Len(one) + 1
    BY <1>1, <1>2, LineCommentOpen
  <2>3. CommentEnd(two, i + d, <<"\n">>, 2) = Len(two) + 1
    BY <1>1, <2>1, LineCommentOpen
  <2>. QED  BY <1>1, <2>2, <2>3
<1>3. ASSUME NEW j \in i + 2 .. Len(one), one[j] = "\n",
             \A k \in i + 2 .. j - 1 : one[k] # "\n"
      PROVE  CommentEnd(two, i + d, <<"\n">>, 2) = CommentEnd(one, i, <<"\n">>, 2) + d
  <2>1. j \in t .. Len(one) /\ j + d \in (i + d) + 2 .. Len(two)
    BY <1>1
  <2>2. two[j + d] = "\n"
    BY <1>1, <1>3, <2>1
  <2>3. ASSUME NEW k \in (i + d) + 2 .. (j + d) - 1
        PROVE  two[k] # "\n"
    <3>1. k - d \in i + 2 .. j - 1 /\ k - d \in t .. Len(one) /\ (k - d) + d = k
      BY <1>1
    <3>2. two[k] = one[k - d]
      BY <1>1, <3>1
    <3>. QED  BY <1>3, <3>1, <3>2
  <2>4. CommentEnd(one, i, <<"\n">>, 2) = j + 1
    BY <1>1, <1>3, LineCommentEnds
  <2>5. CommentEnd(two, i + d, <<"\n">>, 2) = (j + d) + 1
    BY <1>1, <2>1, <2>2, <2>3, LineCommentEnds
  <2>. QED  BY <1>1, <2>4, <2>5
<1>. QED  BY <1>1, <1>2, <1>3, FirstLineEnd

LEMMA ShiftedBlockComment ==
  ASSUME NEW one \in Seq(Characters), NEW two \in Seq(Characters), NEW t, NEW d,
         Shifted(one, two, t, d), NEW i \in t .. Len(one)
  PROVE  CommentEnd(two, i + d, Footer, 2) = CommentEnd(one, i, Footer, 2) + d
<1>1. /\ t \in Nat \ {0} /\ d \in Int /\ t + d \in Nat \ {0} /\ Len(two) = Len(one) + d
      /\ \A k \in t .. Len(one) : two[k + d] = one[k]
      /\ Len(one) \in Nat /\ Len(two) \in Nat
      /\ i \in 1 .. Len(one) /\ i + d \in 1 .. Len(two)
  BY DEF Shifted
<1>2. ASSUME NEW k \in (i + d) + 2 .. Len(two) - 1
      PROVE  two[k] = one[k - d] /\ two[k + 1] = one[(k - d) + 1]
  <2>1. /\ k - d \in t .. Len(one) /\ (k - d) + d = k
        /\ (k - d) + 1 \in t .. Len(one) /\ ((k - d) + 1) + d = k + 1
    BY <1>1
  <2>2. two[(k - d) + d] = one[k - d] /\ two[((k - d) + 1) + d] = one[(k - d) + 1]
    BY <1>1, <2>1
  <2>. QED  BY <2>1, <2>2
<1>3. CASE \A k \in i + 2 .. Len(one) - 1 : ~(one[k] = "*" /\ one[k + 1] = "/")
  <2>1. ASSUME NEW k \in (i + d) + 2 .. Len(two) - 1
        PROVE  ~(two[k] = "*" /\ two[k + 1] = "/")
    <3>1. k - d \in i + 2 .. Len(one) - 1
      BY <1>1
    <3>. QED  BY <1>2, <1>3, <3>1
  <2>2. CommentEnd(one, i, Footer, 2) = Len(one) + 1
    BY <1>1, <1>3, BlockCommentOpen
  <2>3. CommentEnd(two, i + d, Footer, 2) = Len(two) + 1
    BY <1>1, <2>1, BlockCommentOpen
  <2>. QED  BY <1>1, <2>2, <2>3
<1>4. ASSUME NEW j \in i + 2 .. Len(one) - 1, one[j] = "*", one[j + 1] = "/",
             \A k \in i + 2 .. j - 1 : ~(one[k] = "*" /\ one[k + 1] = "/")
      PROVE  CommentEnd(two, i + d, Footer, 2) = CommentEnd(one, i, Footer, 2) + d
  <2>1. j + d \in (i + d) + 2 .. Len(two) - 1 /\ (j + d) - d = j
    BY <1>1
  <2>2. two[j + d] = "*" /\ two[(j + d) + 1] = "/"
    BY <1>2, <1>4, <2>1
  <2>3. ASSUME NEW k \in (i + d) + 2 .. (j + d) - 1
        PROVE  ~(two[k] = "*" /\ two[k + 1] = "/")
    <3>1. k - d \in i + 2 .. j - 1 /\ k \in (i + d) + 2 .. Len(two) - 1
      BY <1>1
    <3>. QED  BY <1>2, <1>4, <3>1
  <2>4. CommentEnd(one, i, Footer, 2) = j + 2
    BY <1>1, <1>4, BlockCommentEnds
  <2>5. CommentEnd(two, i + d, Footer, 2) = (j + d) + 2
    BY <1>1, <2>1, <2>2, <2>3, BlockCommentEnds
  <2>. QED  BY <1>1, <2>4, <2>5
<1>. QED  BY <1>1, <1>3, <1>4, FirstFooter

\* The program behind the section moves with the text.
LEMMA TailMoves ==
  ASSUME NEW one \in Seq(Characters), NEW two \in Seq(Characters), NEW t, NEW d,
         Shifted(one, two, t, d), NEW h \in Nat
  PROVE  \A i \in t .. Len(one) + 1 : Moved(Read(one, i), Read(two, i + d), h, t, d)
<1>1. /\ t \in Nat \ {0} /\ d \in Int /\ t + d \in Nat \ {0} /\ Len(two) = Len(one) + d
      /\ \A k \in t .. Len(one) : two[k + d] = one[k]
      /\ Len(one) \in Nat /\ Len(two) \in Nat
  BY DEF Shifted
<1> DEFINE S == {i \in t .. Len(one) + 1 : Moved(Read(one, i), Read(two, i + d), h, t, d)}
<1>2. ASSUME NEW i \in t .. Len(one) + 1, \A k \in i + 1 .. Len(one) + 1 : k \in S
      PROVE  i \in S
  <2>1. i \in 1 .. Len(one) + 1 /\ i + d \in 1 .. Len(two) + 1
    BY <1>1
  <2>2. CASE i = Len(one) + 1
    <3>1. Read(one, i) = <<>> /\ Read(two, i + d) = <<>>
      <4>1. i > Len(one) /\ i + d > Len(two)
        BY <1>1, <2>2
      <4>. QED  BY <2>1, <4>1, ReadAt, Zenon
    <3>. QED  BY <3>1, MovedNothing
  <2>3. CASE i # Len(one) + 1
    <3>1. /\ i \in t .. Len(one) /\ i \in 1 .. Len(one) /\ i + d \in 1 .. Len(two)
          /\ ~(i > Len(one)) /\ ~(i + d > Len(two))
          /\ (i + 1) + d = (i + d) + 1 /\ i + 1 \in i + 1 .. Len(one) + 1
          /\ i + 1 <= Len(one) <=> (i + d) + 1 <= Len(two)
      <4>0. i \in Int /\ t <= i /\ i <= Len(one) + 1
        BY <1>1
      <4>1. i \in Nat /\ i >= t /\ i <= Len(one)
        BY <1>1, <2>3, <4>0
      <4>2. i \in t .. Len(one) /\ i \in 1 .. Len(one) /\ i + d \in 1 .. Len(two)
        BY <1>1, <4>1
      <4>3. ~(i > Len(one)) /\ ~(i + d > Len(two)) /\ (i + 1) + d = (i + d) + 1
        BY <1>1, <4>1
      <4>4. i + 1 \in i + 1 .. Len(one) + 1 /\ (i + 1 <= Len(one) <=> (i + d) + 1 <= Len(two))
        BY <1>1, <4>1
      <4>. QED  BY <4>2, <4>3, <4>4
    <3>2. two[i + d] = one[i]
      BY <1>1, <3>1
    <3>3. i + 1 <= Len(one) => two[(i + d) + 1] = one[i + 1]
      <4>1. i + 1 <= Len(one) => two[(i + 1) + d] = one[i + 1]
        BY <1>1, <3>1
      <4>. QED  BY <3>1, <4>1
    <3>4. /\ CommentEnd(one, i, <<"\n">>, 2) \in i + 1 .. Len(one) + 1
          /\ CommentEnd(one, i, Footer, 2) \in i + 1 .. Len(one) + 1
          /\ CommentEnd(two, i + d, <<"\n">>, 2) = CommentEnd(one, i, <<"\n">>, 2) + d
          /\ CommentEnd(two, i + d, Footer, 2) = CommentEnd(one, i, Footer, 2) + d
      BY <3>1, CommentEndsBehind, ShiftedLineComment, ShiftedBlockComment
    <3>5. /\ Moved(Read(one, CommentEnd(one, i, <<"\n">>, 2)),
                   Read(two, CommentEnd(two, i + d, <<"\n">>, 2)), h, t, d)
          /\ Moved(Read(one, CommentEnd(one, i, Footer, 2)),
                   Read(two, CommentEnd(two, i + d, Footer, 2)), h, t, d)
          /\ Moved(Read(one, i + 1), Read(two, (i + d) + 1), h, t, d)
      BY <1>2, <3>1, <3>4
    <3>6. Moved(<<i>> \o Read(one, i + 1), <<i + d>> \o Read(two, (i + d) + 1), h, t, d)
      <4>1. i >= t /\ i \in Nat /\ i + d \in Nat
        BY <1>1, <3>1
      <4>. QED  BY <1>1, <3>5, <4>1, MovedMore
    <3>7. CASE i + 1 <= Len(one) /\ one[i] = "/" /\ one[i + 1] = "/"
      <4>1. (i + d) + 1 <= Len(two) /\ two[i + d] = "/" /\ two[(i + d) + 1] = "/"
        BY <3>1, <3>2, <3>3, <3>7
      <4>2. Read(one, i) = Read(one, CommentEnd(one, i, <<"\n">>, 2))
        BY <2>1, <3>1, <3>7, ReadAt, Zenon
      <4>3. Read(two, i + d) = Read(two, CommentEnd(two, i + d, <<"\n">>, 2))
        BY <2>1, <3>1, <4>1, ReadAt, Zenon
      <4>. QED  BY <3>5, <4>2, <4>3
    <3>8. CASE i + 1 <= Len(one) /\ one[i] = "/" /\ one[i + 1] = "*"
      <4>1. (i + d) + 1 <= Len(two) /\ two[i + d] = "/" /\ two[(i + d) + 1] = "*"
        BY <3>1, <3>2, <3>3, <3>8
      <4>2. Read(one, i) = Read(one, CommentEnd(one, i, Footer, 2))
        <5>1. ~(one[i + 1] = "/")
          BY <3>8
        <5>. QED  BY <2>1, <3>1, <3>8, <5>1, ReadAt, Zenon
      <4>3. Read(two, i + d) = Read(two, CommentEnd(two, i + d, Footer, 2))
        <5>1. ~(two[(i + d) + 1] = "/")
          BY <4>1
        <5>. QED  BY <2>1, <3>1, <4>1, <5>1, ReadAt, Zenon
      <4>. QED  BY <3>5, <4>2, <4>3
    <3>9. CASE /\ ~(i + 1 <= Len(one) /\ one[i] = "/" /\ one[i + 1] = "/")
               /\ ~(i + 1 <= Len(one) /\ one[i] = "/" /\ one[i + 1] = "*")
      <4>1. /\ ~((i + d) + 1 <= Len(two) /\ two[i + d] = "/" /\ two[(i + d) + 1] = "/")
            /\ ~((i + d) + 1 <= Len(two) /\ two[i + d] = "/" /\ two[(i + d) + 1] = "*")
        BY <3>1, <3>2, <3>3, <3>9
      <4>2. Read(one, i) = IF one[i] = "\n" THEN Read(one, i + 1) ELSE <<i>> \o Read(one, i + 1)
        BY <2>1, <3>1, <3>9, ReadAt, Zenon
      <4>3. Read(two, i + d) = IF two[i + d] = "\n" THEN Read(two, (i + d) + 1)
                               ELSE <<i + d>> \o Read(two, (i + d) + 1)
        BY <2>1, <3>1, <4>1, ReadAt, Zenon
      <4>4. Moved(Read(one, i), Read(two, i + d), h, t, d)
        <5>1. CASE one[i] = "\n"
          BY <3>2, <3>5, <4>2, <4>3, <5>1, Zenon
        <5>2. CASE one[i] # "\n"
          BY <3>2, <3>6, <4>2, <4>3, <5>2, Zenon
        <5>. QED  BY <5>1, <5>2
      <4>. QED  BY <4>4
    <3>. QED  BY <3>7, <3>8, <3>9
  <2>. QED  BY <2>2, <2>3
<1>3. \A i \in t .. Len(one) + 1 : i \in S
  <2>1. FromBehind(S, t, Len(one) + 1)
    BY <1>2 DEF FromBehind
  <2>2. t \in Nat /\ Len(one) + 1 \in Nat
    BY <1>1
  <2> HIDE DEF S
  <2>. QED  BY <2>1, <2>2, Backwards
<1>. QED  BY <1>3

\* What it means that the lexer sees the section.
LEMMA SectionFacts ==
  ASSUME NEW one \in Seq(Characters), SectionInSight(one)
  PROVE  /\ HeaderOf(one) = 1 \/ one[HeaderOf(one) - 1] = "\n"
         /\ \A k \in HeaderOf(one) .. FooterOf(one) - 2 : ~(one[k] = "*" /\ one[k + 1] = "/")
<1> DEFINE h == HeaderOf(one)
           f == FooterOf(one)
<1>1. (h = 1 \/ one[h - 1] = "\n") /\ ~Occurs(SubSeq(one, h, f - 1), Footer)
  BY DEF SectionInSight, HeaderOf, FooterOf, Substr
<1>2. h \in 1 .. Len(one) + 1 /\ f \in h .. Len(one) + 1 /\ Len(one) \in Nat
  BY HeaderIs, FooterIs
<1> HIDE DEF h, f
<1>3. PICK part : part = SubSeq(one, h, f - 1)
  OBVIOUS
<1>4. /\ part \in Seq(Characters) /\ Len(part) = (f - 1) - h + 1
      /\ \A k \in 1 .. (f - 1) - h + 1 : part[k] = one[h + k - 1]
  <2>1. h \in Nat \ {0} /\ f - 1 \in Nat /\ h <= (f - 1) + 1 /\ f - 1 <= Len(one)
    BY <1>2
  <2>. QED  BY <1>3, <2>1, PartOf
<1>5. \A i \in 1 .. Len(part) : ~(i + 1 <= Len(part) /\ part[i] = "*" /\ part[i + 1] = "/")
  BY <1>1, <1>3, <1>4, OccursFooter
<1>6. ASSUME NEW k \in h .. f - 2
      PROVE  ~(one[k] = "*" /\ one[k + 1] = "/")
  <2>1. /\ k - h + 1 \in 1 .. Len(part) /\ (k - h + 1) + 1 <= Len(part)
        /\ k - h + 1 \in 1 .. (f - 1) - h + 1 /\ (k - h + 1) + 1 \in 1 .. (f - 1) - h + 1
        /\ h + (k - h + 1) - 1 = k /\ h + ((k - h + 1) + 1) - 1 = k + 1
    BY <1>2, <1>4
  <2>2. part[k - h + 1] = one[k] /\ part[(k - h + 1) + 1] = one[k + 1]
    BY <1>4, <2>1
  <2>. QED  BY <1>5, <2>1, <2>2
<1>. QED  BY <1>1, <1>6 DEF h, f

\* A comment that is open where the section begins ends with it: with the old one, ...
LEMMA OldSection ==
  ASSUME NEW one \in Seq(Characters), SectionInSight(one), NEW i \in 1 .. HeaderOf(one),
         i <= Len(one),
         \A k \in i + 2 .. HeaderOf(one) - 1 : ~(one[k] = "*" /\ one[k + 1] = "/")
  PROVE  CommentEnd(one, i, Footer, 2) = TailOf(one)
<1> DEFINE h == HeaderOf(one)
           f == FooterOf(one)
           t == TailOf(one)
<1>1. /\ h \in 1 .. Len(one) + 1 /\ Len(one) \in Nat
      /\ h <= Len(one) =>
           h + 2 <= Len(one) /\ one[h] = "/" /\ one[h + 1] = "*" /\ one[h + 2] = "\n"
  BY HeaderIs
<1>2. /\ f \in h .. Len(one) + 1
      /\ f <= Len(one) => f + 1 <= Len(one) /\ one[f] = "*" /\ one[f + 1] = "/"
      /\ t = IF f > Len(one) THEN Len(one) + 1 ELSE f + 2
  BY FooterIs
<1>3. \A k \in h .. f - 2 : ~(one[k] = "*" /\ one[k + 1] = "/")
  BY SectionFacts
<1>4. h <= Len(one) => h + 3 <= f
  <2> SUFFICES ASSUME h <= Len(one)
               PROVE  h + 3 <= f
    OBVIOUS
  <2>1. h \in 1 .. Len(one) /\ h + 3 \in 1 .. Len(one) + 1
    BY <1>1
  <2>2. f = FindAfter(one, Footer, h + 3)
    BY <1>1, <2>1, BehindHeader DEF FooterOf
  <2>3. f \in h + 3 .. Len(one) + 1
    BY <2>1, <2>2, FooterFound
  <2> HIDE DEF h, f
  <2>. QED  BY <1>1, <2>3
<1>5. i \in 1 .. Len(one) /\ i <= h /\ \A k \in i + 2 .. h - 1 : ~(one[k] = "*" /\ one[k + 1] = "/")
  BY <1>1
<1> HIDE DEF h, f, t
<1>6. CASE f <= Len(one)
  <2>1. h <= Len(one) /\ f \in i + 2 .. Len(one) - 1
    BY <1>1, <1>2, <1>4, <1>5, <1>6
  <2>2. ASSUME NEW k \in i + 2 .. f - 1
        PROVE  ~(one[k] = "*" /\ one[k + 1] = "/")
    <3>1. CASE k <= h - 1
      <4>1. k \in i + 2 .. h - 1
        BY <1>1, <3>1
      <4>. QED  BY <1>5, <4>1
    <3>2. CASE h <= k /\ k <= f - 2
      <4>1. k \in h .. f - 2
        BY <1>1, <1>2, <3>2
      <4>. QED  BY <1>3, <4>1
    <3>3. CASE k = f - 1
      <4>1. k + 1 = f
        BY <1>2, <3>3
      <4>. QED  BY <1>2, <1>6, <4>1
    <3>. QED  BY <1>1, <1>2, <3>1, <3>2, <3>3
  <2>3. CommentEnd(one, i, Footer, 2) = f + 2
    BY <1>2, <1>5, <1>6, <2>1, <2>2, BlockCommentEnds
  <2>4. t = f + 2
    BY <1>1, <1>2, <1>6
  <2>. QED  BY <2>3, <2>4 DEF t
<1>7. CASE ~(f <= Len(one))
  <2>1. f = Len(one) + 1 /\ t = Len(one) + 1
    BY <1>1, <1>2, <1>7
  <2>2. ASSUME NEW k \in i + 2 .. Len(one) - 1
        PROVE  ~(one[k] = "*" /\ one[k + 1] = "/")
    <3>1. CASE k <= h - 1
      <4>1. k \in i + 2 .. h - 1
        BY <1>1, <3>1
      <4>. QED  BY <1>5, <4>1
    <3>2. CASE h <= k
      <4>1. k \in h .. f - 2
        BY <1>1, <2>1, <3>2
      <4>. QED  BY <1>3, <4>1
    <3>. QED  BY <1>1, <3>1, <3>2
  <2>3. CommentEnd(one, i, Footer, 2) = Len(one) + 1
    BY <1>5, <2>2, BlockCommentOpen
  <2>. QED  BY <2>1, <2>3 DEF t
<1>. QED  BY <1>6, <1>7

\* ... and with the new one.
LEMMA NewSection ==
  ASSUME NEW one \in Seq(Characters), NEW two, NEW output \in Lines, NEW h, NEW t, NEW e,
         Rewritten(one, two, output, h, t, e), ~Occurs(output, Footer),
         h = 1 \/ one[h - 1] = "\n", NEW i \in 1 .. h,
         \A k \in i + 2 .. h - 1 : ~(one[k] = "*" /\ one[k + 1] = "/")
  PROVE  CommentEnd(two, i, Footer, 2) = e + 2
<1>1. output \in Seq(Characters) /\ LineText(output)
  BY DEF Lines
<1>2. /\ two \in Seq(Characters)
      /\ two[h] = "/" /\ two[h + 1] = "*" /\ two[h + 2] = "\n"
      /\ \A k \in 1 .. h - 1 : two[k] = one[k]
      /\ \A k \in 1 .. Len(output) : two[h + 2 + k] = output[k]
      /\ two[e] = "*" /\ two[e + 1] = "/"
  BY DEF Rewritten
<1>3. /\ Len(two) \in Nat /\ Len(output) \in Nat /\ h \in Nat \ {0} /\ e \in Nat \ {0}
      /\ e = h + 3 + Len(output) /\ e + 2 <= Len(two)
  BY <1>1, RewrittenFacts
<1>4. \A k \in 1 .. Len(output) : ~(k + 1 <= Len(output) /\ output[k] = "*" /\ output[k + 1] = "/")
  BY <1>1, OccursFooter
<1>5. ASSUME NEW k \in i + 2 .. e - 1
      PROVE  ~(two[k] = "*" /\ two[k + 1] = "/")
  <2>1. CASE k <= h - 2
    <3>1. k \in i + 2 .. h - 1 /\ k \in 1 .. h - 1 /\ k + 1 \in 1 .. h - 1
      BY <1>3, <2>1
    <3>. QED  BY <1>2, <3>1
  <2>2. CASE k = h - 1
    <3>1. h # 1 /\ k \in 1 .. h - 1
      BY <1>3, <2>2
    <3>2. two[k] = "\n"
      BY <1>2, <2>2, <3>1
    <3>. QED  BY <3>2
  <2>3. CASE k \in {h, h + 1, h + 2}
    <3>1. CASE k = h
      BY <1>2, <3>1
    <3>2. CASE k = h + 1
      <4>1. k + 1 = h + 2
        BY <1>3, <3>2
      <4>. QED  BY <1>2, <4>1
    <3>3. CASE k = h + 2
      BY <1>2, <3>3
    <3>. QED  BY <2>3, <3>1, <3>2, <3>3
  <2>4. CASE k >= h + 3
    <3>1. k - h - 2 \in 1 .. Len(output) /\ h + 2 + (k - h - 2) = k
      BY <1>3, <2>4
    <3>2. two[k] = output[k - h - 2]
      BY <1>2, <3>1
    <3>3. CASE k = e - 1
      <4>1. k - h - 2 = Len(output) /\ output # <<>>
        BY <1>3, <3>1, <3>3
      <4>. QED  BY <1>1, <3>2, <4>1 DEF LineText
    <3>4. CASE k # e - 1
      <4>1. /\ (k - h - 2) + 1 \in 1 .. Len(output) /\ h + 2 + ((k - h - 2) + 1) = k + 1
            /\ (k - h - 2) + 1 <= Len(output)
        BY <1>3, <2>4, <3>4
      <4>2. two[k + 1] = output[(k - h - 2) + 1]
        BY <1>2, <4>1
      <4>. QED  BY <1>4, <3>1, <3>2, <4>1, <4>2
    <3>. QED  BY <3>3, <3>4
  <2>. QED  BY <1>3, <2>1, <2>2, <2>3, <2>4
<1>6. i \in 1 .. Len(two) /\ e \in i + 2 .. Len(two) - 1
  BY <1>3
<1>. QED  BY <1>2, <1>5, <1>6, BlockCommentEnds

\* What follows the section has the same program, moved.
LEMMA BehindSection ==
  ASSUME NEW one \in Seq(Characters), NEW two, NEW output \in Seq(Characters), NEW h, NEW t,
         NEW e, Rewritten(one, two, output, h, t, e)
  PROVE  Moved(Read(one, t), Read(two, e + 2), h, t, e + 2 - t)
<1>1. /\ two \in Seq(Characters)
      /\ Len(two) = IF t > Len(one) THEN e + 2 ELSE e + 2 + Len(one) - t
      /\ t > Len(one) => two[e + 2] = "\n"
      /\ \A k \in t .. Len(one) : two[k - t + e + 2] = one[k]
  BY DEF Rewritten
<1>2. /\ Len(one) \in Nat /\ Len(two) \in Nat /\ h \in Nat \ {0} /\ t \in Nat \ {0}
      /\ e \in Nat \ {0} /\ t <= Len(one) + 1 /\ e + 2 <= Len(two)
  BY RewrittenFacts
<1>3. CASE t > Len(one)
  <2>1. t \in 1 .. Len(one) + 1
    BY <1>2
  <2>2. Read(one, t) = <<>>
    BY <1>3, <2>1, ReadAt
  <2>3. /\ e + 2 \in 1 .. Len(two) + 1 /\ ~(e + 2 > Len(two)) /\ ~((e + 2) + 1 <= Len(two))
        /\ (e + 2) + 1 \in 1 .. Len(two) + 1 /\ (e + 2) + 1 > Len(two) /\ two[e + 2] = "\n"
    BY <1>1, <1>2, <1>3
  <2>4. Read(two, e + 2) = Read(two, (e + 2) + 1)
    BY <1>1, <2>3, ReadAt, Zenon
  <2>5. Read(two, (e + 2) + 1) = <<>>
    BY <1>1, <2>3, ReadAt, Zenon
  <2>. QED  BY <2>2, <2>4, <2>5, MovedNothing
<1>4. CASE ~(t > Len(one))
  <2>1. PICK d \in Int : d = e + 2 - t
    BY <1>2
  <2>2. t \in 1 .. Len(one) /\ t + d = e + 2 /\ Len(two) = Len(one) + d
    BY <1>1, <1>2, <1>4, <2>1
  <2>3. ASSUME NEW k \in t .. Len(one)
        PROVE  two[k + d] = one[k]
    <3>1. k + d = k - t + e + 2
      BY <1>2, <2>1
    <3>. QED  BY <1>1, <3>1
  <2>4. Shifted(one, two, t, d)
    BY <1>2, <2>2, <2>3 DEF Shifted
  <2>5. t \in t .. Len(one) + 1 /\ h \in Nat
    BY <1>2
  <2>6. Moved(Read(one, t), Read(two, t + d), h, t, d)
    BY <1>1, <2>4, <2>5, TailMoves
  <2>. QED  BY <2>1, <2>2, <2>6
<1>. QED  BY <1>3, <1>4

\* What precedes it has the same program, and the section has none.
LEMMA HeadMoves ==
  ASSUME NEW one \in Seq(Characters), NEW two, NEW output \in Lines, NEW h, NEW t, NEW e,
         Rewritten(one, two, output, h, t, e), h = HeaderOf(one), t = TailOf(one),
         Kept(one, output)
  PROVE  \A i \in 1 .. h : Moved(Read(one, i), Read(two, i), h, t, e + 2 - t)
<1> DEFINE d == e + 2 - t
           S == {i \in 1 .. h : Moved(Read(one, i), Read(two, i), h, t, d)}
<1>1. /\ two \in Seq(Characters) /\ output \in Seq(Characters)
      /\ two[h] = "/" /\ two[h + 1] = "*"
      /\ \A k \in 1 .. h - 1 : two[k] = one[k]
  BY DEF Rewritten, Lines
<1>2. /\ Len(one) \in Nat /\ Len(two) \in Nat /\ h \in Nat \ {0} /\ t \in Nat \ {0}
      /\ e \in Nat \ {0} /\ h <= t /\ t <= Len(one) + 1 /\ h + 3 <= e /\ e + 2 <= Len(two)
  BY <1>1, RewrittenFacts
<1>3. /\ SectionInSight(one) /\ ~Occurs(output, Footer)
      /\ h = 1 \/ one[h - 1] = "\n"
  BY SectionFacts DEF Kept
<1>4. h <= Len(one) => one[h] = "/" /\ one[h + 1] = "*" /\ h + 1 <= Len(one)
  <2>1. h <= Len(one) =>
          h + 2 <= Len(one) /\ one[h] = "/" /\ one[h + 1] = "*" /\ one[h + 2] = "\n"
    BY HeaderIs
  <2>. QED  BY <1>2, <2>1
<1>5. Moved(Read(one, t), Read(two, e + 2), h, t, d)
  BY <1>1, BehindSection
<1> HIDE DEF d
<1>6. d \in Int
  BY <1>2 DEF d
<1>7. h \in S
  <2>1. h \in 1 .. h /\ h \in 1 .. Len(one) + 1 /\ h \in 1 .. Len(two) + 1 /\ ~(h > Len(two))
        /\ h + 1 <= Len(two)
    BY <1>2
  <2>2. \A k \in h + 2 .. h - 1 : ~(one[k] = "*" /\ one[k + 1] = "/")
    BY <1>2
  <2>3. Read(two, h) = Read(two, e + 2)
    <3>1. CommentEnd(two, h, Footer, 2) = e + 2
      BY <1>3, <2>1, <2>2, NewSection
    <3>2. ~(two[h + 1] = "/")
      BY <1>1
    <3>. QED  BY <1>1, <2>1, <3>1, <3>2, ReadAt, Zenon
  <2>4. Read(one, h) = Read(one, t)
    <3>1. CASE h <= Len(one)
      <4>1. CommentEnd(one, h, Footer, 2) = t
        BY <1>3, <2>1, <2>2, <3>1, OldSection
      <4>2. ~(one[h + 1] = "/") /\ ~(h > Len(one))
        BY <1>2, <1>4, <3>1
      <4>. QED  BY <1>4, <2>1, <3>1, <4>1, <4>2, ReadAt, Zenon
    <3>2. CASE ~(h <= Len(one))
      <4>1. h = t
        BY <1>2, <3>2
      <4>. QED  BY <4>1
    <3>. QED  BY <3>1, <3>2
  <2>. QED  BY <1>5, <2>1, <2>3, <2>4
<1>8. ASSUME NEW i \in 1 .. h, \A k \in i + 1 .. h : k \in S
      PROVE  i \in S
  <2>1. CASE i = h
    BY <1>7, <2>1
  <2>2. CASE i # h
    <3>1. /\ i <= h - 1 /\ i \in 1 .. h - 1 /\ h - 1 \in 1 .. h - 1 /\ h - 1 <= Len(one)
          /\ h - 1 <= Len(two) /\ i \in Nat /\ h # 1
      BY <1>2, <2>2
    <3>2. /\ i \in 1 .. Len(one) /\ i \in 1 .. Len(two)
          /\ i \in 1 .. Len(one) + 1 /\ i \in 1 .. Len(two) + 1
          /\ ~(i > Len(one)) /\ ~(i > Len(two)) /\ i + 1 \in i + 1 .. h
      BY <1>2, <3>1
    <3>3. one[h - 1] = "\n" /\ two[h - 1] = "\n" /\ two[i] = one[i]
      BY <1>1, <1>3, <3>1
    <3>4. i < h - 1 => /\ two[i + 1] = one[i + 1] /\ i + 1 <= Len(one) /\ i + 1 <= Len(two)
      <4>1. i < h - 1 => i + 1 \in 1 .. h - 1 /\ i + 1 <= Len(one) /\ i + 1 <= Len(two)
        BY <1>2, <3>1
      <4>. QED  BY <1>1, <4>1
    <3>5. CASE i < h - 1 /\ one[i] = "/" /\ one[i + 1] = "/"
      <4>0. i + 2 <= h - 1
        <5>1. i + 1 # h - 1
          BY <3>3, <3>5
        <5>. QED  BY <1>2, <3>1, <3>5, <5>1
      <4>1. PICK j \in i + 2 .. Len(one) : one[j] = "\n" /\ \A k \in i + 2 .. j - 1 : one[k] # "\n"
        <5>1. h - 1 \in i + 2 .. Len(one)
          BY <1>2, <3>1, <4>0
        <5>. QED  BY <3>2, <3>3, <5>1, FirstLineEnd
      <4>2. j <= h - 1
        <5> SUFFICES ASSUME j > h - 1
                     PROVE  FALSE
          BY <1>2, <4>1
        <5>1. h - 1 \in i + 2 .. j - 1
          BY <1>2, <4>0, <4>1
        <5>. QED  BY <3>3, <4>1, <5>1
      <4>3. CommentEnd(one, i, <<"\n">>, 2) = j + 1
        BY <3>2, <4>1, LineCommentEnds
      <4>4. CommentEnd(two, i, <<"\n">>, 2) = j + 1
        <5>1. \A k \in i + 2 .. j : k \in 1 .. h - 1
          BY <1>2, <3>1, <4>1, <4>2
        <5>2. j \in i + 2 .. j /\ \A k \in i + 2 .. j - 1 : k \in i + 2 .. j
          BY <3>1, <4>1
        <5>3. two[j] = "\n" /\ \A k \in i + 2 .. j - 1 : two[k] # "\n"
          BY <1>1, <4>1, <5>1, <5>2
        <5>4. j \in i + 2 .. Len(two)
          BY <1>2, <3>1, <4>1, <4>2
        <5>. QED  BY <1>1, <3>2, <5>3, <5>4, LineCommentEnds
      <4>5. Read(one, i) = Read(one, j + 1)
        BY <3>2, <3>4, <3>5, <4>3, ReadAt, Zenon
      <4>6. Read(two, i) = Read(two, j + 1)
        BY <1>1, <3>2, <3>3, <3>4, <3>5, <4>4, ReadAt, Zenon
      <4>7. j + 1 \in i + 1 .. h
        BY <1>2, <3>1, <4>1, <4>2
      <4>. QED  BY <1>8, <4>5, <4>6, <4>7
    <3>6. CASE i < h - 1 /\ one[i] = "/" /\ one[i + 1] = "*"
      <4>1. Read(one, i) = Read(one, CommentEnd(one, i, Footer, 2))
        <5>1. ~(one[i + 1] = "/")
          BY <3>6
        <5>. QED  BY <3>2, <3>4, <3>6, <5>1, ReadAt, Zenon
      <4>2. Read(two, i) = Read(two, CommentEnd(two, i, Footer, 2))
        <5>1. two[i] = "/" /\ two[i + 1] = "*" /\ ~(two[i + 1] = "/") /\ i + 1 <= Len(two)
          BY <3>3, <3>4, <3>6
        <5>. QED  BY <1>1, <3>2, <5>1, ReadAt, Zenon
      <4>3. CASE \A k \in i + 2 .. h - 1 : ~(one[k] = "*" /\ one[k + 1] = "/")
        <5>1. CommentEnd(one, i, Footer, 2) = t
          <6>1. i <= Len(one)
            BY <3>2
          <6>. QED  BY <1>3, <4>3, <6>1, OldSection
        <5>2. CommentEnd(two, i, Footer, 2) = e + 2
          BY <1>3, <4>3, NewSection
        <5>. QED  BY <1>5, <4>1, <4>2, <5>1, <5>2
      <4>4. CASE ~(\A k \in i + 2 .. h - 1 : ~(one[k] = "*" /\ one[k + 1] = "/"))
        <5>1. PICK m \in i + 2 .. h - 1 : one[m] = "*" /\ one[m + 1] = "/"
          BY <4>4
        <5>2. m # h - 1
          BY <3>3, <5>1
        <5>3. m \in i + 2 .. Len(one) - 1 /\ m <= h - 2
          <6>1. m \in Int /\ i + 2 <= m /\ m <= h - 1
            BY <1>2, <3>1, <5>1
          <6>2. m <= h - 2
            BY <1>2, <5>2, <6>1
          <6>. QED  BY <1>2, <3>1, <6>1, <6>2
        <5>4. PICK j \in i + 2 .. Len(one) - 1 :
                /\ one[j] = "*" /\ one[j + 1] = "/"
                /\ \A k \in i + 2 .. j - 1 : ~(one[k] = "*" /\ one[k + 1] = "/")
          BY <3>2, <5>1, <5>3, FirstFooter
        <5>5. j <= h - 2
          <6> SUFFICES ASSUME j > h - 2
                       PROVE  FALSE
            BY <1>2, <5>4
          <6>1. m \in i + 2 .. j - 1
            BY <1>2, <5>1, <5>3, <5>4
          <6>. QED  BY <5>1, <5>4, <6>1
        <5>6. CommentEnd(one, i, Footer, 2) = j + 2
          BY <3>2, <5>4, BlockCommentEnds
        <5>7. CommentEnd(two, i, Footer, 2) = j + 2
          <6>1. ASSUME NEW k \in i + 2 .. j
                PROVE  two[k] = one[k] /\ two[k + 1] = one[k + 1]
            <7>1. k \in 1 .. h - 1 /\ k + 1 \in 1 .. h - 1
              <8>1. j \in Int /\ j <= h - 2
                BY <5>4, <5>5
              <8>2. k \in Int /\ i + 2 <= k /\ k <= j
                BY <3>1, <8>1
              <8>3. i \in Nat /\ h \in Nat
                BY <1>2, <3>1
              <8>. QED  BY ONLY <8>1, <8>2, <8>3
            <7>. QED  BY <1>1, <7>1
          <6>2. j \in i + 2 .. j /\ \A k \in i + 2 .. j - 1 : k \in i + 2 .. j
            BY <3>1, <5>4
          <6>3. /\ two[j] = "*" /\ two[j + 1] = "/"
                /\ \A k \in i + 2 .. j - 1 : ~(two[k] = "*" /\ two[k + 1] = "/")
            BY <5>4, <6>1, <6>2
          <6>4. j \in i + 2 .. Len(two) - 1
            BY <1>2, <3>1, <5>4, <5>5
          <6>. QED  BY <1>1, <3>2, <6>3, <6>4, BlockCommentEnds
        <5>8. j + 2 \in i + 1 .. h
          BY <1>2, <3>1, <5>4, <5>5
        <5>. QED  BY <1>8, <4>1, <4>2, <5>6, <5>7, <5>8
      <4>. QED  BY <4>3, <4>4
    <3>7. CASE ~(i < h - 1 /\ one[i] = "/" /\ (one[i + 1] = "/" \/ one[i + 1] = "*"))
      <4>1. ~(one[i] = "/" /\ (one[i + 1] = "/" \/ one[i + 1] = "*"))
            /\ ~(two[i] = "/" /\ (two[i + 1] = "/" \/ two[i + 1] = "*"))
        <5>1. CASE i = h - 1
          BY <3>3, <5>1
        <5>2. CASE i # h - 1
          <6>1. i < h - 1
            BY <1>2, <3>1, <5>2
          <6>. QED  BY <3>3, <3>4, <3>7, <6>1
        <5>. QED  BY <5>1, <5>2
      <4>2. Read(one, i) = IF one[i] = "\n" THEN Read(one, i + 1) ELSE <<i>> \o Read(one, i + 1)
        BY <3>2, <4>1, ReadAt, Zenon
      <4>3. Read(two, i) = IF two[i] = "\n" THEN Read(two, i + 1) ELSE <<i>> \o Read(two, i + 1)
        BY <1>1, <3>2, <4>1, ReadAt, Zenon
      <4>4. Moved(Read(one, i + 1), Read(two, i + 1), h, t, d)
        BY <1>8, <3>2
      <4>5. Moved(<<i>> \o Read(one, i + 1), <<i>> \o Read(two, i + 1), h, t, d)
        <5>1. h \in Nat /\ t \in Nat /\ i < h
          BY <1>2, <3>1
        <5>. QED  BY <1>6, <3>1, <4>4, <5>1, MovedMore
      <4>6. Moved(Read(one, i), Read(two, i), h, t, d)
        <5>1. CASE one[i] = "\n"
          BY <3>3, <4>2, <4>3, <4>4, <5>1, Zenon
        <5>2. CASE one[i] # "\n"
          BY <3>3, <4>2, <4>3, <4>5, <5>2, Zenon
        <5>. QED  BY <5>1, <5>2
      <4>. QED  BY <4>6
    <3>. QED  BY <3>5, <3>6, <3>7
  <2>. QED  BY <2>1, <2>2
<1>9. \A i \in 1 .. h : i \in S
  <2>1. FromBehind(S, 1, h)
    BY <1>8 DEF FromBehind
  <2>2. h \in Nat
    BY <1>2
  <2> HIDE DEF S
  <2>. QED  BY <2>1, <2>2, Backwards
<1>. QED  BY <1>9 DEF d

\* A file that is rewritten with an output that can be kept.
IsKept(one, two, output, h, t, e) ==
  /\ Rewritten(one, two, output, h, t, e)
  /\ h = HeaderOf(one) /\ t = TailOf(one) /\ Kept(one, output)

LEMMA ProgramMoves ==
  ASSUME NEW one \in Seq(Characters), NEW two, NEW output \in Lines, NEW h, NEW t, NEW e,
         IsKept(one, two, output, h, t, e)
  PROVE  Moved(Program(one), Program(two), h, t, e + 2 - t)
<1>1. /\ Rewritten(one, two, output, h, t, e)
      /\ h = HeaderOf(one) /\ t = TailOf(one) /\ Kept(one, output)
  BY DEF IsKept
<1>2. h \in Nat \ {0}
  BY <1>1, RewrittenFacts DEF Lines
<1>3. 1 \in 1 .. h
  BY <1>2
<1>4. Moved(Read(one, 1), Read(two, 1), h, t, e + 2 - t)
  BY <1>1, <1>3, HeadMoves
<1>. QED  BY <1>4, ProgramIsRead

\* A character of the program is the same where it has moved to.
LEMMA SameCharacter ==
  ASSUME NEW one \in Seq(Characters), NEW two, NEW output \in Seq(Characters), NEW h, NEW t,
         NEW e, Rewritten(one, two, output, h, t, e), NEW i \in 1 .. Len(one), NEW j,
         (i < h /\ j = i) \/ (i >= t /\ j = i + (e + 2 - t))
  PROVE  two[j] = one[i]
<1>1. /\ Len(one) \in Nat /\ h \in Nat /\ t \in Nat /\ e \in Nat
  BY RewrittenFacts
<1>2. CASE i < h /\ j = i
  <2>1. i \in 1 .. h - 1
    BY <1>1, <1>2
  <2>. QED  BY <1>2, <2>1 DEF Rewritten
<1>3. CASE i >= t /\ j = i + (e + 2 - t)
  <2>1. i \in t .. Len(one) /\ j = i - t + e + 2
    BY <1>1, <1>3
  <2>. QED  BY <2>1 DEF Rewritten
<1>. QED  BY <1>2, <1>3

LEMMA SymbolsKept ==
  ASSUME NEW one \in Seq(Characters), NEW two, NEW output \in Lines, NEW h, NEW t, NEW e,
         IsKept(one, two, output, h, t, e)
  PROVE  Symbols(two) = Symbols(one)
<1> DEFINE p == Program(one)
           q == Program(two)
           d == e + 2 - t
<1>1. /\ p \in Seq(Nat) /\ q \in Seq(Nat) /\ Len(q) = Len(p)
      /\ \A k \in 1 .. Len(p) : \/ p[k] < h /\ q[k] = p[k]
                                \/ p[k] >= t /\ q[k] = p[k] + d
  BY ProgramMoves DEF Moved
<1>2. \A k \in 1 .. Len(p) : p[k] \in 1 .. Len(one)
  <2>1. p \in Seq(1 .. Len(one))
    BY ProgramPositions
  <2> HIDE DEF p
  <2>. QED  BY <2>1
<1>3. Symbols(one) = [k \in DOMAIN p |-> one[p[k]]] /\ Symbols(two) = [k \in DOMAIN q |-> two[q[k]]]
  BY DEF Symbols
<1> HIDE DEF p, q
<1>4. DOMAIN p = 1 .. Len(p) /\ DOMAIN q = 1 .. Len(p)
  BY <1>1
<1>5. ASSUME NEW k \in 1 .. Len(p)
      PROVE  two[q[k]] = one[p[k]]
  <2>1. Rewritten(one, two, output, h, t, e) /\ output \in Seq(Characters)
    BY DEF IsKept, Lines
  <2>2. p[k] \in 1 .. Len(one)
    BY <1>2
  <2>3. (p[k] < h /\ q[k] = p[k]) \/ (p[k] >= t /\ q[k] = p[k] + (e + 2 - t))
    BY <1>1
  <2>. QED  BY <2>1, <2>2, <2>3, SameCharacter
<1>6. [k \in DOMAIN p |-> one[p[k]]] = [k \in DOMAIN q |-> two[q[k]]]
  BY <1>4, <1>5
<1>. QED  BY <1>3, <1>6

LEMMA UpdateIsKept ==
  ASSUME NEW text \in Seq(Characters), NEW output \in Lines, Kept(text, output)
  PROVE  IsKept(text, Updated(text, output), output, HeaderOf(text), TailOf(text),
                HeaderOf(text) + 3 + Len(output))
<1>1. output \in Seq(Characters)
  BY DEF Lines
<1>. QED  BY <1>1, UpdateRewrites DEF IsKept

\* A file is left alone or rewritten with what its test prints.
LEMMA FilesStep ==
  ASSUME RunInv, [Next]_vars, NEW name \in Names
  PROVE  \/ files'[name] = files[name]
         \/ files'[name] = Updated(files[name], RunTestCase(files[name]).output)
<1>0. files \in [Names -> Seq(Characters)]
  BY DEF RunInv, TypesRight, FilesType
<1>1. CASE UNCHANGED files
  BY <1>1
<1>2. CASE Update
  <2>1. CASE WriteFile(TestCase.filename, TestCase.input, Result.output)
    <3>1. files[TestCase.filename] = TestCase.input
      BY <1>2, Executed DEF Update
    <3>2. files' = [files EXCEPT ![TestCase.filename] =
                      Updated(TestCase.input, RunTestCase(TestCase.input).output)]
      BY <2>1 DEF WriteFile, Result
    <3>. QED  BY <1>0, <3>1, <3>2
  <2>2. CASE WriteNothing(TestCase.filename)
    BY <2>2 DEF WriteNothing
  <2>. QED  BY <1>2, <2>1, <2>2 DEF Update
<1>3. ASSUME NEW other \in Names, UpdateExpectedOutput(other)
      PROVE  \/ files'[name] = files[name]
             \/ files'[name] = Updated(files[name], RunTestCase(files[name]).output)
  <2>1. CASE WriteFile(other, files[other], RunTestCase(files[other]).output)
    <3>1. files' = [files EXCEPT ![other] = Updated(files[other], RunTestCase(files[other]).output)]
      BY <2>1 DEF WriteFile
    <3>. QED  BY <1>0, <3>1
  <2>2. CASE WriteNothing(other)
    BY <2>2 DEF WriteNothing
  <2>. QED  BY <1>3, <2>1, <2>2 DEF UpdateExpectedOutput
<1>4. CASE UNCHANGED vars
  BY <1>4 DEF vars
<1>. QED  BY <1>1, <1>2, <1>3, <1>4
          DEF Next, ChangeCompiler, CollectTestCases, Pass, Fail, Abort, Finish

\* What an update keeps, of one file.
ProgramKeptBy(one, two, output) == Symbols(two) = Symbols(one) \/ ~Kept(one, output)

LEMMA UpdateKeepsProgram ==
  ASSUME NEW text \in Seq(Characters), NEW output \in Lines
  PROVE  ProgramKeptBy(text, Updated(text, output), output)
<1>1. CASE Kept(text, output)
  BY <1>1, UpdateIsKept, SymbolsKept DEF ProgramKeptBy
<1>2. CASE ~Kept(text, output)
  BY <1>2 DEF ProgramKeptBy
<1>. QED  BY <1>1, <1>2

\* Rewriting the section of a file never changes the program of its test, wherever the
\* section is and whatever else the file holds.
THEOREM ProgramIsKept == Spec => ProgramKept
<1>1. ASSUME RunInv, [Next]_vars, NEW name \in Names
      PROVE  \/ Symbols(files'[name]) = Symbols(files[name])
             \/ ~Kept(files[name], RunTestCase(files[name]).output)
  <2>1. files[name] \in Seq(Characters)
    BY <1>1 DEF RunInv, TypesRight, FilesType
  <2>2. RunTestCase(files[name]).output \in Lines
    BY <1>1, <2>1, Outputs DEF RunInv, TypesRight
  <2>3. CASE files'[name] = files[name]
    BY <2>3
  <2>4. CASE files'[name] = Updated(files[name], RunTestCase(files[name]).output)
    <3>1. ProgramKeptBy(files[name], files'[name], RunTestCase(files[name]).output)
      BY <2>1, <2>2, <2>4, UpdateKeepsProgram
    <3>. QED  BY <3>1 DEF ProgramKeptBy
  <2>. QED  BY <1>1, <2>3, <2>4, FilesStep
<1>2. RunInv /\ [Next]_vars =>
        [\A name \in Names :
           \/ Symbols(files'[name]) = Symbols(files[name])
           \/ ~Kept(files[name], RunTestCase(files[name]).output)]_vars
  BY <1>1
<1>. QED  BY <1>2, RunInvariant, PTL DEF Spec, ProgramKept

-----------------------------------------------------------------------------
(* Updating comes to rest                                                  *)

FooterAt(text, f) == f + 1 <= Len(text) /\ text[f] = "*" /\ text[f + 1] = "/"

\* A rewritten file expects what it was rewritten with.
LEMMA UpdatedExpects ==
  ASSUME NEW one \in Seq(Characters), NEW two, NEW output \in Lines, NEW h, NEW t, NEW e,
         IsKept(one, two, output, h, t, e)
  PROVE  /\ two \in Seq(Characters)
         /\ HeaderOf(two) = h /\ FooterOf(two) = e
         /\ ExpectedOutput(two) = output
<1>1. /\ Rewritten(one, two, output, h, t, e) /\ h = HeaderOf(one)
      /\ SectionInSight(one) /\ ~Occurs(output, Footer)
      /\ output \in Seq(Characters) /\ LineText(output)
  BY DEF IsKept, Kept, Lines
<1>2. h = 1 \/ one[h - 1] = "\n"
  BY <1>1, SectionFacts
<1>3. HeaderOf(two) = h
  BY <1>1, <1>2, NewHeader
<1>4. /\ two \in Seq(Characters)
      /\ \A k \in 1 .. Len(output) : two[h + 2 + k] = output[k]
  BY <1>1 DEF Rewritten
<1>5. /\ Len(two) \in Nat /\ Len(output) \in Nat /\ h \in Nat \ {0} /\ e \in Nat \ {0}
      /\ e = h + 3 + Len(output) /\ e + 2 <= Len(two)
  BY <1>1, RewrittenFacts
<1>6. FooterOf(two) = e
  <2>1. PICK f : f = FindAfter(two, Footer, h + 3)
    OBVIOUS
  <2>2. FooterOf(two) = f /\ (f = e \/ f + 2 < e)
    BY <1>1, <1>3, <2>1, NewFooter DEF FooterOf
  <2>3. ASSUME f + 2 < e
        PROVE  FALSE
    <3>1. h + 3 \in 1 .. Len(two) + 1
      BY <1>5
    <3>2. /\ f \in h + 3 .. Len(two) + 1
          /\ f <= Len(two) => FooterAt(two, f)
      BY <1>4, <2>1, <3>1, FooterFound DEF FooterAt
    <3>3. /\ f <= Len(two) /\ f - h - 2 \in 1 .. Len(output)
          /\ (f - h - 2) + 1 \in 1 .. Len(output) /\ (f - h - 2) + 1 <= Len(output)
          /\ h + 2 + (f - h - 2) = f /\ h + 2 + ((f - h - 2) + 1) = f + 1
      BY <1>5, <2>3, <3>2
    <3>4. two[f] = output[f - h - 2] /\ two[f + 1] = output[(f - h - 2) + 1]
      BY <1>4, <3>3
    <3>5. output[f - h - 2] = "*" /\ output[(f - h - 2) + 1] = "/"
      BY <3>2, <3>3, <3>4 DEF FooterAt
    <3>. QED  BY <1>1, <3>3, <3>5, OccursFooter
  <2>. QED  BY <2>2, <2>3
<1>7. ExpectedOutput(two) = SubSeq(two, h + 3, e - 1)
  <2>1. ~(h > Len(two) \/ e > Len(two))
    BY <1>5
  <2>. QED  BY <1>3, <1>4, <1>6, <2>1, Expected
<1>8. PICK part : part = SubSeq(two, h + 3, e - 1)
  OBVIOUS
<1>9. /\ part \in Seq(Characters) /\ Len(part) = Len(output)
      /\ \A k \in 1 .. Len(output) : part[k] = two[h + 2 + k]
  <2>1. /\ h + 3 \in Nat \ {0} /\ e - 1 \in Nat /\ h + 3 <= (e - 1) + 1 /\ e - 1 <= Len(two)
        /\ (e - 1) - (h + 3) + 1 = Len(output)
    BY <1>5
  <2>2. /\ part \in Seq(Characters) /\ Len(part) = (e - 1) - (h + 3) + 1
        /\ \A k \in 1 .. (e - 1) - (h + 3) + 1 : part[k] = two[(h + 3) + k - 1]
    BY <1>4, <1>8, <2>1, PartOf
  <2>3. \A k \in 1 .. Len(output) : (h + 3) + k - 1 = h + 2 + k
    BY <1>5
  <2>. QED  BY <2>1, <2>2, <2>3
<1>10. part = output
  BY <1>1, <1>4, <1>9, SeqEqual
<1>. QED  BY <1>3, <1>4, <1>6, <1>7, <1>8, <1>10

\* Where a position of the program moves to.
To(i, h, d) == IF i < h THEN i ELSE i + d

RefusedMoved(one, two, h, t, d, c) ==
  /\ \A i \in Refused(one, c) :
       i \in 1 .. Len(one) /\ (i < h \/ i >= t) /\ two[To(i, h, d)] = one[i]
  /\ Refused(two, c) = {To(i, h, d) : i \in Refused(one, c)}

\* What is refused moves with the program.
LEMMA RefusedMoves ==
  ASSUME NEW one \in Seq(Characters), NEW two, NEW output \in Lines, NEW h, NEW t, NEW e,
         IsKept(one, two, output, h, t, e), NEW c
  PROVE  /\ Len(Program(two)) = Len(Program(one))
         /\ RefusedMoved(one, two, h, t, e + 2 - t, c)
<1> DEFINE p == Program(one)
           q == Program(two)
           d == e + 2 - t
<1>1. /\ Rewritten(one, two, output, h, t, e) /\ output \in Seq(Characters)
      /\ two \in Seq(Characters)
  BY UpdatedExpects DEF IsKept, Lines
<1>2. /\ h \in Nat /\ t \in Nat /\ e \in Nat /\ h <= t /\ Len(one) \in Nat
  BY <1>1, RewrittenFacts
<1>3. /\ p \in Seq(Nat) /\ q \in Seq(Nat) /\ Len(q) = Len(p)
      /\ \A k \in 1 .. Len(p) : \/ p[k] < h /\ q[k] = p[k]
                                \/ p[k] >= t /\ q[k] = p[k] + d
  BY ProgramMoves DEF Moved
<1>4. ToSet(p) = {p[k] : k \in 1 .. Len(p)} /\ ToSet(q) = {q[k] : k \in 1 .. Len(q)}
      /\ ToSet(p) \subseteq 1 .. Len(one)
  BY <1>1, ProgramPositions
<1> HIDE DEF p, q
<1>5. \A k \in 1 .. Len(p) :
        /\ p[k] \in 1 .. Len(one) /\ (p[k] < h \/ p[k] >= t)
        /\ q[k] = To(p[k], h, d)
  BY <1>2, <1>3, <1>4 DEF To
<1>6. \A k \in 1 .. Len(p) : two[q[k]] = one[p[k]]
  <2>1. ASSUME NEW k \in 1 .. Len(p)
        PROVE  two[q[k]] = one[p[k]]
    <3>1. (p[k] < h /\ q[k] = p[k]) \/ (p[k] >= t /\ q[k] = p[k] + (e + 2 - t))
      BY <1>3
    <3>. QED  BY <1>1, <1>5, <3>1, SameCharacter
  <2>. QED  BY <2>1
<1>7. Refused(one, c) = {i \in ToSet(p) : one[i] # "x" \/ c.does # "prints"}
  BY DEF Refused, p
<1>8. Refused(two, c) = {i \in ToSet(q) : two[i] # "x" \/ c.does # "prints"}
  BY DEF Refused, q
<1> HIDE DEF d
<1>9. ASSUME NEW i \in Refused(one, c)
      PROVE  /\ i \in 1 .. Len(one) /\ (i < h \/ i >= t) /\ two[To(i, h, d)] = one[i]
             /\ To(i, h, d) \in Refused(two, c)
  <2>1. PICK k \in 1 .. Len(p) : i = p[k]
    BY <1>4, <1>7
  <2>2. q[k] \in ToSet(q) /\ q[k] = To(i, h, d) /\ two[q[k]] = one[i]
    BY <1>3, <1>4, <1>5, <1>6, <2>1
  <2>. QED  BY <1>5, <1>7, <1>8, <2>1, <2>2
<1>10. ASSUME NEW j \in Refused(two, c)
       PROVE  \E i \in Refused(one, c) : j = To(i, h, d)
  <2>1. PICK k \in 1 .. Len(p) : j = q[k]
    BY <1>3, <1>4, <1>8
  <2>2. p[k] \in ToSet(p) /\ q[k] = To(p[k], h, d) /\ two[q[k]] = one[p[k]]
    BY <1>4, <1>5, <1>6
  <2>. QED  BY <1>7, <1>8, <2>1, <2>2
<1>11. Refused(two, c) = {To(i, h, d) : i \in Refused(one, c)}
  BY <1>9, <1>10
<1>. QED  BY <1>3, <1>9, <1>11 DEF p, q, d, RefusedMoved

\* The first thing that is refused stays the first.
LEMMA FirstRefusedMoves ==
  ASSUME NEW one \in Seq(Characters), NEW two, NEW output \in Lines, NEW h, NEW t, NEW e,
         IsKept(one, two, output, h, t, e), NEW c, Refused(one, c) # {}
  PROVE  /\ Refused(two, c) # {}
         /\ Min(Refused(two, c)) = To(Min(Refused(one, c)), h, e + 2 - t)
         /\ two[Min(Refused(two, c))] = one[Min(Refused(one, c))]
<1>1. Rewritten(one, two, output, h, t, e) /\ output \in Seq(Characters)
  BY DEF IsKept, Lines
<1>2. /\ h \in Nat /\ t \in Nat /\ e \in Nat /\ h <= t /\ Len(one) \in Nat
      /\ h < e
  <2>1. /\ Len(output) \in Nat /\ h \in Nat \ {0} /\ t \in Nat \ {0} /\ e \in Nat \ {0}
        /\ h <= t /\ e = h + 3 + Len(output) /\ Len(one) \in Nat
    BY ONLY <1>1, one \in Seq(Characters), RewrittenFacts
  <2>. QED  BY <2>1
<1> DEFINE d == e + 2 - t
           A == Refused(one, c)
           B == Refused(two, c)
           m == Min(A)
<1>3. /\ \A i \in A : i \in 1 .. Len(one) /\ (i < h \/ i >= t) /\ two[To(i, h, d)] = one[i]
      /\ B = {To(i, h, d) : i \in A}
  <2>1. RefusedMoved(one, two, h, t, e + 2 - t, c)
    BY RefusedMoves
  <2>. QED  BY <2>1 DEF RefusedMoved
<1>4. m \in A /\ \A i \in A : m <= i
  BY FirstRefused
<1>5. d \in Int /\ h < t + d
  BY <1>2
<1> HIDE DEF A, B, m, d
<1>6. \A i \in A : To(m, h, d) <= To(i, h, d)
  <2>1. \A i, j \in Nat : (i < h \/ i >= t) /\ (j < h \/ j >= t) /\ i <= j
                            => To(i, h, d) <= To(j, h, d)
    BY <1>2, <1>5 DEF To
  <2>2. \A i \in A : i \in Nat
    BY <1>3
  <2>. QED  BY <1>3, <1>4, <2>1, <2>2
<1>7. To(m, h, d) \in B /\ \A j \in B : To(m, h, d) <= j
  BY <1>3, <1>4, <1>6
<1>8. \A j \in B : j \in Int
  BY <1>2, <1>3, <1>5 DEF To
<1>9. Min(B) = To(m, h, d)
  <2>1. \A x \in B : (\A y \in B : x <= y) => x = To(m, h, d)
    <3>1. ASSUME NEW x \in B, \A y \in B : x <= y
          PROVE  x = To(m, h, d)
      <4>1. x <= To(m, h, d) /\ To(m, h, d) <= x /\ x \in Int /\ To(m, h, d) \in Int
        BY <1>7, <1>8, <3>1
      <4> DEFINE y == To(m, h, d)
      <4> HIDE DEF y
      <4>2. x <= y /\ y <= x /\ x \in Int /\ y \in Int
        BY <4>1 DEF y
      <4>3. x = y
        BY ONLY <4>2
      <4>. QED  BY <4>3 DEF y
    <3>. QED  BY <3>1
  <2>2. \E x \in B : \A y \in B : x <= y
    BY <1>7
  <2>. QED  BY <1>7, <2>1, <2>2, Zenon DEF Min
<1>. QED  BY <1>3, <1>4, <1>7, <1>9 DEF A, B, m, d

LineEnds(text, a, b) == {k \in a .. b : text[k] = "\n"}

LEMMA LineEndsFinite ==
  ASSUME NEW text, NEW a \in Int, NEW b \in Int
  PROVE  IsFiniteSet(LineEnds(text, a, b))
<1>1. IsFiniteSet(a .. b)
  BY FS_Interval
<1>. QED  BY <1>1, FS_Subset DEF LineEnds

LEMMA LineOfEnds ==
  ASSUME NEW text, NEW i
  PROVE  LineOf(text, i) = 1 + Cardinality(LineEnds(text, 1, i - 1))
  BY DEF LineOf, LineEnds

\* A text of one line, and a section that holds one line.
OneLineText(output) ==
  /\ Len(output) >= 2 /\ output[Len(output)] = "\n"
  /\ \A k \in 1 .. Len(output) - 1 : output[k] # "\n"

OneLine(text) ==
  LET h == HeaderOf(text)
      f == FooterOf(text)
  IN  /\ f <= Len(text) /\ h + 2 < f - 1
      /\ \A k \in h .. f + 1 : text[k] = "\n" <=> k \in {h + 2, f - 1}

LEMMA ErrorIsOneLine ==
  ASSUME NEW n \in Nat
  PROVE  OneLineText(ErrorText(n))
<1>1. PICK strokes : strokes = [k \in 1 .. n |-> "1"]
  OBVIOUS
<1>2. /\ strokes \in Seq(Characters) /\ <<"E">> \in Seq(Characters)
      /\ <<"\n">> \in Seq(Characters) /\ Len(strokes) = n
  BY <1>1, CharactersAssumption
<1>3. PICK s : s = <<"E">> \o strokes \o <<"\n">>
  OBVIOUS
<1>4. ThreeParts(s, <<"E">>, strokes, <<"\n">>)
  BY <1>2, <1>3, JoinThree
<1>5. /\ Len(<<"E">>) = 1 /\ Len(<<"\n">>) = 1 /\ <<"\n">>[1] = "\n" /\ <<"E">>[1] = "E"
      /\ 1 \in 1 .. 1 /\ \A k \in 1 .. n : strokes[k] = "1"
  BY <1>1
<1>6. /\ Len(s) = 1 + n + 1
      /\ \A k \in 1 .. 1 : s[k] = <<"E">>[k]
      /\ \A k \in 1 .. n : s[1 + k] = strokes[k]
      /\ \A k \in 1 .. 1 : s[1 + n + k] = <<"\n">>[k]
  BY <1>2, <1>4, <1>5 DEF ThreeParts
<1>7. s[1] = "E" /\ s[1 + n + 1] = "\n"
  BY <1>5, <1>6
<1>8. ASSUME NEW k \in 1 .. Len(s) - 1
      PROVE  s[k] # "\n"
  <2>1. CASE k = 1
    BY <1>7, <2>1
  <2>2. CASE k # 1
    <3>1. k - 1 \in 1 .. n /\ 1 + (k - 1) = k
      BY <1>6, <2>2
    <3>2. s[k] = "1"
      BY <1>5, <1>6, <3>1
    <3>. QED  BY <3>2
  <2>. QED  BY <2>1, <2>2
<1>9. Len(s) >= 2 /\ s[Len(s)] = "\n"
  BY <1>6, <1>7
<1>. QED  BY <1>1, <1>3, <1>8, <1>9 DEF OneLineText, ErrorText

\* A section of an output of one line holds one line.
LEMMA NewOneLine ==
  ASSUME NEW one \in Seq(Characters), NEW two, NEW output \in Lines, NEW h, NEW t, NEW e,
         IsKept(one, two, output, h, t, e), OneLineText(output)
  PROVE  OneLine(two)
<1>1. /\ Rewritten(one, two, output, h, t, e) /\ output \in Seq(Characters)
      /\ HeaderOf(two) = h /\ FooterOf(two) = e
  BY UpdatedExpects DEF IsKept, Lines
<1>2. /\ two[h] = "/" /\ two[h + 1] = "*" /\ two[h + 2] = "\n"
      /\ \A k \in 1 .. Len(output) : two[h + 2 + k] = output[k]
      /\ two[e] = "*" /\ two[e + 1] = "/"
  BY <1>1 DEF Rewritten
<1>3. /\ Len(two) \in Nat /\ Len(output) \in Nat /\ h \in Nat \ {0} /\ e \in Nat \ {0}
      /\ e = h + 3 + Len(output) /\ e + 2 <= Len(two)
  BY ONLY <1>1, one \in Seq(Characters), RewrittenFacts
<1>4. /\ Len(output) >= 2 /\ output[Len(output)] = "\n"
      /\ \A k \in 1 .. Len(output) - 1 : output[k] # "\n"
  BY DEF OneLineText
<1>5. ASSUME NEW k \in h .. e + 1
      PROVE  two[k] = "\n" <=> k \in {h + 2, e - 1}
  <2>1. CASE k \in {h, h + 1, h + 2, e, e + 1}
    <3>1. /\ h # h + 2 /\ h + 1 # h + 2 /\ h # e - 1 /\ h + 1 # e - 1
          /\ e # h + 2 /\ e + 1 # h + 2 /\ e # e - 1 /\ e + 1 # e - 1
      BY <1>3, <1>4
    <3>. QED  BY <1>2, <2>1, <3>1
  <2>2. CASE k \notin {h, h + 1, h + 2, e, e + 1}
    <3>1. k - h - 2 \in 1 .. Len(output) /\ h + 2 + (k - h - 2) = k /\ k # h + 2
      BY <1>3, <2>2
    <3>2. two[k] = output[k - h - 2]
      BY <1>2, <3>1
    <3>3. k - h - 2 = Len(output) <=> k = e - 1
      BY <1>3
    <3>4. CASE k = e - 1
      BY <1>4, <3>2, <3>3, <3>4
    <3>5. CASE k # e - 1
      <4>1. k - h - 2 \in 1 .. Len(output) - 1
        BY <1>3, <3>1, <3>3, <3>5
      <4>. QED  BY <1>4, <3>1, <3>2, <3>5, <4>1
    <3>. QED  BY <3>4, <3>5
  <2>. QED  BY <2>1, <2>2
<1>6. e <= Len(two) /\ h + 2 < e - 1
  BY <1>3, <1>4
<1>. QED  BY <1>1, <1>5, <1>6 DEF OneLine

\* Line ends that correspond are as many.
LEMMA SameNumber ==
  ASSUME NEW A, NEW B, IsFiniteSet(A), NEW f \in [A -> B],
         \A x, y \in A : f[x] = f[y] => x = y,
         \A y \in B : \E x \in A : f[x] = y
  PROVE  Cardinality(A) = Cardinality(B)
<1>1. f \in Bijection(A, B)
  BY DEF Bijection, Injection, Surjection, IsInjective
<1>2. ExistsBijection(A, B)
  BY <1>1 DEF ExistsBijection
<1>. QED  BY <1>2, FS_Bijection

\* When one line takes the place of another, no line of the program gets another number.
LEMMA LinesKept ==
  ASSUME NEW one \in Seq(Characters), NEW two, NEW output \in Lines, NEW h, NEW t, NEW e,
         IsKept(one, two, output, h, t, e), OneLine(one), OneLineText(output),
         NEW i \in 1 .. Len(one), i < h \/ i >= t
  PROVE  LineOf(two, To(i, h, e + 2 - t)) = LineOf(one, i)
<1>1. /\ Rewritten(one, two, output, h, t, e) /\ output \in Seq(Characters)
      /\ h = HeaderOf(one) /\ t = TailOf(one)
  BY DEF IsKept, Lines
<1>2. /\ \A k \in 1 .. h - 1 : two[k] = one[k]
      /\ \A k \in t .. Len(one) : two[k - t + e + 2] = one[k]
  BY <1>1 DEF Rewritten
<1>3. /\ Len(one) \in Nat /\ Len(two) \in Nat /\ Len(output) \in Nat /\ h \in Nat \ {0}
      /\ t \in Nat \ {0} /\ e \in Nat \ {0} /\ e = h + 3 + Len(output)
      /\ h <= t /\ t <= Len(one) + 1
  BY ONLY <1>1, one \in Seq(Characters), RewrittenFacts
<1>4. PICK f : f = FooterOf(one)
  OBVIOUS
<1>5. /\ f <= Len(one) /\ h + 2 < f - 1 /\ f \in Nat /\ t = f + 2
      /\ \A k \in h .. f + 1 : one[k] = "\n" <=> k \in {h + 2, f - 1}
  <2>1. /\ f <= Len(one) /\ h + 2 < f - 1
        /\ \A k \in h .. f + 1 : one[k] = "\n" <=> k \in {h + 2, f - 1}
    BY <1>1, <1>4 DEF OneLine
  <2>2. f \in h .. Len(one) + 1 /\ t = IF f > Len(one) THEN Len(one) + 1 ELSE f + 2
    BY <1>1, <1>4, FooterIs
  <2>. QED  BY <1>3, <2>1, <2>2
<1>6. /\ h + 2 < e - 1
      /\ \A k \in h .. e + 1 : two[k] = "\n" <=> k \in {h + 2, e - 1}
  <2>1. OneLine(two) /\ HeaderOf(two) = h /\ FooterOf(two) = e
    BY NewOneLine, UpdatedExpects
  <2>. QED  BY <2>1 DEF OneLine
<1>7. CASE i < h
  <2>1. To(i, h, e + 2 - t) = i
    BY <1>7 DEF To
  <2>2. LineEnds(two, 1, i - 1) = LineEnds(one, 1, i - 1)
    <3>1. \A k \in 1 .. i - 1 : k \in 1 .. h - 1
      BY <1>3, <1>7
    <3>. QED  BY <1>2, <3>1 DEF LineEnds
  <2>. QED  BY <2>1, <2>2, LineOfEnds
<1>8. CASE ~(i < h)
  <2> DEFINE d == e - f
             A == LineEnds(one, 1, i - 1)
             B == LineEnds(two, 1, (i + d) - 1)
             to == [k \in A |-> IF k <= h + 2 THEN k ELSE k + d]
  <2>1. To(i, h, e + 2 - t) = i + d /\ d \in Int /\ i >= t
    BY <1>3, <1>5, <1>8 DEF To
  <2>2. \A k \in 1 .. Len(one) : k >= t => two[k + d] = one[k]
    <3>1. ASSUME NEW k \in 1 .. Len(one), k >= t
          PROVE  two[k + d] = one[k]
      <4>1. k \in t .. Len(one) /\ k - t + e + 2 = k + d
        BY <1>3, <1>5, <3>1
      <4>. QED  BY <1>2, <4>1
    <3>. QED  BY <3>1
  <2>3. d = e - f /\ i <= Len(one) /\ i \in Nat
    BY <1>3
  <2> HIDE DEF d
  <2>4. ASSUME NEW k \in A
        PROVE  /\ k \in Nat /\ k >= 1 /\ k <= i - 1 /\ k <= Len(one)
               /\ k < h \/ k = h + 2 \/ k = f - 1 \/ k >= t
    <3>1. k \in Nat /\ k >= 1 /\ k <= i - 1 /\ one[k] = "\n"
      BY <2>3 DEF LineEnds
    <3>2. CASE h <= k /\ k <= f + 1
      <4>1. k \in h .. f + 1
        BY <1>3, <1>5, <3>1, <3>2
      <4>. QED  BY <1>5, <2>3, <3>1, <4>1
    <3>3. CASE ~(h <= k /\ k <= f + 1)
      BY <1>3, <1>5, <2>3, <3>1, <3>3
    <3>. QED  BY <3>2, <3>3
  <2>5. ASSUME NEW k \in A
        PROVE  /\ to[k] = IF k <= h + 2 THEN k ELSE k + d
               /\ to[k] \in B
    <3>1. /\ one[k] = "\n" /\ k \in Nat /\ k >= 1 /\ k <= i - 1 /\ k <= Len(one)
          /\ k < h \/ k = h + 2 \/ k = f - 1 \/ k >= t
      BY <2>4 DEF LineEnds
    <3>2. CASE k < h
      <4>1. k \in 1 .. h - 1 /\ k <= h + 2 /\ k \in 1 .. (i + d) - 1
        BY <1>3, <1>5, <1>6, <2>1, <2>3, <3>1, <3>2
      <4>. QED  BY <1>2, <3>1, <4>1 DEF LineEnds
    <3>3. CASE k = h + 2
      <4>1. k \in h .. e + 1 /\ k <= h + 2 /\ k \in 1 .. (i + d) - 1
        BY <1>3, <1>5, <1>6, <2>1, <2>3, <3>1, <3>3
      <4>. QED  BY <1>6, <3>3, <4>1 DEF LineEnds
    <3>4. CASE k = f - 1
      <4>1. k + d = e - 1 /\ k + d \in h .. e + 1 /\ ~(k <= h + 2) /\ k + d \in 1 .. (i + d) - 1
        BY <1>3, <1>5, <1>6, <2>1, <2>3, <3>1, <3>4
      <4>. QED  BY <1>6, <4>1 DEF LineEnds
    <3>5. CASE k >= t
      <4>1. ~(k <= h + 2) /\ k \in 1 .. Len(one) /\ k + d \in 1 .. (i + d) - 1
        BY <1>3, <1>5, <1>6, <2>1, <2>3, <3>1, <3>5
      <4>. QED  BY <2>2, <3>1, <3>5, <4>1 DEF LineEnds
    <3>. QED  BY <3>1, <3>2, <3>3, <3>4, <3>5
  <2>6. to \in [A -> B]
    BY <2>5
  <2>7. ASSUME NEW k \in A, NEW l \in A, to[k] = to[l]
        PROVE  k = l
    <3>1. /\ to[k] = IF k <= h + 2 THEN k ELSE k + d
          /\ to[l] = IF l <= h + 2 THEN l ELSE l + d
      BY <2>5
    <3>2. /\ k \in Nat /\ l \in Nat
          /\ k > h + 2 => k + d > h + 2
          /\ l > h + 2 => l + d > h + 2
      <4>1. ASSUME NEW j \in A
            PROVE  j \in Nat /\ (j > h + 2 => j + d > h + 2)
        <5>1. j \in Nat /\ (j < h \/ j = h + 2 \/ j = f - 1 \/ j >= t)
          BY <2>4
        <5>2. /\ h \in Nat /\ f \in Nat /\ t = f + 2 /\ e \in Nat /\ d = e - f
              /\ h + 2 < f - 1 /\ h + 2 < e - 1
          BY <1>3, <1>5, <1>6, <2>3
        <5>. QED  BY ONLY <5>1, <5>2
      <4>. QED  BY <4>1
    <3>. QED  BY <1>3, <2>1, <2>7, <3>1, <3>2
  <2>8. ASSUME NEW j \in B
        PROVE  \E k \in A : to[k] = j
    <3>1. j \in Nat /\ j >= 1 /\ j <= (i + d) - 1 /\ two[j] = "\n"
      BY <2>1, <2>3 DEF LineEnds
    <3>2. CASE j < h
      <4>1. j \in 1 .. h - 1 /\ j \in 1 .. i - 1 /\ j <= h + 2
        BY <1>3, <1>5, <2>1, <2>3, <3>1, <3>2
      <4>2. j \in A
        BY <1>2, <3>1, <4>1 DEF LineEnds
      <4>. QED  BY <2>5, <4>1, <4>2
    <3>3. CASE h <= j /\ j <= e + 1
      <4>1. j \in {h + 2, e - 1}
        <5>1. j \in h .. e + 1
          BY <1>3, <3>1, <3>3
        <5>. QED  BY <1>6, <3>1, <5>1
      <4>2. CASE j = h + 2
        <5>1. j \in h .. f + 1 /\ j \in 1 .. i - 1 /\ j <= h + 2
          BY <1>3, <1>5, <2>1, <2>3, <3>1, <4>2
        <5>2. j \in A
          BY <1>5, <4>2, <5>1 DEF LineEnds
        <5>. QED  BY <2>5, <5>1, <5>2
      <4>3. CASE j = e - 1
        <5>1. f - 1 \in h .. f + 1 /\ f - 1 \in 1 .. i - 1 /\ ~(f - 1 <= h + 2) /\ (f - 1) + d = j
          BY <1>3, <1>5, <2>1, <2>3, <3>1, <4>3
        <5>2. f - 1 \in A
          BY <1>5, <5>1 DEF LineEnds
        <5>. QED  BY <2>5, <5>1, <5>2
      <4>. QED  BY <4>1, <4>2, <4>3
    <3>4. CASE j > e + 1
      <4>1. /\ j - d \in 1 .. Len(one) /\ j - d >= t /\ (j - d) + d = j
            /\ j - d \in 1 .. i - 1 /\ ~(j - d <= h + 2)
        <5>1. /\ h \in Nat /\ f \in Nat /\ t = f + 2 /\ e \in Nat /\ d = e - f
              /\ h + 2 < f - 1 /\ i \in Nat /\ i <= Len(one) /\ Len(one) \in Nat
              /\ j \in Nat /\ j <= (i + d) - 1 /\ j > e + 1
          BY <1>3, <1>5, <2>3, <3>1, <3>4
        <5>. QED  BY ONLY <5>1
      <4>2. j - d \in A
        BY <2>2, <3>1, <4>1 DEF LineEnds
      <4>. QED  BY <2>5, <4>1, <4>2
    <3>. QED  BY <1>3, <3>1, <3>2, <3>3, <3>4
  <2>9. IsFiniteSet(A)
    <3>1. 1 \in Int /\ i - 1 \in Int
      BY <2>3
    <3>. QED  BY <3>1, LineEndsFinite
  <2> HIDE DEF A, B, to
  <2>10. Cardinality(A) = Cardinality(B)
    BY <2>6, <2>7, <2>8, <2>9, SameNumber
  <2>. QED  BY <2>1, <2>10, LineOfEnds DEF A, B
<1>. QED  BY <1>7, <1>8

\* What is printed does not move.
LEMMA PrintStays ==
  ASSUME NEW one \in Seq(Characters), NEW two, NEW output \in Lines, NEW h, NEW t, NEW e,
         IsKept(one, two, output, h, t, e), NEW c, ResultFor(one, c).did = "print"
  PROVE  ResultFor(two, c).output = ResultFor(one, c).output
<1>1. Refused(one, c) = {}
  BY DEF ResultFor
<1>2. Len(Program(two)) = Len(Program(one)) /\ RefusedMoved(one, two, h, t, e + 2 - t, c)
  BY RefusedMoves
<1>3. Refused(two, c) = {}
  BY <1>1, <1>2 DEF RefusedMoved
<1>4. two \in Seq(Characters)
  BY UpdatedExpects
<1>5. DOMAIN Program(one) = 1 .. Len(Program(one)) /\ DOMAIN Program(two) = 1 .. Len(Program(two))
  BY <1>4, ProgramPositions
<1>. QED  BY <1>1, <1>2, <1>3, <1>5 DEF ResultFor

\* An error that is refused at the same line is the same error.
LEMMA ErrorStays ==
  ASSUME NEW one \in Seq(Characters), NEW two, NEW output \in Lines, NEW h, NEW t, NEW e,
         IsKept(one, two, output, h, t, e), OneLine(one), OneLineText(output),
         NEW c, ResultFor(one, c).did = "error"
  PROVE  ResultFor(two, c).output = ResultFor(one, c).output
<1> DEFINE i == Min(Refused(one, c))
<1>1. Refused(one, c) # {} /\ ~(c.does = "crashes" /\ one[i] = "x")
  BY DEF ResultFor
<1>2. /\ Refused(two, c) # {}
      /\ Min(Refused(two, c)) = To(i, h, e + 2 - t)
      /\ two[Min(Refused(two, c))] = one[i]
  BY <1>1, FirstRefusedMoves
<1>3. i \in 1 .. Len(one) /\ (i < h \/ i >= t)
  <2>1. i \in Refused(one, c) /\ i \in 1 .. Len(one)
    BY <1>1, FirstRefused
  <2>2. RefusedMoved(one, two, h, t, e + 2 - t, c)
    BY RefusedMoves
  <2> HIDE DEF i
  <2>. QED  BY <2>1, <2>2 DEF RefusedMoved
<1>4. LineOf(two, Min(Refused(two, c))) = LineOf(one, i)
  <2> HIDE DEF i
  <2>. QED  BY <1>2, <1>3, LinesKept
<1>5. ResultFor(one, c).output = ErrorText(LineOf(one, i))
  BY <1>1 DEF ResultFor
<1>6. ResultFor(two, c).output = ErrorText(LineOf(two, Min(Refused(two, c))))
  BY <1>1, <1>2 DEF ResultFor
<1>. QED  BY <1>4, <1>5, <1>6

LEMMA ErrorOutput ==
  ASSUME NEW text \in Seq(Characters), NEW c, ResultFor(text, c).did = "error"
  PROVE  OneLineText(ResultFor(text, c).output)
<1>1. Refused(text, c) # {}
  BY DEF ResultFor
<1>2. LineOf(text, Min(Refused(text, c))) \in Nat
  BY <1>1, FirstRefused, LineOfType
<1>3. ResultFor(text, c).output = ErrorText(LineOf(text, Min(Refused(text, c))))
  BY DEF ResultFor
<1>. QED  BY <1>2, <1>3, ErrorIsOneLine

\* What the successes of a file say of it: it expects what the compiler does, or it is the
\* test of an error, was rewritten once and has a section of one line.
Expects(text, c) == ExpectedOutput(text) = ResultFor(text, c).output

SettledRight(name, text, count, c) ==
  count >= 1 => \/ Expects(text, c)
                \/ count = 1 /\ name \in ErrorTests /\ OneLine(text)

SettledInv ==
  \A name \in Names : SettledRight(name, files[name], settled[name], compiler)

\* One update, kept in full, of a test whose output is of the kind its name asks for.
LEMMA UpdateSettles ==
  ASSUME NEW name, NEW one \in Seq(Characters), NEW c \in Compilers, NEW count \in 0 .. 2,
         SettledRight(name, one, count, c), ~Expects(one, c),
         Kept(one, ResultFor(one, c).output),
         \/ ResultFor(one, c).did = "print"
         \/ ResultFor(one, c).did = "error" /\ name \in ErrorTests
  PROVE  SettledRight(name, Updated(one, ResultFor(one, c).output),
                      IF count < 2 THEN count + 1 ELSE count, c)
<1> DEFINE output == ResultFor(one, c).output
           two == Updated(one, output)
           h == HeaderOf(one)
           t == TailOf(one)
           e == h + 3 + Len(output)
<1>1. output \in Lines
  BY OutputsFor
<1>2. IsKept(one, two, output, h, t, e)
  <2> HIDE DEF output
  <2>. QED  BY <1>1, UpdateIsKept DEF output
<1> HIDE DEF two, h, t, e
<1>3. ExpectedOutput(two) = output
  <2> HIDE DEF output
  <2>. QED  BY <1>1, <1>2, UpdatedExpects
<1>4. CASE ResultFor(one, c).did = "print"
  <2>1. ResultFor(two, c).output = output
    BY <1>1, <1>2, <1>4, PrintStays
  <2>. QED  BY <1>3, <2>1 DEF SettledRight, Expects, two
<1>5. CASE ResultFor(one, c).did = "error" /\ name \in ErrorTests
  <2>1. OneLineText(output)
    BY <1>5, ErrorOutput
  <2>2. CASE count = 0
    <3>1. OneLine(two)
      <4> HIDE DEF output
      <4>. QED  BY <1>1, <1>2, <2>1, NewOneLine
    <3>2. (IF count < 2 THEN count + 1 ELSE count) = 1
      BY <2>2
    <3>. QED  BY <1>5, <3>1, <3>2 DEF SettledRight, two
  <2>3. CASE count # 0
    <3>1. count >= 1
      BY <2>3
    <3>2. OneLine(one)
      BY <3>1 DEF SettledRight
    <3>3. ResultFor(two, c).output = output
      BY <1>1, <1>2, <1>5, <2>1, <3>2, ErrorStays
    <3>. QED  BY <1>3, <3>3 DEF SettledRight, Expects, two
  <2>. QED  BY <2>2, <2>3
<1>. QED  BY <1>4, <1>5

LEMMA NeverSettled ==
  ASSUME NEW name, NEW text, NEW c
  PROVE  SettledRight(name, text, 0, c)
  BY DEF SettledRight

\* Settle() changes the count of one file.
LEMMA Settles ==
  ASSUME settled \in [Names -> 0 .. 2], NEW name \in Names, NEW kept \in BOOLEAN,
         Settle(name, kept), NEW other \in Names
  PROVE  settled'[other] = IF other # name THEN settled[other]
                           ELSE IF ~kept THEN 0
                           ELSE IF settled[name] < 2 THEN settled[name] + 1 ELSE settled[name]
  BY DEF Settle

LEMMA SettledWrite ==
  ASSUME RunInv, SettledInv, NEW name \in Names, NEW text, text = files[name],
         WriteFile(name, text, ResultFor(text, compiler).output), UNCHANGED compiler,
         ~Expects(text, compiler),
         \/ ResultFor(text, compiler).did = "print"
         \/ ResultFor(text, compiler).did = "error" /\ name \in ErrorTests
  PROVE  SettledInv'
<1> DEFINE output == ResultFor(text, compiler).output
           kept == Kept(text, output)
<1>1. /\ settled \in [Names -> 0 .. 2] /\ files \in [Names -> Seq(Characters)]
      /\ compiler \in Compilers
  BY DEF RunInv, TypesRight, FilesType
<1>2. kept \in BOOLEAN
  BY DEF Kept, SectionInSight
<1>3. Settle(name, kept) /\ files' = [files EXCEPT ![name] = Updated(text, output)]
  BY DEF WriteFile
<1>4. ASSUME NEW other \in Names
      PROVE  SettledRight(other, files'[other], settled'[other], compiler)
  <2> HIDE DEF kept, output
  <2>1. settled'[other] = IF other # name THEN settled[other]
                          ELSE IF ~kept THEN 0
                          ELSE IF settled[name] < 2 THEN settled[name] + 1 ELSE settled[name]
    BY <1>1, <1>2, <1>3, Settles
  <2>2. CASE other # name
    <3>1. settled'[other] = settled[other] /\ files'[other] = files[other]
      BY <1>1, <1>3, <2>1, <2>2
    <3>. QED  BY <3>1 DEF SettledInv
  <2>3. CASE other = name /\ ~kept
    <3>1. settled'[other] = 0
      BY <2>1, <2>3
    <3>. QED  BY <3>1, NeverSettled
  <2>4. CASE other = name /\ kept
    <3>1. settled'[other] = IF settled[name] < 2 THEN settled[name] + 1 ELSE settled[name]
      BY <2>1, <2>4
    <3>2. files'[other] = Updated(text, output)
      BY <1>1, <1>3, <2>4
    <3>3. SettledRight(name, text, settled[name], compiler)
      BY DEF SettledInv
    <3>4. text \in Seq(Characters) /\ settled[name] \in 0 .. 2
      BY <1>1
    <3>5. Kept(text, ResultFor(text, compiler).output)
      BY <2>4 DEF kept, output
    <3>6. SettledRight(name, Updated(text, ResultFor(text, compiler).output),
                       IF settled[name] < 2 THEN settled[name] + 1 ELSE settled[name], compiler)
      BY <1>1, <3>3, <3>4, <3>5, UpdateSettles
    <3>. QED  BY <2>4, <3>1, <3>2, <3>6 DEF output
  <2>. QED  BY <2>2, <2>3, <2>4
<1>. QED  BY <1>4 DEF SettledInv

\* A file that is not written stays settled if its successes are given up or it expects what
\* the compiler does.
LEMMA SettledAlone ==
  ASSUME RunInv, SettledInv, NEW name \in Names, NEW kept \in BOOLEAN, Settle(name, kept),
         UNCHANGED <<files, compiler>>, kept => Expects(files[name], compiler)
  PROVE  SettledInv'
<1>1. settled \in [Names -> 0 .. 2]
  BY DEF RunInv, TypesRight
<1>2. ASSUME NEW other \in Names
      PROVE  SettledRight(other, files[other], settled'[other], compiler)
  <2>1. settled'[other] = IF other # name THEN settled[other]
                          ELSE IF ~kept THEN 0
                          ELSE IF settled[name] < 2 THEN settled[name] + 1 ELSE settled[name]
    BY <1>1, Settles
  <2>2. CASE other # name
    BY <2>1, <2>2 DEF SettledInv
  <2>3. CASE other = name /\ ~kept
    <3>1. settled'[other] = 0
      BY <2>1, <2>3
    <3>. QED  BY <3>1, NeverSettled
  <2>4. CASE other = name /\ kept
    BY <2>4 DEF SettledRight
  <2>. QED  BY <2>2, <2>3, <2>4
<1>. QED  BY <1>2 DEF SettledInv

LEMMA SettledPass == RunInv /\ SettledInv /\ Pass => SettledInv'
<1> SUFFICES ASSUME RunInv, SettledInv, Pass
             PROVE  SettledInv'
  OBVIOUS
<1>1. /\ Executing /\ UNCHANGED <<files, compiler>>
      /\ Result.output = TestCase.expected_output
  BY DEF Pass
<1>2. CASE update_test_cases
  <2> DEFINE kept == Kept(TestCase.input, Result.output)
  <2>1. Settle(TestCase.filename, kept)
    BY <1>2 DEF Pass
  <2>2. kept \in BOOLEAN
    BY DEF Kept, SectionInSight
  <2>3. /\ TestCase.filename \in Names
        /\ files[TestCase.filename] = TestCase.input
        /\ TestCase.expected_output = ExpectedOutput(TestCase.input)
    BY <1>1, Executed
  <2>4. Result = ResultFor(TestCase.input, compiler)
    BY Results DEF Result
  <2>5. Expects(files[TestCase.filename], compiler)
    BY <1>1, <2>3, <2>4 DEF Expects
  <2> HIDE DEF kept
  <2>. QED  BY <1>1, <2>1, <2>2, <2>3, <2>5, SettledAlone
<1>3. CASE ~update_test_cases
  BY <1>1, <1>3 DEF Pass, SettledInv
<1>. QED  BY <1>2, <1>3

LEMMA SettledUpdate == RunInv /\ SettledInv /\ Update => SettledInv'
<1> SUFFICES ASSUME RunInv, SettledInv, Update
             PROVE  SettledInv'
  OBVIOUS
<1>1. /\ Executing /\ UNCHANGED compiler /\ Result.did # "crash"
      /\ Result.output # TestCase.expected_output /\ ShouldError = DidError
  BY DEF Update, MayUpdate
<1>2. /\ TestCase.filename \in Names
      /\ files[TestCase.filename] = TestCase.input
      /\ TestCase.expected_output = ExpectedOutput(TestCase.input)
  BY <1>1, Executed
<1>3. Result = ResultFor(TestCase.input, compiler)
  BY Results DEF Result
<1>4. ~Expects(TestCase.input, compiler)
  BY <1>1, <1>2, <1>3 DEF Expects
<1>5. \/ ResultFor(TestCase.input, compiler).did = "print"
      \/ ResultFor(TestCase.input, compiler).did = "error" /\ TestCase.filename \in ErrorTests
  <2>1. Result.did \in {"print", "error", "crash"}
    BY <1>3 DEF ResultFor
  <2>2. Result.did = "error" => TestCase.filename \in ErrorTests
    BY <1>1 DEF ShouldError, DidError
  <2>. QED  BY <1>1, <1>3, <2>1, <2>2
<1>6. CASE WriteFile(TestCase.filename, TestCase.input, Result.output)
  <2>1. WriteFile(TestCase.filename, TestCase.input, ResultFor(TestCase.input, compiler).output)
    BY <1>3, <1>6
  <2>. QED  BY <1>1, <1>2, <1>4, <1>5, <2>1, SettledWrite
<1>7. CASE WriteNothing(TestCase.filename)
  BY <1>1, <1>2, <1>7, SettledAlone DEF WriteNothing
<1>. QED  BY <1>6, <1>7 DEF Update

LEMMA SettledFail == RunInv /\ SettledInv /\ (Fail \/ Abort) => SettledInv'
<1> SUFFICES ASSUME RunInv, SettledInv, Fail \/ Abort
             PROVE  SettledInv'
  OBVIOUS
<1>1. Executing /\ UNCHANGED <<files, compiler>> /\ Settle(TestCase.filename, FALSE)
  BY DEF Fail, Abort
<1>2. TestCase.filename \in Names
  BY <1>1, Executed
<1>. QED  BY <1>1, <1>2, SettledAlone

LEMMA SettledUpdateExpectedOutput ==
  ASSUME RunInv, SettledInv, NEW name \in Names, UpdateExpectedOutput(name)
  PROVE  SettledInv'
<1> DEFINE text == files[name]
<1>1. RunTestCase(text) = ResultFor(text, compiler)
  BY Results
<1>2. /\ UNCHANGED compiler
      /\ ResultFor(text, compiler).did = "print"
      /\ ResultFor(text, compiler).output # ExpectedOutput(text)
      /\ \/ WriteFile(name, text, ResultFor(text, compiler).output)
         \/ WriteNothing(name)
  BY <1>1 DEF UpdateExpectedOutput
<1>3. ~Expects(text, compiler)
  BY <1>2 DEF Expects
<1>4. CASE WriteFile(name, text, ResultFor(text, compiler).output)
  BY <1>2, <1>3, <1>4, SettledWrite
<1>5. CASE WriteNothing(name)
  BY <1>2, <1>5, SettledAlone DEF WriteNothing
<1>. QED  BY <1>2, <1>4, <1>5

LEMMA SettledNext == RunInv /\ SettledInv /\ [Next]_vars => SettledInv'
<1> SUFFICES ASSUME RunInv, SettledInv, [Next]_vars
             PROVE  SettledInv'
  OBVIOUS
<1>1. CASE ChangeCompiler
  <2>1. \A name \in Names : settled'[name] = 0
    BY <1>1 DEF ChangeCompiler
  <2>2. \A name \in Names : SettledRight(name, files'[name], settled'[name], compiler')
    BY <2>1, NeverSettled
  <2>. QED  BY <2>2 DEF SettledInv
<1>2. CASE UNCHANGED <<files, settled, compiler>>
  BY <1>2 DEF SettledInv
<1>3. CASE Pass
  BY <1>3, SettledPass
<1>4. CASE Update
  BY <1>4, SettledUpdate
<1>5. CASE Fail \/ Abort
  BY <1>5, SettledFail
<1>6. ASSUME NEW name \in Names, UpdateExpectedOutput(name)
      PROVE  SettledInv'
  BY <1>6, SettledUpdateExpectedOutput
<1>7. CASE Finish
  BY <1>2, <1>7 DEF Finish
<1>8. ASSUME NEW filtered, NEW env_value, CollectTestCases(filtered, env_value)
      PROVE  SettledInv'
  BY <1>2, <1>8 DEF CollectTestCases
<1>9. CASE UNCHANGED vars
  BY <1>2, <1>9 DEF vars, history
<1>. QED  BY <1>1, <1>3, <1>4, <1>5, <1>6, <1>7, <1>8, <1>9 DEF Next

\* Updating comes to rest: after one update without a failure the file of a test that prints
\* expects what the compiler does, after two the file of any test, because the section of an
\* error is one line from then on and no line of the program gets another number.
THEOREM UpdatingSettles == Spec => []UpdatesSettle
<1>1. Init => SettledInv
  <2> SUFFICES ASSUME Init
               PROVE  SettledInv
    OBVIOUS
  <2>1. \A name \in Names : settled[name] = 0
    BY DEF Init
  <2>. QED  BY <2>1, NeverSettled DEF SettledInv
<1>2. RunInv /\ SettledInv /\ [Next]_vars => SettledInv'
  BY SettledNext
<1>3. RunInv /\ SettledInv => UpdatesSettle
  <2> SUFFICES ASSUME RunInv, SettledInv, NEW name \in Names,
                      settled[name] = 2 \/ (settled[name] = 1 /\ name \notin ErrorTests)
               PROVE  ExpectedOutput(files[name]) = RunTestCase(files[name]).output
    BY DEF UpdatesSettle
  <2>1. SettledRight(name, files[name], settled[name], compiler)
    BY DEF SettledInv
  <2>2. Expects(files[name], compiler)
    BY <2>1 DEF SettledRight
  <2>. QED  BY <2>2, Results DEF Expects
<1>. QED  BY <1>1, <1>2, <1>3, RunInvariant, PTL DEF Spec
=============================================================================
