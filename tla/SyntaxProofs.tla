----------------------------- MODULE SyntaxProofs -----------------------------
(***************************************************************************)
(* Theorems about the shape of the tree of every file.                     *)
(*                                                                         *)
(* Every node is a value of its struct, and the members of a list of       *)
(* statements start on different lines, from what GrammarCheck finds of    *)
(* the methods: every call in progress is at one of its points, with the   *)
(* children that are known there (PointInv).                               *)
(*                                                                         *)
(* Operators bind as strongly as they should, from what OperatorCheck      *)
(* finds of them: every call in progress is at one of its places, and the  *)
(* places of neighbouring calls fit together, the node that a call         *)
(* promises is as strong as the call that waits for it demands (PlaceInv). *)
(***************************************************************************)
EXTENDS GrammarCheck, OperatorCheck, ParserProofs, FiniteSetTheorems, WellFoundedInduction

Points == PointsWithin(Depth)

\* The fields of children, and those of the children of call k once the call that it
\* waits for has returned.
FieldsOf(kids) == [i \in 1..Len(kids) |-> kids[i].field]
Expected(k) ==
  IF k = Top THEN FieldsOf(stack[k].kids)
  ELSE Append(FieldsOf(stack[k].kids), stack[k + 1].field)

\* Children of these fields are what is known of them; ...
Once(fields, name) == \A i, j \in 1..Len(fields) :
  fields[i] = name /\ fields[j] = name => i = j
Twice(fields, name) == \A i, j, k \in 1..Len(fields) :
  fields[i] = name /\ fields[j] = name /\ fields[k] = name => i = j \/ i = k \/ j = k
Counted(fields, count) ==
  /\ DOMAIN count = {fields[i] : i \in 1..Len(fields)}
  /\ \A name \in DOMAIN count : /\ count[name] \in 1..3
                                /\ count[name] = 1 => Once(fields, name)
                                /\ count[name] = 2 => Twice(fields, name)
Ends(fields, known) ==
  Len(fields) > 0 => known.first = fields[1] /\ known.last = fields[Len(fields)]

\* ... neighbours in a list are apart, but for the last child if it has not been
\* compared yet.
InOneList(fields, i, j) ==
  /\ i < j /\ fields[i] = fields[j] /\ fields[i] \in StatementLists
  /\ \A k \in (i + 1)..(j - 1) : fields[k] # fields[i]
RowsFit(fields, kids, rows) ==
  rows # "mixed" => \A i, j \in 1..Len(fields) : InOneList(fields, i, j) =>
    \/ rows = "late" /\ j = Len(fields) /\ i = j - 1
    \/ j <= Len(kids) /\ StartApart(kids[i].id, kids[j].id)

\* The inductive invariant: every call is at a point, ...
IsAt(k, point) ==
  /\ point \in Points
  /\ point.todo = stack[k].todo /\ point.field = NamedFor(stack[k].field)
  /\ Counted(Expected(k), point.kids.count) /\ Ends(Expected(k), point.kids)
  /\ RowsFit(Expected(k), stack[k].kids, point.kids.rows)
AtPoint(k) == \E point : IsAt(k, point)
PointInv == \A k \in DOMAIN stack : AtPoint(k)

\* ... and its children are of the kinds that their fields are named for.
OfKinds(kids) == \A i \in 1..Len(kids) :
  kids[i].field \in DOMAIN KindOf => nodes[kids[i].id].type \in KindOf[kids[i].field]
KindInv == \A k \in DOMAIN stack : OfKinds(stack[k].kids)
TreeInv == PointInv /\ KindInv /\ WellFormedNodes /\ StatementsApart

-----------------------------------------------------------------------------
(* What is known of children                                               *)

LEMMA FieldSequence ==
  ASSUME NEW kids \in Seq(Kid)
  PROVE  /\ FieldsOf(kids) \in Seq(Fields) /\ Len(FieldsOf(kids)) = Len(kids)
         /\ Len(kids) \in Nat
         /\ \A i \in 1..Len(kids) : FieldsOf(kids)[i] = kids[i].field
<1>1. \A i \in 1..Len(kids) : kids[i] \in Kid
  BY ElementOfSeq
<1>2. Len(kids) \in Nat /\ \A i \in 1..Len(kids) : kids[i].field \in Fields
  BY <1>1, LenProperties DEF Kid
<1>. QED  BY <1>2 DEF FieldsOf

LEMMA FitNone == Counted(<<>>, NoKids.count) /\ Ends(<<>>, NoKids)
                 /\ \A kids : RowsFit(<<>>, kids, NoKids.rows)
  BY DEF Counted, Ends, RowsFit, NoKids

LEMMA FitOnly ==
  ASSUME NEW field, NEW fields, fields = <<field>>
  PROVE  /\ Counted(fields, OnlyKid(field).count) /\ Ends(fields, OnlyKid(field))
         /\ \A kids : RowsFit(fields, kids, OnlyKid(field).rows)
<1>1. Len(fields) = 1 /\ fields[1] = field
  OBVIOUS
<1>2. Counted(fields, OnlyKid(field).count)
  BY <1>1 DEF Counted, Once, Twice, OnlyKid
<1>3. \A kids : RowsFit(fields, kids, OnlyKid(field).rows)
  BY <1>1 DEF RowsFit, OnlyKid, InOneList
<1>. QED  BY <1>1, <1>2, <1>3 DEF Ends, OnlyKid

\* With one more child.
LEMMA OneMoreField ==
  ASSUME NEW fields \in Seq(Fields), NEW field \in Fields, NEW more,
         more = Append(fields, field)
  PROVE  /\ Len(fields) \in Nat /\ Len(more) = Len(fields) + 1
         /\ more[Len(fields) + 1] = field
         /\ \A i \in 1..Len(fields) : more[i] = fields[i]
         /\ \A i \in 1..Len(more) : i = Len(fields) + 1 \/ i \in 1..Len(fields)
         /\ more \in Seq(Fields)
<1>1. /\ Len(fields) \in Nat /\ Len(more) = Len(fields) + 1 /\ more \in Seq(Fields)
      /\ more[Len(fields) + 1] = field
      /\ \A i \in 1..Len(fields) : more[i] = fields[i]
  BY AppendProperties, LenProperties
<1>. QED  BY <1>1

LEMMA CountedMore ==
  ASSUME NEW fields \in Seq(Fields), NEW field \in Fields, NEW count,
         Counted(fields, count), NEW more, more = Append(fields, field)
  PROVE  Counted(more, OneMore(count, field))
<1> DEFINE n == Len(fields)
           after == OneMore(count, field)
<1>1. /\ n \in Nat /\ Len(more) = n + 1 /\ more[n + 1] = field
      /\ \A i \in 1..n : more[i] = fields[i]
      /\ \A i \in 1..(n + 1) : i = n + 1 \/ i \in 1..n
  BY OneMoreField
<1> HIDE DEF n
<1>2. DOMAIN count = {fields[i] : i \in 1..n}
  BY DEF Counted, n
<1>3. DOMAIN after = DOMAIN count \cup {field}
  BY DEF OneMore
<1>4. DOMAIN after = {more[i] : i \in 1..(n + 1)}
  <2>1. 1..(n + 1) = 1..n \cup {n + 1}
    BY <1>1
  <2>. QED  BY <1>1, <1>2, <1>3, <2>1
<1>5. ASSUME NEW name \in DOMAIN after
      PROVE  /\ after[name] \in 1..3
             /\ after[name] = 1 => Once(more, name)
             /\ after[name] = 2 => Twice(more, name)
  <2>1. name \in DOMAIN count \cup {field}
    BY <1>3
  <2>2. after[name] = IF name # field THEN count[name]
                      ELSE IF name \notin DOMAIN count THEN 1
                      ELSE IF count[name] = 3 THEN 3 ELSE count[name] + 1
    BY <2>1 DEF OneMore
  <2> HIDE DEF after
  <2>3. name \in DOMAIN count =>
          /\ count[name] \in 1..3
          /\ count[name] = 1 => Once(fields, name)
          /\ count[name] = 2 => Twice(fields, name)
    BY DEF Counted
  <2>4. CASE name # field
    <3>1. \A i \in 1..(n + 1) : more[i] = name => i \in 1..n /\ fields[i] = name
      BY <1>1, <2>4
    <3>2. Once(fields, name) => Once(more, name)
      BY <1>1, <3>1 DEF Once, n
    <3>3. Twice(fields, name) => Twice(more, name)
      BY <1>1, <3>1 DEF Twice, n
    <3>. QED  BY <2>1, <2>2, <2>3, <2>4, <3>2, <3>3
  <2>5. CASE name = field /\ name \notin DOMAIN count
    <3>1. \A i \in 1..(n + 1) : more[i] = name => i = n + 1
      BY <1>1, <1>2, <2>5
    <3>2. Once(more, name)
      BY <1>1, <3>1 DEF Once
    <3>. QED  BY <2>2, <2>5, <3>2
  <2>6. CASE name = field /\ name \in DOMAIN count
    <3>1. after[name] \in 2..3
      BY <2>2, <2>3, <2>6
    <3>2. after[name] = 2 => Once(fields, name)
      BY <2>2, <2>3, <2>6
    <3>3. \A i \in 1..(n + 1) : more[i] = name => i = n + 1 \/ (i \in 1..n /\ fields[i] = name)
      BY <1>1
    <3>4. Once(fields, name) => Twice(more, name)
      BY <1>1, <3>3 DEF Once, Twice, n
    <3>. QED  BY <3>1, <3>2, <3>4
  <2>. QED  BY <2>1, <2>4, <2>5, <2>6
<1> HIDE DEF after
<1>6. Counted(more, after)
  BY <1>1, <1>4, <1>5 DEF Counted
<1>. QED  BY <1>6 DEF after

LEMMA EndsMore ==
  ASSUME NEW fields \in Seq(Fields), NEW field \in Fields, NEW known,
         Counted(fields, known.count), Ends(fields, known),
         NEW more, more = Append(fields, field)
  PROVE  Ends(more, WithKid(known, field))
<1> DEFINE n == Len(fields)
<1>1. /\ n \in Nat /\ Len(more) = n + 1 /\ more[n + 1] = field
      /\ \A i \in 1..n : more[i] = fields[i]
  BY OneMoreField
<1> HIDE DEF n
<1>2. /\ WithKid(known, field).last = field
      /\ WithKid(known, field).first = IF DOMAIN known.count = {} THEN field ELSE known.first
  BY DEF WithKid
<1>3. DOMAIN known.count = {fields[i] : i \in 1..n}
  BY DEF Counted, n
<1>4. CASE n = 0
  <2>1. DOMAIN known.count = {}
    BY <1>3, <1>4
  <2>. QED  BY <1>1, <1>2, <1>4, <2>1 DEF Ends
<1>5. CASE n > 0
  <2>1. 1 \in 1..n /\ known.first = fields[1]
    BY <1>1, <1>5 DEF Ends, n
  <2>2. DOMAIN known.count # {}
    BY <1>3, <2>1
  <2>. QED  BY <1>1, <1>2, <2>1, <2>2 DEF Ends
<1>. QED  BY <1>1, <1>4, <1>5

LEMMA RowsMore ==
  ASSUME NEW fields \in Seq(Fields), NEW field \in Fields, NEW known, NEW kids,
         Counted(fields, known.count), Ends(fields, known), RowsFit(fields, kids, known.rows),
         NEW more, more = Append(fields, field)
  PROVE  RowsFit(more, kids, WithKid(known, field).rows)
<1> DEFINE n == Len(fields)
           rows == RowsWith(known, field)
<1>1. /\ n \in Nat /\ Len(more) = n + 1 /\ more[n + 1] = field
      /\ \A i \in 1..n : more[i] = fields[i]
      /\ \A i \in 1..(n + 1) : i = n + 1 \/ i \in 1..n
  BY OneMoreField
<1> HIDE DEF n, rows
<1>2. WithKid(known, field).rows = rows
  BY DEF WithKid, rows
<1>3. SUFFICES ASSUME rows # "mixed", NEW i \in 1..(n + 1), NEW j \in 1..(n + 1),
                      InOneList(more, i, j)
               PROVE  \/ rows = "late" /\ j = n + 1 /\ i = j - 1
                      \/ j <= Len(kids) /\ StartApart(kids[i].id, kids[j].id)
  BY <1>1, <1>2 DEF RowsFit
<1>4. /\ known.rows = "apart"
      /\ \/ rows = "apart" /\ field \notin StatementLists \cap DOMAIN known.count
         \/ rows = "late" /\ known.last = field
  BY <1>3 DEF rows, RowsWith
<1>5. i < j /\ i \in 1..n /\ more[i] = fields[i]
  BY <1>1, <1>3 DEF InOneList
<1>6. CASE j \in 1..n
  <2>1. InOneList(fields, i, j)
    <3>1. \A k \in (i + 1)..(j - 1) : k \in 1..n
      BY <1>1, <1>5, <1>6
    <3>. QED  BY <1>1, <1>3, <1>5, <1>6, <3>1 DEF InOneList
  <2>. QED  BY <1>4, <1>5, <1>6, <2>1 DEF RowsFit, n
<1>7. CASE j = n + 1
  <2>1. fields[i] = field /\ field \in StatementLists
    BY <1>1, <1>3, <1>5, <1>7 DEF InOneList
  <2>2. fields[i] \in DOMAIN known.count
    BY <1>5 DEF Counted, n
  <2>3. rows = "late" /\ known.last = field
    BY <1>4, <2>1, <2>2
  <2>4. fields[n] = field
    BY <1>1, <1>5, <2>3 DEF Ends, n
  <2>5. ASSUME i # n PROVE FALSE
    <3>1. n \in (i + 1)..(j - 1)
      BY <1>1, <1>5, <1>7, <2>5
    <3>2. more[n] # more[i]
      BY <1>3, <3>1 DEF InOneList
    <3>. QED  BY <1>1, <1>5, <2>1, <2>4, <3>2
  <2>. QED  BY <1>1, <1>7, <2>3, <2>5
<1>. QED  BY <1>1, <1>6, <1>7


\* With another name for the first child, which is the only one of its name.
LEMMA CountedFirst ==
  ASSUME NEW fields \in Seq(Fields), Len(fields) > 0, NEW known,
         Counted(fields, known.count), Ends(fields, known),
         known.count[known.first] = 1, NEW field,
         field \notin DOMAIN known.count \ {known.first},
         NEW called, Len(called) = Len(fields), called[1] = field,
         \A i \in 2..Len(fields) : called[i] = fields[i]
  PROVE  Counted(called, FirstCalled(known, field).count)
<1> DEFINE n == Len(fields)
           after == FirstCalled(known, field).count
<1>1. n \in Nat /\ n > 0 /\ \A i \in 1..n : i = 1 \/ i \in 2..n
  BY LenProperties
<1> HIDE DEF n
<1>2. /\ DOMAIN after = (DOMAIN known.count \ {known.first}) \cup {field}
      /\ \A name \in DOMAIN after :
           after[name] = IF name = field THEN 1 ELSE known.count[name]
  BY DEF FirstCalled
<1> HIDE DEF after
<1>3. DOMAIN known.count = {fields[i] : i \in 1..n} /\ known.first = fields[1]
  BY <1>1 DEF Counted, Ends, n
<1>4. 1 \in 1..n
  BY <1>1
<1>5. Once(fields, fields[1])
  BY <1>3, <1>4 DEF Counted
<1>6. \A i \in 2..n : i \in 1..n /\ fields[i] # fields[1] /\ fields[i] # field
  <2>1. ASSUME NEW i \in 2..n PROVE i \in 1..n /\ fields[i] # fields[1]
    <3>1. i \in 1..n /\ i # 1
      BY <1>1
    <3>. QED  BY <1>4, <1>5, <3>1 DEF Once, n
  <2>2. ASSUME NEW i \in 2..n PROVE fields[i] \in DOMAIN known.count \ {known.first}
    BY <1>3, <2>1
  <2>. QED  BY <2>1, <2>2
<1>7. DOMAIN after = {called[i] : i \in 1..n}
  <2>1. DOMAIN known.count \ {known.first} = {fields[i] : i \in 2..n}
    BY <1>1, <1>3, <1>6
  <2>2. {called[i] : i \in 1..n} = {called[i] : i \in 2..n} \cup {field}
    <3>1. 1..n = 2..n \cup {1}
      BY <1>1
    <3>. QED  BY <3>1
  <2>3. {called[i] : i \in 2..n} = {fields[i] : i \in 2..n}
    BY DEF n
  <2>. QED  BY <1>2, <2>1, <2>2, <2>3
<1>8. ASSUME NEW name \in DOMAIN after
      PROVE  /\ after[name] \in 1..3
             /\ after[name] = 1 => Once(called, name)
             /\ after[name] = 2 => Twice(called, name)
  <2>1. CASE name = field
    <3>1. \A i \in 1..n : called[i] = name => i = 1
      BY <1>1, <1>6, <2>1 DEF n
    <3>. QED  BY <1>2, <2>1, <3>1 DEF Once, n
  <2>2. CASE name # field
    <3>1. name \in DOMAIN known.count /\ after[name] = known.count[name]
      BY <1>2, <2>2
    <3>2. \A i \in 1..n : called[i] = name => fields[i] = name
      BY <1>1, <2>2 DEF n
    <3>3. Once(fields, name) => Once(called, name)
      BY <3>2 DEF Once, n
    <3>4. Twice(fields, name) => Twice(called, name)
      BY <3>2 DEF Twice, n
    <3>. QED  BY <3>1, <3>3, <3>4 DEF Counted
  <2>. QED  BY <2>1, <2>2
<1>9. Counted(called, after)
  BY <1>7, <1>8 DEF Counted, n
<1>. QED  BY <1>9 DEF after

LEMMA RowsFirst ==
  ASSUME NEW fields \in Seq(Fields), NEW kids, NEW rows, RowsFit(fields, kids, rows),
         fields[1] \notin StatementLists,
         NEW called, Len(called) = Len(fields), called[1] \notin StatementLists,
         \A i \in 2..Len(fields) : called[i] = fields[i],
         NEW others, Len(others) = Len(kids),
         \A i \in 2..Len(kids) : others[i].id = kids[i].id
  PROVE  RowsFit(called, others, rows)
<1> DEFINE n == Len(fields)
<1>1. n \in Nat
  BY LenProperties
<1> HIDE DEF n
<1>2. SUFFICES ASSUME rows # "mixed", NEW i \in 1..n, NEW j \in 1..n, InOneList(called, i, j)
               PROVE  \/ rows = "late" /\ j = n /\ i = j - 1
                      \/ j <= Len(others) /\ StartApart(others[i].id, others[j].id)
  BY DEF RowsFit, n
<1>3. i \in 2..n /\ j \in 2..n /\ i < j
  <2>1. i # 1 /\ i < j
    BY <1>2 DEF InOneList
  <2>. QED  BY <1>1, <2>1
<1>4. InOneList(fields, i, j)
  <2>1. \A k \in (i + 1)..(j - 1) : k \in 2..n
    BY <1>1, <1>3
  <2>. QED  BY <1>2, <1>3, <2>1 DEF InOneList, n
<1>5. \/ rows = "late" /\ j = n /\ i = j - 1
      \/ j <= Len(kids) /\ StartApart(kids[i].id, kids[j].id)
  BY <1>2, <1>4 DEF RowsFit, n
<1>6. ASSUME j <= Len(kids), StartApart(kids[i].id, kids[j].id)
      PROVE  j <= Len(others) /\ StartApart(others[i].id, others[j].id)
  <2>1. Len(kids) = Len(others) /\ (Len(kids) \in Int => i \in 2..Len(kids) /\ j \in 2..Len(kids))
    BY <1>1, <1>3, <1>6
  <2>. QED  BY <1>6, <2>1
<1>. QED  BY <1>5, <1>6

\* Without a child that is neither the first nor the last, but of the last one's field.
LEMMA CountedLess ==
  ASSUME NEW fields \in Seq(Fields), NEW known, NEW i \in 2..(Len(fields) - 1),
         Counted(fields, known.count), Ends(fields, known),
         fields[i] = fields[Len(fields)],
         NEW fewer, Len(fewer) = Len(fields) - 1,
         \A k \in 1..(Len(fields) - 1) : fewer[k] = IF k < i THEN fields[k] ELSE fields[k + 1]
  PROVE  /\ Counted(fewer, Overwritten(known, fields[i]).count)
         /\ Ends(fewer, Overwritten(known, fields[i]))
<1> DEFINE n == Len(fields)
           field == fields[i]
           after == Overwritten(known, field)
           place(k) == IF k < i THEN k ELSE k + 1
<1>1. n \in Nat /\ i \in 1..n /\ n \in 1..n /\ 1 \in 1..n /\ i < n /\ i # 1 /\ n - 1 \in 1..(n - 1)
  BY LenProperties
<1> HIDE DEF n
<1>2. DOMAIN known.count = {fields[k] : k \in 1..n} /\ Len(fewer) = n - 1
  BY DEF Counted, n
<1>3. \A k \in 1..(n - 1) : fewer[k] = fields[place(k)] /\ place(k) \in 1..n /\ place(k) # i
  BY <1>1 DEF n
<1>4. \A k \in 1..n : k = i \/ \E l \in 1..(n - 1) : k = place(l)
  <2>1. ASSUME NEW k \in 1..n, k < i PROVE \E l \in 1..(n - 1) : k = place(l)
    <3>1. k \in 1..(n - 1) /\ k = place(k)
      BY <1>1, <2>1
    <3>. QED  BY <3>1
  <2>2. ASSUME NEW k \in 1..n, k > i PROVE \E l \in 1..(n - 1) : k = place(l)
    <3>1. k - 1 \in 1..(n - 1) /\ k = place(k - 1)
      BY <1>1, <2>2
    <3>. QED  BY <3>1
  <2>3. \A k \in 1..n : k < i \/ k = i \/ k > i
    BY <1>1
  <2> HIDE DEF place
  <2>. QED  BY <2>1, <2>2, <2>3
<1>5. \A k, l \in 1..(n - 1) : place(k) = place(l) => k = l
  BY <1>1
<1>6. place(1) = 1 /\ place(n - 1) = n
  BY <1>1
<1> HIDE DEF place
<1>7. {fewer[k] : k \in 1..(n - 1)} = {fields[k] : k \in 1..n}
  <2>1. \A k \in 1..n : \E l \in 1..(n - 1) : fields[k] = fewer[l]
    <3>1. ASSUME NEW k \in 1..n, k # i PROVE \E l \in 1..(n - 1) : fields[k] = fewer[l]
      BY <1>3, <1>4, <3>1
    <3>2. fields[i] = fewer[n - 1]
      BY <1>1, <1>3, <1>6 DEF n
    <3>. QED  BY <1>1, <3>1, <3>2
  <2>2. \A l \in 1..(n - 1) : \E k \in 1..n : fewer[l] = fields[k]
    BY <1>3
  <2>3. {fewer[k] : k \in 1..(n - 1)} \subseteq {fields[k] : k \in 1..n}
    BY <2>2
  <2>4. {fields[k] : k \in 1..n} \subseteq {fewer[k] : k \in 1..(n - 1)}
    BY <2>1
  <2>. QED  BY <2>3, <2>4
<1>8. /\ DOMAIN after.count = DOMAIN known.count
      /\ after.first = known.first /\ after.last = known.last
      /\ \A name \in DOMAIN known.count :
           after.count[name] = IF name # field THEN known.count[name]
                               ELSE IF known.count[name] = 3 THEN 3 ELSE 1
  BY DEF Overwritten
<1> HIDE DEF after
<1>9. Ends(fewer, after)
  BY <1>1, <1>2, <1>3, <1>6, <1>8 DEF Ends, n
<1>10. ASSUME NEW name \in DOMAIN known.count
       PROVE  /\ after.count[name] \in 1..3
              /\ after.count[name] = 1 => Once(fewer, name)
              /\ after.count[name] = 2 => Twice(fewer, name)
  <2>1. /\ known.count[name] \in 1..3
        /\ known.count[name] = 1 => Once(fields, name)
        /\ known.count[name] = 2 => Twice(fields, name)
    BY DEF Counted
  <2>2. CASE name # field
    <3>0. \A k \in 1..(n - 1) : fewer[k] = name => place(k) \in 1..n /\ fields[place(k)] = name
      BY <1>3
    <3>1. ASSUME Once(fields, name) PROVE Once(fewer, name)
      <4>1. SUFFICES ASSUME NEW k \in 1..(n - 1), NEW l \in 1..(n - 1),
                            fewer[k] = name, fewer[l] = name
                     PROVE  k = l
        BY <1>2 DEF Once
      <4>2. PICK a \in 1..n, b \in 1..n :
              /\ a = place(k) /\ fields[a] = name
              /\ b = place(l) /\ fields[b] = name
        BY <3>0, <4>1
      <4>3. a = b
        BY <3>1, <4>2 DEF Once, n
      <4>. QED  BY <1>5, <4>2, <4>3
    <3>2. ASSUME Twice(fields, name) PROVE Twice(fewer, name)
      <4>1. SUFFICES ASSUME NEW k \in 1..(n - 1), NEW l \in 1..(n - 1), NEW m \in 1..(n - 1),
                            fewer[k] = name, fewer[l] = name, fewer[m] = name
                     PROVE  k = l \/ k = m \/ l = m
        BY <1>2 DEF Twice
      <4>2. PICK a \in 1..n, b \in 1..n, c \in 1..n :
              /\ a = place(k) /\ fields[a] = name
              /\ b = place(l) /\ fields[b] = name
              /\ c = place(m) /\ fields[c] = name
        BY <3>0, <4>1
      <4>3. a = b \/ a = c \/ b = c
        BY <3>2, <4>2 DEF Twice, n
      <4>. QED  BY <1>5, <4>2, <4>3
    <3>. QED  BY <1>8, <2>1, <2>2, <3>1, <3>2
  <2>3. CASE name = field /\ known.count[name] = 3
    BY <1>8, <2>3
  <2>4. CASE name = field /\ known.count[name] # 3
    <3>1. ~Once(fields, name)
      BY <1>1, <2>4 DEF Once, n
    <3>2. Twice(fields, name)
      BY <2>1, <2>4, <3>1
    <3>3. Once(fewer, name)
      <4>1. SUFFICES ASSUME NEW k \in 1..(n - 1), NEW l \in 1..(n - 1),
                            fewer[k] = name, fewer[l] = name
                     PROVE  place(k) = place(l)
        BY <1>2, <1>5 DEF Once
      <4>. QED  BY <1>1, <1>3, <2>4, <3>2, <4>1 DEF Twice, n
    <3>. QED  BY <1>8, <2>4, <3>3
  <2>. QED  BY <2>2, <2>3, <2>4
<1>11. Counted(fewer, after.count)
  BY <1>2, <1>7, <1>8, <1>10 DEF Counted
<1>. QED  BY <1>9, <1>11 DEF after

LEMMA RowsLess ==
  ASSUME NEW fields \in Seq(Fields), NEW kids \in Seq(Kid), NEW rows,
         Len(fields) = Len(kids), NEW i \in 2..(Len(fields) - 1),
         RowsFit(fields, kids, rows),
         fields[i] = fields[Len(fields)], fields[i] \notin StatementLists,
         NEW fewer, Len(fewer) = Len(fields) - 1,
         \A k \in 1..(Len(fields) - 1) : fewer[k] = IF k < i THEN fields[k] ELSE fields[k + 1],
         NEW less, Len(less) = Len(fields) - 1,
         \A k \in 1..(Len(fields) - 1) : less[k] = IF k < i THEN kids[k] ELSE kids[k + 1]
  PROVE  RowsFit(fewer, less, rows)
<1> DEFINE n == Len(fields)
           place(k) == IF k < i THEN k ELSE k + 1
<1>1. n \in Nat /\ i \in 1..n /\ n \in 1..n /\ i < n
  BY LenProperties
<1> HIDE DEF n
<1>2. SUFFICES ASSUME rows # "mixed", NEW k \in 1..(n - 1), NEW l \in 1..(n - 1),
                      InOneList(fewer, k, l)
               PROVE  l <= n - 1 /\ StartApart(less[k].id, less[l].id)
  BY DEF RowsFit, n
<1>3. \A m \in 1..(n - 1) : /\ fewer[m] = fields[place(m)] /\ less[m] = kids[place(m)]
                            /\ place(m) \in 1..n /\ place(m) # i
  BY <1>1 DEF n
<1>4. \A a, b \in 1..(n - 1) : a < b => place(a) < place(b)
  BY <1>1
<1>5. \A m \in (place(k) + 1)..(place(l) - 1) :
        m = i \/ \E o \in (k + 1)..(l - 1) : m = place(o) /\ o \in 1..(n - 1)
  <2>1. ASSUME NEW m \in (place(k) + 1)..(place(l) - 1), m < i
        PROVE  m \in (k + 1)..(l - 1) /\ m = place(m) /\ m \in 1..(n - 1)
    BY <1>1, <2>1
  <2>2. ASSUME NEW m \in (place(k) + 1)..(place(l) - 1), m > i
        PROVE  m - 1 \in (k + 1)..(l - 1) /\ m = place(m - 1) /\ m - 1 \in 1..(n - 1)
    BY <1>1, <2>2
  <2>3. \A m \in (place(k) + 1)..(place(l) - 1) : m < i \/ m = i \/ m > i
    BY <1>1
  <2> HIDE DEF place
  <2>. QED  BY <2>1, <2>2, <2>3
<1> HIDE DEF place
<1>6. /\ k < l /\ fewer[k] = fewer[l] /\ fewer[k] \in StatementLists
      /\ \A o \in (k + 1)..(l - 1) : fewer[o] # fewer[k]
  BY <1>2 DEF InOneList
<1>7. InOneList(fields, place(k), place(l))
  <2>1. ASSUME NEW m \in (place(k) + 1)..(place(l) - 1) PROVE fields[m] # fields[place(k)]
    <3>1. CASE m = i
      BY <1>3, <1>6, <3>1
    <3>2. ASSUME NEW o \in (k + 1)..(l - 1), m = place(o), o \in 1..(n - 1)
          PROVE  fields[m] # fields[place(k)]
      BY <1>3, <1>6, <3>2
    <3>. QED  BY <1>5, <3>1, <3>2
  <2>. QED  BY <1>3, <1>4, <1>6, <2>1 DEF InOneList
<1>8. place(l) # n
  BY <1>1, <1>3, <1>6 DEF n
<1>9. StartApart(kids[place(k)].id, kids[place(l)].id)
  BY <1>2, <1>3, <1>7, <1>8 DEF RowsFit, n
<1>10. less[k] = kids[place(k)] /\ less[l] = kids[place(l)] /\ l <= n - 1
  BY <1>1, <1>3
<1>. QED  BY <1>9, <1>10

-----------------------------------------------------------------------------
(* Nodes                                                                   *)

\* Nodes there are stay as they are.
NodesGrow == tokens' = tokens /\ \A id \in DOMAIN nodes : id \in DOMAIN nodes'
                                                          /\ nodes'[id] = nodes[id]

KidsApart(kids) == \A i, j \in DOMAIN kids :
  Neighbours(kids, i, j) => StartApart(kids[i].id, kids[j].id)

\* What MayMake says of known children holds of the node.
LEMMA NodeFits ==
  ASSUME NEW kids \in Seq(Kid), OfKinds(kids), NEW type, NEW known, MayMake(type, known),
         Counted(FieldsOf(kids), known.count),
         NEW node, node.type = type, node.kids = kids
  PROVE  WellFormed(node)
<1> DEFINE n == Len(kids)
           struct == Range(NodeStructs[type])
<1>1. /\ n \in Nat /\ DOMAIN kids = 1..n
      /\ Len(FieldsOf(kids)) = n /\ \A i \in 1..n : FieldsOf(kids)[i] = kids[i].field
  BY FieldSequence, LenProperties
<1> HIDE DEF n, struct
<1>2. DOMAIN known.count = {kids[i].field : i \in 1..n}
  BY <1>1 DEF Counted
<1>3. \A name : known.count[name] = 1 /\ name \in DOMAIN known.count =>
        \A i, j \in 1..n : kids[i].field = name /\ kids[j].field = name => i = j
  BY <1>1 DEF Counted, Once
<1>4. /\ \A name \in DOMAIN known.count : \E field \in struct :
           field.name = name /\ field.holds # "value"
      /\ \A field \in struct :
           /\ field.holds = "one" => field.name \in DOMAIN known.count
           /\ field.holds \in {"one", "maybe"} /\ field.name \in DOMAIN known.count =>
                known.count[field.name] = 1
  BY DEF MayMake, struct
<1>5. ASSUME NEW i \in 1..n
      PROVE  /\ \E field \in struct : field.name = kids[i].field /\ field.holds # "value"
             /\ kids[i].field \in DOMAIN KindOf => nodes[kids[i].id].type \in KindOf[kids[i].field]
  BY <1>2, <1>4 DEF OfKinds, n
<1>6. \A name : Held(node, name) = {i \in 1..n : kids[i].field = name}
  BY <1>1 DEF Held
<1>7. ASSUME NEW field \in struct, field.holds \in {"one", "maybe"},
             field.name \in DOMAIN known.count
      PROVE  Cardinality(Held(node, field.name)) = 1
  <2>1. PICK i \in 1..n : kids[i].field = field.name
    BY <1>2, <1>7
  <2>2. Held(node, field.name) = {i}
    BY <1>3, <1>4, <1>6, <1>7, <2>1
  <2>. QED  BY <2>2, FS_Singleton
<1>8. ASSUME NEW name, name \notin DOMAIN known.count
      PROVE  Cardinality(Held(node, name)) = 0
  <2>1. Held(node, name) = {}
    BY <1>2, <1>6, <1>8
  <2>. QED  BY <2>1, FS_EmptySet
<1>9. \A field \in struct :
        /\ field.holds = "one"   => Cardinality(Held(node, field.name)) = 1
        /\ field.holds = "maybe" => Cardinality(Held(node, field.name)) <= 1
  BY <1>4, <1>7, <1>8
<1>10. \A kid \in Range(node.kids) :
         /\ \E field \in struct : field.name = kid.field /\ field.holds # "value"
         /\ kid.field \in DOMAIN KindOf => nodes[kid.id].type \in KindOf[kid.field]
  BY <1>1, <1>5 DEF Range
<1>. QED  BY <1>9, <1>10 DEF WellFormed, struct

LEMMA NodeApart ==
  ASSUME NEW kids \in Seq(Kid), NEW type, NEW known, MayMake(type, known),
         RowsFit(FieldsOf(kids), kids, known.rows), type \notin MayTouch
  PROVE  KidsApart(kids)
<1>1. /\ Len(kids) \in Nat /\ DOMAIN kids = 1..Len(kids) /\ Len(FieldsOf(kids)) = Len(kids)
      /\ \A i \in 1..Len(kids) : FieldsOf(kids)[i] = kids[i].field
  BY FieldSequence, LenProperties
<1>2. known.rows = "apart"
  BY DEF MayMake
<1>3. SUFFICES ASSUME NEW i \in 1..Len(kids), NEW j \in 1..Len(kids), Neighbours(kids, i, j)
               PROVE  StartApart(kids[i].id, kids[j].id)
  BY <1>1 DEF KidsApart
<1>4. InOneList(FieldsOf(kids), i, j)
  <2>1. \A k \in (i + 1)..(j - 1) : k \in 1..Len(kids)
    BY <1>1
  <2>. QED  BY <1>1, <1>3, <2>1 DEF InOneList, Neighbours
<1>. QED  BY <1>1, <1>2, <1>4 DEF RowsFit

\* What is so of nodes stays so while others are made.
LEMMA ApartKept ==
  ASSUME NodesGrow, NEW a \in DOMAIN nodes, NEW b \in DOMAIN nodes, StartApart(a, b)
  PROVE  StartApart(a, b)'
  BY DEF NodesGrow, StartApart, Line

LEMMA KidsThere ==
  ASSUME NEW kids \in Seq(Kid), KidIds(kids) \subseteq DOMAIN nodes
  PROVE  \A i \in 1..Len(kids) : kids[i].id \in DOMAIN nodes
  BY LenProperties DEF KidIds

LEMMA KindsKept ==
  ASSUME NodesGrow, NEW kids \in Seq(Kid), KidIds(kids) \subseteq DOMAIN nodes, OfKinds(kids)
  PROVE  OfKinds(kids)'
  BY KidsThere DEF NodesGrow, OfKinds

LEMMA RowsKept ==
  ASSUME NodesGrow, NEW fields \in Seq(Fields), NEW kids \in Seq(Kid),
         KidIds(kids) \subseteq DOMAIN nodes,
         NEW rows, RowsFit(fields, kids, rows)
  PROVE  RowsFit(fields, kids, rows)'
<1>1. SUFFICES ASSUME rows # "mixed", NEW i \in 1..Len(fields), NEW j \in 1..Len(fields),
                      InOneList(fields, i, j)
               PROVE  \/ rows = "late" /\ j = Len(fields) /\ i = j - 1
                      \/ j <= Len(kids) /\ StartApart(kids[i].id, kids[j].id)'
  BY DEF RowsFit, InOneList
<1>2. ASSUME j <= Len(kids), StartApart(kids[i].id, kids[j].id)
      PROVE  StartApart(kids[i].id, kids[j].id)'
  <2>1. i \in 1..Len(kids) /\ j \in 1..Len(kids)
    BY <1>1, <1>2, LenProperties DEF InOneList
  <2>. QED  BY <1>2, <2>1, KidsThere, ApartKept
<1>. QED  BY <1>1, <1>2 DEF RowsFit

LEMMA ApartKidsKept ==
  ASSUME NodesGrow, NEW kids \in Seq(Kid), KidIds(kids) \subseteq DOMAIN nodes, KidsApart(kids)
  PROVE  KidsApart(kids)'
<1>1. \A i \in DOMAIN kids : kids[i].id \in DOMAIN nodes
  BY KidsThere, LenProperties
<1>. QED  BY <1>1, ApartKept DEF KidsApart, Neighbours

LEMMA WellFormedKept ==
  ASSUME NodesGrow, NEW node \in NodeRecord, KidIds(node.kids) \subseteq DOMAIN nodes,
         WellFormed(node)
  PROVE  WellFormed(node)'
<1>1. \A kid \in Range(node.kids) : kid.id \in DOMAIN nodes
  BY DEF KidIds, Range
<1>2. \A kid \in Range(node.kids) : nodes'[kid.id] = nodes[kid.id]
  BY <1>1 DEF NodesGrow
<1>. QED  BY <1>2 DEF WellFormed, Held

\* A node more.
LEMMA TreeGrows ==
  ASSUME Ready, Forest, WellFormedNodes, StatementsApart, tokens' = tokens,
         NEW node \in NodeRecord, nodes' = Append(nodes, node),
         KidIds(node.kids) \subseteq DOMAIN nodes,
         WellFormed(node), node.type \notin MayTouch => KidsApart(node.kids)
  PROVE  NodesGrow /\ WellFormedNodes' /\ StatementsApart'
<1>1. /\ NewId = Len(nodes) + 1 /\ Len(nodes) \in Nat
      /\ DOMAIN nodes' = 1..NewId /\ DOMAIN nodes = 1..(NewId - 1)
      /\ nodes'[NewId] = node
      /\ \A i \in DOMAIN nodes : nodes'[i] = nodes[i]
  BY OneMoreNode
<1>2. NodesGrow
  BY <1>1 DEF NodesGrow
<1>3. ASSUME NEW id \in DOMAIN nodes', NEW made, made = nodes'[id]
      PROVE  /\ made \in NodeRecord /\ KidIds(made.kids) \subseteq DOMAIN nodes
             /\ WellFormed(made) /\ (made.type \notin MayTouch => KidsApart(made.kids))
  <2>1. CASE id = NewId
    BY <1>1, <1>3, <2>1
  <2>2. CASE id \in DOMAIN nodes
    <3>1. made = nodes[id] /\ made \in NodeRecord
      BY <1>1, <1>3, <2>2, ElementOfSeq DEF Ready, TypeOK
    <3>2. KidIds(made.kids) \subseteq DOMAIN nodes
      BY <1>1, <2>2, <3>1 DEF Forest, NodesForest
    <3>3. WellFormed(made)
      BY <2>2, <3>1 DEF WellFormedNodes, NodeIds
    <3>4. made.type \notin MayTouch => KidsApart(made.kids)
      BY <2>2, <3>1 DEF StatementsApart, NodeIds, KidsApart
    <3>. QED  BY <3>1, <3>2, <3>3, <3>4
  <2>. QED  BY <1>1, <2>1, <2>2
<1>4. ASSUME NEW id \in DOMAIN nodes', NEW made, made = nodes'[id]
      PROVE  WellFormed(made)' /\ (made.type \notin MayTouch => KidsApart(made.kids)')
  <2>1. /\ made \in NodeRecord /\ KidIds(made.kids) \subseteq DOMAIN nodes
        /\ WellFormed(made) /\ (made.type \notin MayTouch => KidsApart(made.kids))
    BY <1>3, <1>4
  <2>2. made.kids \in Seq(Kid)
    BY <2>1 DEF NodeRecord
  <2>. QED  BY <1>2, <2>1, <2>2, WellFormedKept, ApartKidsKept
<1>5. WellFormedNodes'
  BY <1>4 DEF WellFormedNodes, NodeIds
<1>6. StatementsApart'
  BY <1>4 DEF StatementsApart, NodeIds, KidsApart
<1>. QED  BY <1>2, <1>5, <1>6

LEMMA TreeKept ==
  ASSUME WellFormedNodes, StatementsApart, tokens' = tokens, nodes' = nodes
  PROVE  NodesGrow /\ WellFormedNodes' /\ StatementsApart'
<1>1. WellFormedNodes'
  BY DEF WellFormedNodes, NodeIds, WellFormed, Held
<1>2. StatementsApart'
  BY DEF StatementsApart, NodeIds, Neighbours, StartApart, Line
<1>. QED  BY <1>1, <1>2 DEF NodesGrow

-----------------------------------------------------------------------------
(* Calls and their points                                                  *)

Sound == Ready /\ Forest /\ TreeInv

\* The point of the innermost call.
TopAt(point) ==
  /\ point \in Points /\ Right(point)
  /\ point.todo = Frame.todo /\ point.field = NamedFor(Frame.field)
  /\ Counted(FieldsOf(Frame.kids), point.kids.count) /\ Ends(FieldsOf(Frame.kids), point.kids)
  /\ RowsFit(FieldsOf(Frame.kids), Frame.kids, point.kids.rows)

LEMMA PointsClosed ==
  /\ Entered("module", "") \subseteq Points
  /\ \A point \in Points : Right(point) /\ Successors(point) \subseteq Points
  BY PointsAssumption DEF Points

\* Whether a kind of node is asked for does not depend on how often one looks.
LEMMA NamedAgain ==
  ASSUME NEW field
  PROVE  /\ NamedFor(NamedFor(field)) = NamedFor(field)
         /\ NamedFor(field) \in DOMAIN KindOf <=> field \in DOMAIN KindOf
         /\ field \in DOMAIN KindOf => NamedFor(field) = field
<1>1. "" \notin DOMAIN KindOf
  BY DEF KindOf
<1>. QED  BY <1>1 DEF NamedFor

LEMMA FrameFacts ==
  ASSUME NEW frame \in FrameRecord
  PROVE  /\ frame.todo \in Seq(Code) /\ frame.field \in Fields /\ frame.kids \in Seq(Kid)
         /\ frame.end \in Int /\ frame.start \in Int
  BY DEF FrameRecord

LEMMA StackFacts ==
  ASSUME Sound
  PROVE  /\ stack \in Seq(FrameRecord) /\ Top \in Nat /\ DOMAIN stack = 1..Top /\ Top = Len(stack)
         /\ \A k \in 1..Top : /\ stack[k] \in FrameRecord /\ stack[k].kids \in Seq(Kid)
                              /\ KidIds(stack[k].kids) \subseteq DOMAIN nodes
                              /\ stack[k].field \in Fields
                              /\ OfKinds(stack[k].kids)
         /\ PointInv /\ KindInv
<1>1. /\ stack \in Seq(FrameRecord) /\ Top \in Nat /\ DOMAIN stack = 1..Top /\ Top = Len(stack)
  BY NodeNumbers DEF Sound, Ready, TypeOK, Top
<1>2. \A k \in 1..Top : stack[k] \in FrameRecord
  BY <1>1
<1>3. \A k \in 1..Top : KidIds(stack[k].kids) \subseteq DOMAIN nodes
  BY <1>1 DEF Sound, Forest, HoldsNodes, Owned
<1>. QED  BY <1>1, <1>2, <1>3, FrameFacts DEF Sound, TreeInv, KindInv

LEMMA TopFacts ==
  ASSUME Sound, outcome = "running"
  PROVE  /\ Top \in 1..Len(stack) /\ Frame = stack[Top] /\ Frame \in FrameRecord
         /\ Frame.kids \in Seq(Kid) /\ KidIds(Frame.kids) \subseteq DOMAIN nodes
         /\ Frame.todo \in Seq(Code) /\ Frame.field \in Fields
         /\ OfKinds(Frame.kids) /\ FieldsOf(Frame.kids) \in Seq(Fields)
         /\ \E point : TopAt(point)
<1>1. Top \in 1..Len(stack) /\ Frame = stack[Top] /\ Frame \in FrameRecord /\ Top \in DOMAIN stack
  BY TopFrame, StackFacts DEF Sound, Frame
<1>2. Frame.kids \in Seq(Kid) /\ KidIds(Frame.kids) \subseteq DOMAIN nodes /\ OfKinds(Frame.kids)
      /\ Frame.todo \in Seq(Code) /\ Frame.field \in Fields
  BY <1>1, StackFacts, FrameFacts
<1>3. \E point : IsAt(Top, point)
  BY <1>1 DEF Sound, TreeInv, PointInv, AtPoint
<1>4. Expected(Top) = FieldsOf(Frame.kids)
  BY <1>1 DEF Expected
<1>5. \E point : TopAt(point)
  BY <1>1, <1>3, <1>4, PointsClosed DEF IsAt, TopAt
<1>. QED  BY <1>1, <1>2, <1>5, FieldSequence

\* The innermost call does its next step.
LEMMA TopDoes ==
  ASSUME Sound, NEW op, Does(op)
  PROVE  /\ outcome = "running" /\ Step \in Code /\ Step.op = op /\ After \in Seq(Code)
         /\ \E point : TopAt(point)
         /\ \A point : TopAt(point) => /\ point.todo # <<>> /\ Head(point.todo) = Step
                                       /\ Tail(point.todo) = After
                                       /\ Successors(point) \subseteq Points
<1>1. outcome = "running" /\ Step \in Code /\ Step.op = op /\ After \in Seq(Code)
  BY TopStep DEF Sound
<1>2. Frame.todo # <<>>
  BY DEF Does
<1>. QED  BY <1>1, <1>2, TopFacts, PointsClosed DEF TopAt, Step, After

\* A call that is not disturbed stays where it is.
LEMMA CallStays ==
  ASSUME Sound, NodesGrow, NEW k \in 1..Top, stack'[k] = stack[k], Expected(k)' = Expected(k)
  PROVE  AtPoint(k)'
<1>1. PICK point : IsAt(k, point)
  BY StackFacts DEF PointInv, AtPoint
<1>2. Expected(k) \in Seq(Fields)
  <2>1. FieldsOf(stack[k].kids) \in Seq(Fields)
    BY StackFacts, FieldSequence
  <2>2. CASE k = Top
    BY <2>1, <2>2 DEF Expected
  <2>3. CASE k # Top
    <3>1. stack[k + 1].field \in Fields
      BY <2>3, StackFacts
    <3>. QED  BY <2>1, <2>3, <3>1, AppendProperties DEF Expected
  <2>. QED  BY <2>2, <2>3
<1>3. RowsFit(Expected(k), stack[k].kids, point.kids.rows)'
  <2>1. PICK fields \in Seq(Fields) : fields = Expected(k)
    BY <1>2
  <2>2. PICK kids \in Seq(Kid) : kids = stack[k].kids
    BY StackFacts
  <2>3. RowsFit(fields, kids, point.kids.rows)
    BY <1>1, <2>1, <2>2 DEF IsAt
  <2>4. RowsFit(fields, kids, point.kids.rows)'
    BY <2>2, <2>3, StackFacts, RowsKept
  <2>. QED  BY <2>1, <2>2, <2>4
<1>4. IsAt(k, point)'
  BY <1>1, <1>3 DEF IsAt
<1>. QED  BY <1>4 DEF AtPoint

LEMMA OuterCallStays ==
  ASSUME Sound, NodesGrow, NEW k \in 1..(Top - 1), k < Top', stack'[k] = stack[k],
         stack'[k + 1].field = stack[k + 1].field
  PROVE  AtPoint(k)'
<1>1. k \in 1..Top /\ k # Top /\ k # Top'
  BY StackFacts
<1>2. Expected(k)' = Expected(k)
  BY <1>1 DEF Expected, FieldsOf
<1>. QED  BY <1>1, <1>2, CallStays

\* The innermost call goes on, with other children perhaps.
LEMMA TopGoesTo ==
  ASSUME Sound, outcome = "running", NodesGrow,
         NEW frame \in FrameRecord, stack' = [stack EXCEPT ![Top] = frame],
         frame.field = Frame.field, NEW point \in Points,
         point.todo = frame.todo, point.field = NamedFor(frame.field),
         Counted(FieldsOf(frame.kids), point.kids.count), Ends(FieldsOf(frame.kids), point.kids),
         RowsFit(FieldsOf(frame.kids), frame.kids, point.kids.rows)',
         OfKinds(frame.kids)'
  PROVE  PointInv' /\ KindInv'
<1>1. /\ stack' \in Seq(FrameRecord) /\ Len(stack') = Top /\ stack'[Top] = frame
      /\ \A k \in 1..(Top - 1) : stack'[k] = stack[k]
  BY ReplaceTop DEF Sound
<1>2. Top' = Top /\ DOMAIN stack' = 1..Top /\ Top \in 1..Top /\ Top \in Nat
  BY <1>1, TopFacts, StackFacts, LenProperties DEF Top
<1>3. ASSUME NEW k \in 1..(Top - 1) PROVE AtPoint(k)' /\ OfKinds(stack[k].kids)'
  <2>1. k < Top' /\ stack'[k] = stack[k] /\ k \in 1..Top
    BY <1>1, <1>2
  <2>2. stack'[k + 1].field = stack[k + 1].field
    <3>1. CASE k + 1 = Top
      BY <1>1, <3>1 DEF Frame
    <3>2. CASE k + 1 # Top
      BY <1>1, <1>2, <3>2
    <3>. QED  BY <3>1, <3>2
  <2>3. PICK kids \in Seq(Kid) : kids = stack[k].kids
    BY <2>1, StackFacts
  <2>4. OfKinds(kids)'
    BY <2>1, <2>3, StackFacts, KindsKept
  <2>. QED  BY <2>1, <2>2, <2>3, <2>4, OuterCallStays
<1>4. AtPoint(Top)'
  <2>1. Expected(Top)' = FieldsOf(frame.kids)
    BY <1>1, <1>2 DEF Expected, FieldsOf
  <2>2. IsAt(Top, point)'
    BY <1>1, <1>2, <2>1 DEF IsAt
  <2>. QED  BY <2>2 DEF AtPoint
<1>5. OfKinds(stack[Top].kids)'
  BY <1>1, <1>2
<1>6. \A k \in DOMAIN stack' : k = Top \/ k \in 1..(Top - 1)
  BY <1>2
<1>7. PointInv'
  BY <1>2, <1>3, <1>4, <1>6 DEF PointInv
<1>8. KindInv'
  BY <1>2, <1>3, <1>5, <1>6 DEF KindInv
<1>. QED  BY <1>7, <1>8

\* The innermost call does a step, which may take children away or call them otherwise.
LEMMA TopTurnsTo ==
  ASSUME Sound, outcome = "running", tokens' = tokens, nodes' = nodes,
         NEW frame \in FrameRecord, stack' = [stack EXCEPT ![Top] = frame],
         frame.field = Frame.field, KidIds(frame.kids) \subseteq KidIds(Frame.kids),
         OfKinds(frame.kids), NEW point, TopAt(point), NEW known,
         Point(frame.todo, point.field, known) \in Successors(point),
         Counted(FieldsOf(frame.kids), known.count), Ends(FieldsOf(frame.kids), known),
         RowsFit(FieldsOf(frame.kids), frame.kids, known.rows)
  PROVE  TreeInv'
<1>1. NodesGrow /\ WellFormedNodes' /\ StatementsApart'
  BY TreeKept DEF Sound, TreeInv
<1> DEFINE next == Point(frame.todo, point.field, known)
<1>2. /\ next \in Points /\ next.todo = frame.todo /\ next.kids = known
      /\ next.field = NamedFor(frame.field)
  BY PointsClosed DEF TopAt, Point
<1> HIDE DEF next
<1>3. PICK kids \in Seq(Kid) : kids = frame.kids
  BY FrameFacts
<1>4. PICK fields \in Seq(Fields) : fields = FieldsOf(kids)
  BY FieldSequence
<1>5. KidIds(kids) \subseteq DOMAIN nodes /\ OfKinds(kids) /\ RowsFit(fields, kids, known.rows)
  BY <1>3, <1>4, TopFacts
<1>6. RowsFit(fields, kids, known.rows)' /\ OfKinds(kids)'
  BY <1>1, <1>5, RowsKept, KindsKept
<1>7. PointInv' /\ KindInv'
  BY <1>1, <1>2, <1>3, <1>4, <1>6, TopGoesTo
<1>. QED  BY <1>1, <1>7 DEF TreeInv

\* It keeps its children, of which the step may say more.
LEMMA TopContinues ==
  ASSUME Sound, outcome = "running", tokens' = tokens, nodes' = nodes,
         NEW frame \in FrameRecord, stack' = [stack EXCEPT ![Top] = frame],
         frame.field = Frame.field, frame.kids = Frame.kids,
         NEW point, TopAt(point), NEW known,
         Point(frame.todo, point.field, known) \in Successors(point),
         Counted(FieldsOf(Frame.kids), known.count), Ends(FieldsOf(Frame.kids), known),
         RowsFit(FieldsOf(Frame.kids), Frame.kids, known.rows)
  PROVE  TreeInv'
<1>1. OfKinds(frame.kids) /\ KidIds(frame.kids) \subseteq KidIds(Frame.kids)
  BY TopFacts
<1>. QED  BY <1>1, TopTurnsTo

LEMMA TopJustContinues ==
  ASSUME Sound, outcome = "running", tokens' = tokens, nodes' = nodes,
         NEW todo \in Seq(Code), Continue(todo), NEW point, TopAt(point),
         Point(todo, point.field, point.kids) \in Successors(point)
  PROVE  TreeInv'
<1> DEFINE frame == [Frame EXCEPT !.todo = todo]
<1>1. frame \in FrameRecord /\ stack' = [stack EXCEPT ![Top] = frame]
  BY ContinueTop DEF Sound
<1>2. frame.field = Frame.field /\ frame.kids = Frame.kids /\ frame.todo = todo
  BY TopFacts DEF FrameRecord
<1> HIDE DEF frame
<1>. QED  BY <1>1, <1>2, TopContinues DEF TopAt

\* Nothing happens to the calls.
LEMMA NothingMoves ==
  ASSUME Sound, tokens' = tokens, nodes' = nodes, stack' = stack
  PROVE  TreeInv'
<1>1. NodesGrow /\ WellFormedNodes' /\ StatementsApart'
  BY TreeKept DEF Sound, TreeInv
<1>2. ASSUME NEW k \in DOMAIN stack' PROVE AtPoint(k)' /\ OfKinds(stack[k].kids)'
  <2>1. k \in 1..Top /\ stack'[k] = stack[k]
    BY StackFacts
  <2>2. Expected(k)' = Expected(k)
    BY DEF Expected, FieldsOf, Top
  <2>3. PICK kids \in Seq(Kid) : kids = stack[k].kids
    BY <2>1, StackFacts
  <2>4. OfKinds(kids)'
    BY <1>1, <2>1, <2>3, StackFacts, KindsKept
  <2>. QED  BY <1>1, <2>1, <2>2, <2>3, <2>4, CallStays
<1>. QED  BY <1>1, <1>2 DEF TreeInv, PointInv, KindInv

\* The calls that a method enters are at the points where it begins.
LEMMA RowsShort ==
  ASSUME NEW fields \in Seq(Fields), Len(fields) \in 0..1, NEW kids, NEW rows
  PROVE  RowsFit(fields, kids, rows) /\ RowsFit(fields, kids, rows)'
<1>1. \A i, j \in 1..Len(fields) : ~InOneList(fields, i, j)
  BY DEF InOneList
<1>. QED  BY <1>1 DEF RowsFit, InOneList

LEMMA EnteredNamed ==
  ASSUME NEW rule, NEW field
  PROVE  Entered(rule, NamedFor(field)) = Entered(rule, field)
<1>1. \A i \in 1..Len(Opening[rule]) :
        NamedFor(IF i = 1 THEN NamedFor(field) ELSE Opening[rule][i].field)
          = NamedFor(IF i = 1 THEN field ELSE Opening[rule][i].field)
  BY NamedAgain
<1>. QED  BY <1>1 DEF Entered

\* The fields of the children of a call that has just been entered, once the next
\* one has returned.
Awaited(calls, i) == IF i = Len(calls) THEN <<>> ELSE <<calls[i + 1].field>>
LEMMA CallsEntered ==
  ASSUME NEW rule \in Rules, NEW field \in Fields, NEW start \in Int, NEW exact \in BOOLEAN,
         NEW calls, calls = Calls(rule, field, start, exact), NEW i \in 1..Len(calls),
         Entered(rule, field) \subseteq Points
  PROVE  /\ Awaited(calls, i) \in Seq(Fields) /\ Len(Awaited(calls, i)) \in 0..1
         /\ \E point \in Points :
              /\ point.todo = calls[i].todo /\ point.field = NamedFor(calls[i].field)
              /\ Counted(Awaited(calls, i), point.kids.count)
              /\ Ends(Awaited(calls, i), point.kids)
<1> DEFINE fields == Awaited(calls, i)
           opening == Opening[rule]
           f == IF i = 1 THEN field ELSE opening[i].field
           kids == IF i = Len(opening) THEN NoKids ELSE OnlyKid(opening[i + 1].field)
<1>1. calls \in Seq(FrameRecord)
  BY CallsAreFrames
<1>2. Len(opening) \in Nat /\ Len(calls) = Len(opening)
  <2>1. opening \in Seq([todo : Seq(Code), field : Fields])
    BY GrammarAssumption, Zenon
  <2>2. Len(opening) \in Nat
    BY <2>1, LenProperties
  <2>. QED  BY <2>2 DEF Calls
<1>3. \A j \in 1..Len(opening) :
        /\ calls[j].todo = opening[j].todo
        /\ calls[j].field = IF j = 1 THEN field ELSE opening[j].field
  BY DEF Calls
<1>4. Point(opening[i].todo, NamedFor(f), kids) \in Points
  <2>1. Point(opening[i].todo, NamedFor(f), kids) \in Entered(rule, field)
    BY <1>2 DEF Entered
  <2>. QED  BY <2>1
<1> DEFINE next == Point(opening[i].todo, NamedFor(f), kids)
<1>5. /\ next \in Points /\ next.todo = calls[i].todo /\ next.kids = kids
      /\ next.field = NamedFor(calls[i].field)
  BY <1>2, <1>3, <1>4 DEF Point
<1> HIDE DEF next
<1>6. CASE i = Len(calls)
  <2>1. kids = NoKids /\ fields = <<>>
    BY <1>2, <1>6 DEF Awaited
  <2> HIDE DEF fields
  <2>2. <<>> \in Seq(Fields) /\ Len(<<>>) = 0
    OBVIOUS
  <2>3. Counted(fields, kids.count) /\ Ends(fields, kids)
    BY <2>1, FitNone
  <2> HIDE DEF kids
  <2>. QED  BY <1>5, <2>1, <2>2, <2>3 DEF fields
<1>7. CASE i # Len(calls)
  <2>1. i + 1 \in 1..Len(opening) /\ i + 1 # 1
    BY <1>2, <1>7
  <2>2. kids = OnlyKid(calls[i + 1].field) /\ fields = <<calls[i + 1].field>>
    BY <1>2, <1>3, <1>7, <2>1 DEF Awaited
  <2> HIDE DEF fields
  <2>3. calls[i + 1].field \in Fields
    <3>1. calls[i + 1] \in FrameRecord
      BY <1>1, <1>2, <2>1, ElementOfSeq
    <3>. QED  BY <3>1, FrameFacts
  <2>4. Counted(fields, kids.count) /\ Ends(fields, kids)
    BY <2>2, FitOnly
  <2>5. fields \in Seq(Fields) /\ Len(fields) = 1
    BY <2>2, <2>3
  <2> HIDE DEF kids
  <2>. QED  BY <1>5, <2>4, <2>5 DEF fields
<1> HIDE DEF fields
<1>. QED  BY <1>6, <1>7 DEF fields

\* They are put on top of the calls that go on.
OnTop(base, b, field, calls) ==
  /\ Top' = b + Len(calls) /\ Len(calls) \in Nat \ {0}
  /\ \A k \in 1..b : stack'[k] = base[k]
  /\ stack'[b + 1].field = field
  /\ DOMAIN stack' = 1..(b + Len(calls))
  /\ \A k \in (b + 1)..(b + Len(calls)) : AtPoint(k)' /\ OfKinds(stack[k].kids)'
LEMMA CallsAtPoints ==
  ASSUME NEW rule \in Rules, NEW field \in Fields, NEW start \in Int, NEW exact \in BOOLEAN,
         Entered(rule, field) \subseteq Points,
         NEW base \in Seq(FrameRecord), NEW b, b = Len(base),
         NEW calls, calls = Calls(rule, field, start, exact), stack' = base \o calls
  PROVE  OnTop(base, b, field, calls)
<1> DEFINE c == Len(calls)
<1>1. calls \in Seq(FrameRecord) /\ c \in Nat \ {0} /\ b \in Nat
      /\ \A i \in 1..c : calls[i].kids = <<>>
  BY CallsAreFrames, LenProperties
<1>2. /\ stack' \in Seq(FrameRecord) /\ Len(stack') = b + c
      /\ \A k \in 1..(b + c) : stack'[k] = IF k <= b THEN base[k] ELSE calls[k - b]
  BY <1>1, ConcatProperties
<1>3. Top' = b + c /\ DOMAIN stack' = 1..(b + c)
  BY <1>2, LenProperties DEF Top
<1> HIDE DEF c
<1>4. calls[1].field = field
  <2>1. DOMAIN calls = 1..Len(Opening[rule]) /\ DOMAIN calls = 1..c /\ 1 \in 1..c
    BY <1>1, LenProperties DEF Calls, c
  <2>. QED  BY <2>1 DEF Calls
<1>5. stack'[b + 1].field = field
  <2>1. b + 1 \in 1..(b + c) /\ ~(b + 1 <= b) /\ (b + 1) - b = 1
    BY <1>1
  <2>2. stack'[b + 1] = calls[1]
    BY <1>2, <2>1
  <2>. QED  BY <1>4, <2>2
<1>6. ASSUME NEW k \in (b + 1)..(b + c) PROVE AtPoint(k)' /\ OfKinds(stack[k].kids)'
  <2>1. k - b \in 1..c /\ stack'[k] = calls[k - b] /\ stack'[k].kids = <<>>
    BY <1>1, <1>2
  <2>2. PICK i \in 1..c : i = k - b
    BY <2>1
  <2> DEFINE fields == Awaited(calls, i)
  <2> HIDE DEF fields
  <2>3. i \in 1..Len(calls)
    BY DEF c
  <2>4. fields \in Seq(Fields) /\ Len(fields) \in 0..1
    BY <2>3, CallsEntered DEF fields
  <2>5. PICK point \in Points :
          /\ point.todo = calls[i].todo /\ point.field = NamedFor(calls[i].field)
          /\ Counted(fields, point.kids.count) /\ Ends(fields, point.kids)
    BY <2>3, CallsEntered DEF fields
  <2>6. Expected(k)' = fields
    <3>1. FieldsOf(stack[k].kids)' = <<>>
      BY <2>1 DEF FieldsOf
    <3>2. CASE i = c
      <4>1. k = Top'
        BY <1>1, <1>3, <2>2, <3>2
      <4>. QED  BY <3>1, <3>2, <4>1 DEF Expected, Awaited, fields, c
    <3>3. CASE i # c
      <4>1. k # Top' /\ k + 1 \in 1..(b + c) /\ (k + 1) - b = i + 1 /\ ~(k + 1 <= b)
        BY <1>1, <1>3, <2>2, <3>3
      <4>2. stack'[k + 1] = calls[i + 1]
        BY <1>2, <4>1
      <4>3. Append(<<>>, calls[i + 1].field) = <<calls[i + 1].field>>
        OBVIOUS
      <4>. QED  BY <3>1, <3>3, <4>1, <4>2, <4>3 DEF Expected, Awaited, fields, c
    <3>. QED  BY <3>2, <3>3
  <2>7. RowsFit(fields, stack[k].kids, point.kids.rows)'
    <3>1. PICK kids : kids = stack'[k].kids
      OBVIOUS
    <3>2. RowsFit(fields, kids, point.kids.rows)'
      BY <2>4, RowsShort
    <3>. QED  BY <3>1, <3>2
  <2>8. IsAt(k, point)'
    BY <2>1, <2>2, <2>5, <2>6, <2>7 DEF IsAt
  <2>. QED  BY <2>1, <2>8 DEF AtPoint, OfKinds
<1>7. \A k \in 1..b : stack'[k] = base[k]
  BY <1>1, <1>2
<1>. QED  BY <1>1, <1>3, <1>5, <1>6, <1>7 DEF c, OnTop

-----------------------------------------------------------------------------
(* The points behind each step                                             *)

LEMMA BehindStep ==
  ASSUME NEW point, point.todo # <<>>,
         Head(point.todo).op \in {"advance", "take", "early", "start", "open_module", "reread",
                                  "while", "switch"}
  PROVE  Point(Tail(point.todo), point.field, point.kids) \in Successors(point)
  BY DEF Successors

LEMMA BehindRequire ==
  ASSUME NEW point, point.todo # <<>>, Head(point.todo).op = "require",
         MayPass(Head(point.todo).test, point.kids)
  PROVE  Point(Tail(point.todo), point.field, Known(Head(point.todo).test, point.kids))
           \in Successors(point)
  BY DEF Successors

LEMMA BehindChoose ==
  ASSUME NEW point, point.todo # <<>>, Head(point.todo).op = "choose",
         NEW cases, cases = Head(point.todo).cases
  PROVE  /\ \A i \in DOMAIN cases :
              Point(cases[i].code \o Tail(point.todo), point.field, point.kids)
                \in Successors(point)
         /\ (\A i \in DOMAIN cases : cases[i].test.test # "always") =>
              Point(Tail(point.todo), point.field, point.kids) \in Successors(point)
  BY DEF Successors

LEMMA BehindWhile ==
  ASSUME NEW point, point.todo # <<>>, Head(point.todo).op = "while"
  PROVE  Point(Head(point.todo).code \o point.todo, point.field, point.kids)
           \in Successors(point)
  BY DEF Successors

LEMMA BehindParse ==
  ASSUME NEW point, point.todo # <<>>, NEW step, step = Head(point.todo), step.op = "parse"
  PROVE  /\ Point(Tail(point.todo), point.field, WithKid(point.kids, step.field))
              \in Successors(point)
         /\ Entered(step.rule, step.field) \subseteq Successors(point)
  BY DEF Successors

LEMMA BehindGoto ==
  ASSUME NEW point, point.todo # <<>>, NEW step, step = Head(point.todo), step.op = "goto"
  PROVE  Entered(step.rule, point.field) \subseteq Successors(point)
  BY DEF Successors

LEMMA BehindSwitch ==
  ASSUME NEW point, point.todo # <<>>, NEW step, step = Head(point.todo), step.op = "switch",
         NEW row \in Switches[step.table]
  PROVE  Entered(row.rule, point.field) \subseteq Successors(point)
  BY DEF Successors

LEMMA BehindWrap ==
  ASSUME NEW point, point.todo # <<>>, Head(point.todo).op = "wrap"
  PROVE  Point(Tail(point.todo), point.field, OnlyKid(point.kids.first)) \in Successors(point)
  BY DEF Successors

LEMMA BehindRelabel ==
  ASSUME NEW point, point.todo # <<>>, NEW step, step = Head(point.todo), step.op = "relabel"
  PROVE  Point(Tail(point.todo), point.field, OnlyKid(step.field)) \in Successors(point)
  BY DEF Successors

LEMMA BehindOverwrite ==
  ASSUME NEW point, point.todo # <<>>, NEW step, step = Head(point.todo), step.op = "overwrite"
  PROVE  Point(Tail(point.todo), point.field, Overwritten(point.kids, step.field))
           \in Successors(point)
  BY DEF Successors

-----------------------------------------------------------------------------
(* The steps                                                               *)

LEMMA ReadAnyTree == ASSUME Sound, ReadAny PROVE TreeInv'
<1>1. /\ outcome = "running" /\ Step.op = "advance" /\ After \in Seq(Code)
      /\ Continue(After) /\ tokens' = tokens /\ nodes' = nodes
  BY TopDoes DEF ReadAny, Output
<1>2. PICK point : TopAt(point)
  BY TopDoes DEF ReadAny
<1>3. point.todo # <<>> /\ Head(point.todo) = Step /\ Tail(point.todo) = After
  BY <1>2, TopDoes DEF ReadAny
<1>4. Point(After, point.field, point.kids) \in Successors(point)
  BY <1>1, <1>3, BehindStep
<1>. QED  BY <1>1, <1>2, <1>4, TopJustContinues

LEMMA RefuseTree == ASSUME Sound, Refuse PROVE TreeInv'
  BY NothingMoves DEF Refuse

LEMMA ReadTypeTree == ASSUME Sound, ReadType PROVE TreeInv'
<1>1. ASSUME Continue(After), UNCHANGED Output PROVE TreeInv'
  <2>1. /\ outcome = "running" /\ Step.op = "take" /\ After \in Seq(Code)
        /\ tokens' = tokens /\ nodes' = nodes
    BY <1>1, TopDoes DEF ReadType, Output
  <2>2. PICK point : TopAt(point)
    BY TopDoes DEF ReadType
  <2>3. point.todo # <<>> /\ Head(point.todo) = Step /\ Tail(point.todo) = After
    BY <2>2, TopDoes DEF ReadType
  <2>4. Point(After, point.field, point.kids) \in Successors(point)
    BY <2>1, <2>3, BehindStep
  <2>. QED  BY <1>1, <2>1, <2>2, <2>4, TopJustContinues
<1>. QED  BY <1>1, RefuseTree DEF ReadType

\* The test that is passed says what Known makes of it.
LEMMA CheckTree == ASSUME Sound, Check PROVE TreeInv'
<1>1. ASSUME Holds(Step.test, Frame), Continue(After), UNCHANGED Output PROVE TreeInv'
  <2>1. /\ outcome = "running" /\ Step.op = "require" /\ After \in Seq(Code)
        /\ tokens' = tokens /\ nodes' = nodes
    BY <1>1, TopDoes DEF Check, Output
  <2>2. PICK point : TopAt(point)
    BY TopDoes DEF Check
  <2>3. point.todo # <<>> /\ Head(point.todo) = Step /\ Tail(point.todo) = After
    BY <2>2, TopDoes DEF Check
  <2> DEFINE kids   == Frame.kids
             n      == Len(kids)
             fields == FieldsOf(kids)
             known  == Known(Step.test, point.kids)
  <2>4. /\ kids \in Seq(Kid) /\ n \in Nat /\ Len(fields) = n /\ fields \in Seq(Fields)
        /\ \A i \in 1..n : fields[i] = kids[i].field
    BY <2>1, TopFacts, FieldSequence
  <2>5. /\ Counted(fields, point.kids.count) /\ Ends(fields, point.kids)
        /\ RowsFit(fields, kids, point.kids.rows)
    BY <2>2 DEF TopAt
  <2>6. MayPass(Step.test, point.kids)
    <3>1. SUFFICES ASSUME Step.test.test = "without" PROVE Step.test.field \notin DOMAIN point.kids.count
      BY DEF MayPass
    <3>2. \A i \in 1..n : kids[i].field # Step.test.field
      BY <1>1, <3>1 DEF Holds
    <3>. QED  BY <2>4, <2>5, <3>2 DEF Counted
  <2>7. /\ known.first = point.kids.first /\ known.last = point.kids.last
        /\ known.count = point.kids.count
        /\ known.rows = IF /\ Step.test.test = "separated" /\ point.kids.rows = "late"
                           /\ point.kids.last \in Step.test.fields
                        THEN "apart" ELSE point.kids.rows
    BY DEF Known
  <2>8. Point(After, point.field, known) \in Successors(point)
    BY <2>1, <2>3, <2>6, BehindRequire
  <2> HIDE DEF known
  <2>9. Counted(fields, known.count) /\ Ends(fields, known)
    BY <2>5, <2>7 DEF Ends
  <2>10. RowsFit(fields, kids, known.rows)
    <3>1. CASE known.rows = point.kids.rows
      BY <2>5, <3>1
    <3>2. CASE /\ Step.test.test = "separated" /\ point.kids.rows = "late"
               /\ point.kids.last \in Step.test.fields /\ known.rows = "apart"
      <4>1. SUFFICES ASSUME NEW i \in 1..n, NEW j \in 1..n, InOneList(fields, i, j)
                     PROVE  j <= n /\ StartApart(kids[i].id, kids[j].id)
        BY <2>4 DEF RowsFit
      <4>2. \/ j = n /\ i = j - 1
            \/ j <= n /\ StartApart(kids[i].id, kids[j].id)
        BY <2>4, <2>5, <3>2, <4>1 DEF RowsFit
      <4>3. ASSUME j = n, i = j - 1 PROVE Apart(kids[n - 1].id, kids[n].id)
        <5>1. n > 1 /\ n - 1 \in 1..n /\ n \in 1..n
          BY <2>4, <4>1, <4>3
        <5>2. fields[n] = point.kids.last /\ fields[n - 1] = fields[n]
          BY <2>4, <2>5, <4>1, <4>3, <5>1 DEF Ends, InOneList
        <5>3. {kids[n - 1].field, kids[n].field} \subseteq Step.test.fields
          BY <2>4, <3>2, <5>1, <5>2
        <5>. QED  BY <1>1, <3>2, <5>1, <5>3 DEF Holds
      <4>. QED  BY <4>1, <4>2, <4>3, <2>4 DEF Apart, StartApart
    <3>. QED  BY <2>7, <3>1, <3>2
  <2> DEFINE frame == [Frame EXCEPT !.todo = After]
  <2>11. frame \in FrameRecord /\ stack' = [stack EXCEPT ![Top] = frame]
    BY <1>1, <2>1, ContinueTop DEF Sound
  <2>12. frame.field = Frame.field /\ frame.kids = Frame.kids /\ frame.todo = After
    BY <2>1, TopFacts DEF FrameRecord
  <2> HIDE DEF frame
  <2>. QED  BY <2>1, <2>2, <2>8, <2>9, <2>10, <2>11, <2>12, TopContinues
<1>. QED  BY <1>1, RefuseTree DEF Check

LEMMA BranchTree == ASSUME Sound, Branch PROVE TreeInv'
<1>1. /\ outcome = "running" /\ Step \in Code /\ Step.op = "choose" /\ After \in Seq(Code)
      /\ tokens' = tokens /\ nodes' = nodes
  BY TopDoes DEF Branch, Output
<1>2. PICK point : TopAt(point)
  BY TopDoes DEF Branch
<1>3. point.todo # <<>> /\ Head(point.todo) = Step /\ Tail(point.todo) = After
  BY <1>2, TopDoes DEF Branch
<1>4. ASSUME NEW i \in DOMAIN Step.cases, Continue(Step.cases[i].code \o After)
      PROVE  TreeInv'
  <2>1. Step.cases[i].code \o After \in Seq(Code)
    BY <1>1, CodeAssumption, ConcatProperties
  <2>2. Point(Step.cases[i].code \o After, point.field, point.kids) \in Successors(point)
    BY <1>1, <1>3, BehindChoose
  <2>. QED  BY <1>1, <1>2, <1>4, <2>1, <2>2, TopJustContinues
<1>5. ASSUME \A i \in DOMAIN Step.cases : ~Holds(Step.cases[i].test, Frame), Continue(After)
      PROVE  TreeInv'
  <2>1. \A test : test.test = "always" => Holds(test, Frame)
    BY DEF Holds
  <2>2. \A i \in DOMAIN Step.cases : Step.cases[i].test.test # "always"
    BY <1>5, <2>1
  <2>3. Point(After, point.field, point.kids) \in Successors(point)
    BY <1>1, <1>3, <2>2, BehindChoose
  <2>. QED  BY <1>1, <1>2, <1>5, <2>3, TopJustContinues
<1>. QED  BY <1>4, <1>5 DEF Branch

LEMMA LoopTree == ASSUME Sound, Loop PROVE TreeInv'
<1>1. /\ outcome = "running" /\ Step \in Code /\ Step.op = "while" /\ After \in Seq(Code)
      /\ tokens' = tokens /\ nodes' = nodes
  BY TopDoes DEF Loop, Output
<1>2. PICK point : TopAt(point)
  BY TopDoes DEF Loop
<1>3. /\ point.todo # <<>> /\ Head(point.todo) = Step /\ Tail(point.todo) = After
      /\ point.todo = Frame.todo
  BY <1>2, TopDoes DEF Loop, TopAt
<1>4. Step.code \o Frame.todo \in Seq(Code)
  BY <1>1, TopFacts, CodeAssumption, ConcatProperties
<1>5. /\ Point(After, point.field, point.kids) \in Successors(point)
      /\ Point(Step.code \o Frame.todo, point.field, point.kids) \in Successors(point)
  <2>1. Point(After, point.field, point.kids) \in Successors(point)
    BY <1>1, <1>3, BehindStep
  <2>. QED  BY <1>1, <1>3, <2>1, BehindWhile
<1>6. Continue(After) \/ Continue(Step.code \o Frame.todo)
  BY DEF Loop
<1>. QED  BY <1>1, <1>2, <1>4, <1>5, <1>6, TopJustContinues

\* Calls begin in place of the innermost one, or on top of it.
LEMMA CallTree == ASSUME Sound, Call PROVE TreeInv'
<1>1. /\ outcome = "running" /\ Step \in Code /\ Step.op = "parse" /\ After \in Seq(Code)
      /\ tokens' = tokens /\ nodes' = nodes
  BY TopDoes DEF Call, Output
<1>2. PICK point : TopAt(point)
  BY TopDoes DEF Call
<1>3. /\ point.todo # <<>> /\ Head(point.todo) = Step /\ Tail(point.todo) = After
      /\ Successors(point) \subseteq Points
  BY <1>2, TopDoes DEF Call
<1>4. Step.rule \in Rules /\ Step.field \in Fields /\ Step.own \in BOOLEAN
  BY <1>1, CodeAssumption
<1>5. /\ Top \in 1..Len(stack) /\ Frame = stack[Top] /\ Frame \in FrameRecord
      /\ Frame.kids \in Seq(Kid) /\ FieldsOf(Frame.kids) \in Seq(Fields)
      /\ KidIds(Frame.kids) \subseteq DOMAIN nodes /\ OfKinds(Frame.kids)
  BY <1>1, TopFacts
<1>6. stack \in Seq(FrameRecord) /\ Top \in Nat /\ Top = Len(stack) /\ DOMAIN stack = 1..Top
  BY StackFacts
<1>7. NodesGrow /\ WellFormedNodes' /\ StatementsApart'
  BY <1>1, TreeKept DEF Sound, TreeInv
<1> DEFINE start == IF Step.own THEN index ELSE Frame.start
           frame == [Frame EXCEPT !.todo = After]
           base  == [stack EXCEPT ![Top] = frame]
           calls == Calls(Step.rule, Step.field, start, Step.own)
<1>8. stack' = base \o calls
  BY DEF Call, Frame
<1>9. start \in Int
  BY <1>5, FrameFacts, TokensThere DEF Sound
<1>10. /\ frame \in FrameRecord /\ frame.kids = Frame.kids /\ frame.field = Frame.field
       /\ frame.todo = After
  BY <1>1, <1>5 DEF FrameRecord
<1> HIDE DEF start, frame, base, calls
<1>11. /\ base \in Seq(FrameRecord) /\ Len(base) = Top /\ base[Top] = frame
       /\ \A k \in 1..(Top - 1) : base[k] = stack[k]
  BY <1>5, <1>6, <1>10, ExceptSeq DEF base
<1>12. Entered(Step.rule, Step.field) \subseteq Points
  BY <1>1, <1>3, BehindParse
<1>0. PICK t \in Nat : t = Top
  BY <1>6
<1>13. /\ Top' = t + Len(calls) /\ Len(calls) \in Nat \ {0}
       /\ \A k \in 1..t : stack'[k] = base[k]
       /\ stack'[t + 1].field = Step.field
       /\ DOMAIN stack' = 1..(t + Len(calls))
       /\ \A k \in (t + 1)..(t + Len(calls)) : AtPoint(k)' /\ OfKinds(stack[k].kids)'
  <2>1. PICK rule \in Rules, field \in Fields, own \in BOOLEAN, begin \in Int :
          rule = Step.rule /\ field = Step.field /\ own = Step.own /\ begin = start
    BY <1>4, <1>9
  <2>2. PICK below \in Seq(FrameRecord) : below = base
    BY <1>11
  <2>4. PICK entered : entered = calls
    OBVIOUS
  <2>3. /\ t = Len(below) /\ entered = Calls(rule, field, begin, own)
        /\ stack' = below \o entered /\ Entered(rule, field) \subseteq Points
    BY <1>0, <1>8, <1>11, <1>12, <2>1, <2>2, <2>4 DEF calls
  <2>5. OnTop(below, t, field, entered)
    BY <2>1, <2>2, <2>3, <2>4, CallsAtPoints, Zenon
  <2>. QED  BY <2>1, <2>2, <2>4, <2>5 DEF OnTop
<1>14. ASSUME NEW k \in 1..(Top - 1) PROVE AtPoint(k)' /\ OfKinds(stack[k].kids)'
  <2>1. k < Top' /\ k \in 1..Top /\ stack'[k] = stack[k]
    BY <1>0, <1>6, <1>11, <1>13
  <2>2. stack'[k + 1].field = stack[k + 1].field
    <3>1. k + 1 \in 1..Top /\ (k + 1 = Top \/ k + 1 \in 1..(Top - 1))
      BY <1>6
    <3>. QED  BY <1>0, <1>5, <1>10, <1>11, <1>13, <3>1
  <2>3. PICK kids \in Seq(Kid) : kids = stack[k].kids
    BY <2>1, StackFacts
  <2>4. OfKinds(kids)'
    BY <1>7, <2>1, <2>3, StackFacts, KindsKept
  <2>. QED  BY <1>7, <2>1, <2>2, <2>3, <2>4, OuterCallStays
<1>15. AtPoint(t)' /\ OfKinds(stack[t].kids)'
  <2>1. stack'[t] = frame /\ t # Top'
    <3>1. t \in 1..t
      BY <1>0, <1>5
    <3>. QED  BY <1>0, <1>11, <1>13, <3>1
  <2> DEFINE known == WithKid(point.kids, Step.field)
             next  == Point(After, point.field, known)
  <2>2. PICK kids \in Seq(Kid) : kids = Frame.kids
    BY <1>5
  <2>3. PICK fields \in Seq(Fields) : fields = FieldsOf(kids)
    BY <1>5, <2>2
  <2>4. PICK more \in Seq(Fields) : more = Append(fields, Step.field)
    BY <1>4, AppendProperties
  <2>5. Expected(t)' = more
    BY <1>10, <1>13, <2>1, <2>2, <2>3, <2>4 DEF Expected, FieldsOf
  <2>6. Counted(fields, point.kids.count) /\ Ends(fields, point.kids)
        /\ RowsFit(fields, kids, point.kids.rows)
    BY <1>2, <2>2, <2>3 DEF TopAt
  <2>7. Counted(more, known.count) /\ Ends(more, known) /\ RowsFit(more, kids, known.rows)
    <3>1. known.count = OneMore(point.kids.count, Step.field)
      BY DEF WithKid
    <3>. QED  BY <1>4, <2>4, <2>6, <3>1, CountedMore, EndsMore, RowsMore
  <2>8. next \in Points /\ next.todo = After /\ next.field = point.field /\ next.kids = known
    BY <1>1, <1>3, BehindParse DEF Point
  <2> HIDE DEF known, next
  <2>11. PICK q : q = next
    OBVIOUS
  <2>12. PICK rows : rows = known.rows
    OBVIOUS
  <2>9. RowsFit(more, kids, rows)' /\ OfKinds(kids)'
    <3>2. KidIds(kids) \subseteq DOMAIN nodes /\ OfKinds(kids)
      BY <1>5, <2>2
    <3>1. RowsFit(more, kids, rows)'
      BY <1>7, <2>7, <2>12, <3>2, RowsKept
    <3>. QED  BY <1>7, <3>1, <3>2, KindsKept
  <2>10. IsAt(t, q)'
    <3>1. q \in Points /\ q.todo = stack'[t].todo /\ q.field = NamedFor(stack'[t].field)
          /\ stack'[t].kids = kids /\ q.kids = known /\ q.kids.rows = rows
      BY <1>2, <1>10, <2>1, <2>2, <2>8, <2>11, <2>12 DEF TopAt
    <3>2. Counted(more, q.kids.count) /\ Ends(more, q.kids)
      BY <2>7, <3>1
    <3>. QED  BY <2>5, <2>9, <3>1, <3>2 DEF IsAt
  <2>. QED  BY <1>10, <2>1, <2>2, <2>9, <2>10 DEF AtPoint
<1>16. \A k \in DOMAIN stack' : k \in 1..(Top - 1) \/ k = t \/ k \in (t + 1)..(t + Len(calls))
  BY <1>0, <1>13
<1>17. PointInv' /\ KindInv'
  BY <1>13, <1>14, <1>15, <1>16 DEF PointInv, KindInv
<1>. QED  BY <1>7, <1>17 DEF TreeInv

LEMMA BecomeTree ==
  ASSUME Sound, outcome = "running", tokens' = tokens, nodes' = nodes,
         NEW rule \in Rules, Become(rule), NEW point, TopAt(point),
         Entered(rule, point.field) \subseteq Successors(point)
  PROVE  TreeInv'
<1>1. /\ Top \in 1..Len(stack) /\ Frame = stack[Top] /\ Frame \in FrameRecord
      /\ Frame.field \in Fields /\ Frame.start \in Int /\ Frame.exact \in BOOLEAN
  BY TopFacts, FrameFacts DEF FrameRecord
<1>2. stack \in Seq(FrameRecord) /\ Top \in Nat /\ Top = Len(stack) /\ DOMAIN stack = 1..Top
  BY StackFacts
<1>3. NodesGrow /\ WellFormedNodes' /\ StatementsApart'
  BY TreeKept DEF Sound, TreeInv
<1> DEFINE base  == SubSeq(stack, 1, Top - 1)
           calls == Calls(rule, Frame.field, Frame.start, Frame.exact)
<1>4. stack' = base \o calls
  BY DEF Become
<1>5. /\ base \in Seq(FrameRecord) /\ Len(base) = Top - 1
      /\ \A k \in 1..(Top - 1) : base[k] = stack[k]
  BY <1>1, <1>2, SubSeqProperties
<1>6. Entered(rule, Frame.field) \subseteq Points
  <2>1. Entered(rule, point.field) = Entered(rule, Frame.field)
    BY EnteredNamed DEF TopAt
  <2>. QED  BY <2>1, PointsClosed DEF TopAt
<1> HIDE DEF base, calls
<1>0. PICK b \in Nat : b = Top - 1
  BY <1>1, <1>2
<1>7. /\ Top' = b + Len(calls) /\ Len(calls) \in Nat \ {0}
      /\ \A k \in 1..b : stack'[k] = base[k]
      /\ stack'[b + 1].field = Frame.field
      /\ DOMAIN stack' = 1..(b + Len(calls))
      /\ \A k \in (b + 1)..(b + Len(calls)) : AtPoint(k)' /\ OfKinds(stack[k].kids)'
  <2>1. PICK field \in Fields, exact \in BOOLEAN, begin \in Int :
          field = Frame.field /\ exact = Frame.exact /\ begin = Frame.start
    BY <1>1
  <2>2. PICK below \in Seq(FrameRecord) : below = base
    BY <1>5
  <2>4. PICK entered : entered = calls
    OBVIOUS
  <2>3. /\ b = Len(below) /\ entered = Calls(rule, field, begin, exact)
        /\ stack' = below \o entered /\ Entered(rule, field) \subseteq Points
    BY <1>0, <1>4, <1>5, <1>6, <2>1, <2>2, <2>4 DEF calls
  <2>5. OnTop(below, b, field, entered)
    BY <2>1, <2>2, <2>3, <2>4, CallsAtPoints, Zenon
  <2>. QED  BY <2>1, <2>2, <2>4, <2>5 DEF OnTop
<1>8. stack'[b + 1].field = stack[b + 1].field /\ Top = b + 1
  BY <1>0, <1>1, <1>2, <1>7
<1>9. ASSUME NEW k \in 1..b PROVE AtPoint(k)' /\ OfKinds(stack[k].kids)'
  <2>1. k < Top' /\ k \in 1..Top /\ stack'[k] = stack[k]
    BY <1>0, <1>5, <1>7, <1>8
  <2>2. stack'[k + 1].field = stack[k + 1].field
    <3>1. k + 1 = b + 1 \/ k + 1 \in 1..b
      BY <1>0
    <3>. QED  BY <1>0, <1>5, <1>7, <1>8, <3>1
  <2>3. PICK kids \in Seq(Kid) : kids = stack[k].kids
    BY <2>1, StackFacts
  <2>4. OfKinds(kids)'
    BY <1>3, <2>1, <2>3, StackFacts, KindsKept
  <2>5. k \in 1..(Top - 1)
    BY <1>0
  <2>. QED  BY <1>3, <2>1, <2>2, <2>3, <2>4, <2>5, OuterCallStays
<1>10. \A k \in DOMAIN stack' : k \in 1..b \/ k \in (b + 1)..(b + Len(calls))
  BY <1>0, <1>7
<1>11. PointInv' /\ KindInv'
  BY <1>7, <1>9, <1>10 DEF PointInv, KindInv
<1>. QED  BY <1>3, <1>11 DEF TreeInv

LEMMA TailCallTree == ASSUME Sound, TailCall PROVE TreeInv'
<1>1. /\ outcome = "running" /\ Step \in Code /\ Step.op = "goto"
      /\ tokens' = tokens /\ nodes' = nodes
  BY TopDoes DEF TailCall, Output
<1>2. PICK point : TopAt(point)
  BY TopDoes DEF TailCall
<1>3. point.todo # <<>> /\ Head(point.todo) = Step
  BY <1>2, TopDoes DEF TailCall
<1>4. Step.rule \in Rules /\ Become(Step.rule)
  BY <1>1, CodeAssumption DEF TailCall
<1>5. Entered(Step.rule, point.field) \subseteq Successors(point)
  BY <1>1, <1>3, BehindGoto
<1>. QED  BY <1>1, <1>2, <1>4, <1>5, BecomeTree

LEMMA DispatchTree == ASSUME Sound, Dispatch PROVE TreeInv'
<1>1. /\ outcome = "running" /\ Step \in Code /\ Step.op = "switch" /\ After \in Seq(Code)
      /\ tokens' = tokens /\ nodes' = nodes
  BY TopDoes DEF Dispatch, Output
<1>2. PICK point : TopAt(point)
  BY TopDoes DEF Dispatch
<1>3. point.todo # <<>> /\ Head(point.todo) = Step /\ Tail(point.todo) = After
  BY <1>2, TopDoes DEF Dispatch
<1>4. ASSUME NEW row \in Switches[Step.table], Become(row.rule) PROVE TreeInv'
  <2>1. row.rule \in Rules
    BY <1>1, CodeAssumption, GrammarAssumption, Zenon
  <2>2. Entered(row.rule, point.field) \subseteq Successors(point)
    BY <1>1, <1>3, BehindSwitch
  <2>. QED  BY <1>1, <1>2, <1>4, <2>1, <2>2, BecomeTree
<1>5. ASSUME Continue(After) PROVE TreeInv'
  <2>1. Point(After, point.field, point.kids) \in Successors(point)
    BY <1>1, <1>3, BehindStep
  <2>. QED  BY <1>1, <1>2, <1>5, <2>1, TopJustContinues
<1>. QED  BY <1>4, <1>5 DEF Dispatch

\* Only something of the innermost call changes, not its children.
LEMMA OnlyFrame ==
  ASSUME Sound, NEW op, Does(op), tokens' = tokens, nodes' = nodes,
         op \in {"early", "start", "open_module"},
         NEW frame \in FrameRecord, stack' = [stack EXCEPT ![Top] = frame],
         frame.field = Frame.field, frame.kids = Frame.kids, frame.todo = After
  PROVE  TreeInv'
<1>1. outcome = "running" /\ Step.op = op
  BY TopDoes
<1>2. PICK point : TopAt(point)
  BY TopDoes
<1>3. point.todo # <<>> /\ Head(point.todo) = Step /\ Tail(point.todo) = After
  BY <1>2, TopDoes
<1>4. Point(frame.todo, point.field, point.kids) \in Successors(point)
  BY <1>1, <1>3, BehindStep
<1>5. /\ Counted(FieldsOf(Frame.kids), point.kids.count) /\ Ends(FieldsOf(Frame.kids), point.kids)
      /\ RowsFit(FieldsOf(Frame.kids), Frame.kids, point.kids.rows)
  BY <1>2 DEF TopAt
<1>. QED  BY <1>1, <1>2, <1>4, <1>5, TopContinues

LEMMA FixEndTree == ASSUME Sound, FixEnd PROVE TreeInv'
<1>1. Does("early") /\ outcome = "running" /\ After \in Seq(Code)
      /\ tokens' = tokens /\ nodes' = nodes
  BY TopDoes DEF FixEnd, Output
<1>2. Frame \in FrameRecord /\ NoToken \in Int /\ index \in Int
  BY <1>1, TopFacts, TokensThere DEF NoToken, Sound
<1>3. PICK end \in {NoToken, index} :
        stack' = [stack EXCEPT ![Top] = [Frame EXCEPT !.todo = After, !.end = end]]
  BY DEF FixEnd, Frame
<1> DEFINE frame == [Frame EXCEPT !.todo = After, !.end = end]
<1>4. /\ frame \in FrameRecord /\ frame.kids = Frame.kids
      /\ frame.field = Frame.field /\ frame.todo = After
  BY <1>1, <1>2 DEF FrameRecord
<1>5. stack' = [stack EXCEPT ![Top] = frame]
  BY <1>3
<1> HIDE DEF frame
<1>. QED  BY <1>1, <1>4, <1>5, OnlyFrame

LEMMA FixStartTree == ASSUME Sound, FixStart PROVE TreeInv'
<1>1. Does("start") /\ outcome = "running" /\ After \in Seq(Code)
      /\ tokens' = tokens /\ nodes' = nodes /\ Step \in Code /\ Step.op = "start"
  BY TopDoes DEF FixStart, Output
<1>2. Frame \in FrameRecord /\ index \in Nat /\ Step.back \in Nat
  BY <1>1, TopFacts, TokensThere, CodeAssumption DEF Sound
<1>3. PICK exact \in BOOLEAN : exact = (Step.back = 0 /\ Frame.kids = <<>>)
  OBVIOUS
<1>4. PICK start \in Int : start = index - Step.back
  BY <1>2
<1> DEFINE frame == [Frame EXCEPT !.todo = After, !.start = start, !.exact = exact]
<1>5. stack' = [stack EXCEPT ![Top] = frame]
  BY <1>3, <1>4 DEF FixStart, Frame
<1>6. /\ frame \in FrameRecord /\ frame.kids = Frame.kids
      /\ frame.field = Frame.field /\ frame.todo = After
  BY <1>1, <1>2 DEF FrameRecord
<1> HIDE DEF frame
<1>. QED  BY <1>1, <1>5, <1>6, OnlyFrame

LEMMA StartSubmodulesTree == ASSUME Sound, StartSubmodules PROVE TreeInv'
<1>1. Does("open_module") /\ outcome = "running" /\ After \in Seq(Code)
      /\ tokens' = tokens /\ nodes' = nodes
  BY TopDoes DEF StartSubmodules
<1>2. Frame \in FrameRecord /\ submodules \in Seq(Nat)
  BY <1>1, TopFacts DEF Sound, Ready, TypeOK
<1> DEFINE frame == [Frame EXCEPT !.todo = After, !.saved = submodules]
<1>3. stack' = [stack EXCEPT ![Top] = frame]
  BY DEF StartSubmodules, Frame
<1>4. /\ frame \in FrameRecord /\ frame.kids = Frame.kids
      /\ frame.field = Frame.field /\ frame.todo = After
  BY <1>1, <1>2 DEF FrameRecord
<1> HIDE DEF frame
<1>. QED  BY <1>1, <1>3, <1>4, OnlyFrame

LEMMA ReadLiteralTree == ASSUME Sound, ReadLiteral PROVE TreeInv'
<1>1. ASSUME Continue(After), UNCHANGED Output PROVE TreeInv'
  <2>1. /\ outcome = "running" /\ Step.op = "reread" /\ After \in Seq(Code)
        /\ tokens' = tokens /\ nodes' = nodes
    BY <1>1, TopDoes DEF ReadLiteral, Output
  <2>2. PICK point : TopAt(point)
    BY TopDoes DEF ReadLiteral
  <2>3. point.todo # <<>> /\ Head(point.todo) = Step /\ Tail(point.todo) = After
    BY <2>2, TopDoes DEF ReadLiteral
  <2>4. Point(After, point.field, point.kids) \in Successors(point)
    BY <2>1, <2>3, BehindStep
  <2>. QED  BY <1>1, <2>1, <2>2, <2>4, TopJustContinues
<1>2. ASSUME tokens' = tokens, nodes' = nodes, stack' = stack PROVE TreeInv'
  BY <1>2, NothingMoves
<1>. QED  BY <1>1, <1>2 DEF ReadLiteral

LEMMA RenameTree == ASSUME Sound, Rename PROVE TreeInv'
<1>1. /\ outcome = "running" /\ Step \in Code /\ Step.op = "relabel" /\ After \in Seq(Code)
      /\ tokens' = tokens /\ nodes' = nodes
  BY TopDoes DEF Rename, Output
<1>2. PICK point : TopAt(point)
  BY TopDoes DEF Rename
<1>3. point.todo # <<>> /\ Head(point.todo) = Step /\ Tail(point.todo) = After
  BY <1>2, TopDoes DEF Rename
<1>4. PICK kids \in Seq(Kid) : kids = Frame.kids
  BY <1>1, TopFacts
<1>5. PICK field \in Fields : field = Step.field
  BY <1>1, CodeAssumption
<1>6. /\ DOMAIN point.kids.count = {point.kids.first}
      /\ point.kids.count[point.kids.first] = 1 /\ Plain(field)
      /\ Counted(FieldsOf(kids), point.kids.count)
  BY <1>1, <1>2, <1>3, <1>4, <1>5 DEF TopAt, Right
<1>7. Len(kids) = 1
  <2>1. Len(kids) \in Nat /\ Len(kids) > 0 /\ Len(FieldsOf(kids)) = Len(kids)
    BY <1>1, <1>4, FieldSequence DEF Rename
  <2>2. \A i \in 1..Len(kids) : FieldsOf(kids)[i] = point.kids.first
    BY <1>6, <2>1 DEF Counted
  <2>3. Once(FieldsOf(kids), point.kids.first)
    BY <1>6 DEF Counted
  <2>4. \A i, j \in 1..Len(kids) : i = j
    BY <2>1, <2>2, <2>3 DEF Once
  <2>5. Len(kids) > 1 => 1 \in 1..Len(kids) /\ Len(kids) \in 1..Len(kids) /\ 1 # Len(kids)
    BY <2>1
  <2>. QED  BY <2>1, <2>4, <2>5
<1> DEFINE kid == [kids[1] EXCEPT !.field = field]
<1>8. kid \in Kid /\ kid.field = field /\ kid.id = kids[1].id
  <2>1. kids[1] \in Kid
    BY <1>7
  <2>. QED  BY <2>1 DEF Kid
<1>9. [kids EXCEPT ![Len(kids)].field = Step.field] = [kids EXCEPT ![1] = kid]
  BY <1>5, <1>7
<1> HIDE DEF kid
<1>10. PICK renamed : renamed = [kids EXCEPT ![1] = kid]
  OBVIOUS
<1>11. renamed \in Seq(Kid) /\ Len(renamed) = 1 /\ renamed[1] = kid
  <2>1. 1 \in 1..Len(kids)
    BY <1>7
  <2>2. /\ renamed \in Seq(Kid) /\ Len(renamed) = Len(kids)
        /\ \A j \in 1..Len(kids) : renamed[j] = IF j = 1 THEN kid ELSE kids[j]
    BY <1>8, <1>10, <2>1, ExceptSeq
  <2>. QED  BY <1>7, <2>2
<1>12. PICK frame : frame = [Frame EXCEPT !.todo = After, !.kids = renamed]
  OBVIOUS
<1>13. /\ frame \in FrameRecord /\ frame.kids = renamed
       /\ frame.field = Frame.field /\ frame.todo = After
  BY <1>1, <1>11, <1>12, TopFacts DEF FrameRecord
<1>14. stack' = [stack EXCEPT ![Top] = frame]
  BY <1>4, <1>9, <1>10, <1>12 DEF Rename, Frame
<1>15. KidIds(renamed) \subseteq KidIds(Frame.kids) /\ OfKinds(renamed)
  <2>1. DOMAIN renamed = {1} /\ 1 \in DOMAIN kids
    BY <1>4, <1>7, <1>11, LenProperties
  <2>2. KidIds(renamed) \subseteq KidIds(Frame.kids)
    BY <1>4, <1>8, <1>11, <2>1 DEF KidIds
  <2>. QED  BY <1>6, <1>8, <1>11, <2>2 DEF OfKinds, Plain
<1>16. PICK fields : fields = FieldsOf(renamed)
  OBVIOUS
<1>17. fields = <<field>>
  <2>1. fields \in Seq(Fields) /\ Len(fields) = 1 /\ fields[1] = field
    BY <1>8, <1>11, <1>16, FieldSequence
  <2>. QED  BY <2>1
<1>18. PICK known : known = OnlyKid(field)
  OBVIOUS
<1>19. Counted(fields, known.count) /\ Ends(fields, known)
       /\ RowsFit(fields, renamed, known.rows)
  BY <1>17, <1>18, FitOnly
<1>20. Point(After, point.field, known) \in Successors(point)
  BY <1>1, <1>3, <1>5, <1>18, BehindRelabel
<1>. QED  BY <1>1, <1>2, <1>13, <1>14, <1>15, <1>16, <1>19, <1>20, TopTurnsTo

\* With the last child the only one of its field, nothing is taken out.
LEMMA CountedOnce ==
  ASSUME NEW fields \in Seq(Fields), Len(fields) > 0, NEW known,
         Counted(fields, known.count), Ends(fields, known),
         NEW field, field = fields[Len(fields)],
         \A i \in 1..(Len(fields) - 1) : fields[i] # field
  PROVE  /\ Counted(fields, Overwritten(known, field).count)
         /\ Ends(fields, Overwritten(known, field))
<1> DEFINE n     == Len(fields)
           after == Overwritten(known, field).count
<1>1. n \in Nat /\ n > 0 /\ \A i \in 1..n : i = n \/ i \in 1..(n - 1)
  BY LenProperties
<1>2. field \in DOMAIN known.count
  BY <1>1 DEF Counted
<1>3. /\ DOMAIN after = DOMAIN known.count
      /\ \A name \in DOMAIN after :
           after[name] = IF name # field THEN known.count[name]
                         ELSE IF known.count[name] = 3 THEN 3 ELSE 1
  BY <1>2 DEF Overwritten
<1>4. Overwritten(known, field).first = known.first
      /\ Overwritten(known, field).last = known.last
  BY DEF Overwritten
<1> HIDE DEF after
<1>5. Once(fields, field)
  BY <1>1 DEF Once
<1>6. Counted(fields, after)
  BY <1>3, <1>5 DEF Counted
<1>. QED  BY <1>4, <1>6 DEF Ends, after

LEMMA ReassignTree == ASSUME Sound, Reassign PROVE TreeInv'
<1>1. /\ outcome = "running" /\ Step \in Code /\ Step.op = "overwrite" /\ After \in Seq(Code)
      /\ tokens' = tokens /\ nodes' = nodes
  BY TopDoes DEF Reassign, Output
<1>2. PICK point : TopAt(point)
  BY TopDoes DEF Reassign
<1>3. point.todo # <<>> /\ Head(point.todo) = Step /\ Tail(point.todo) = After
  BY <1>2, TopDoes DEF Reassign
<1>4. PICK kids \in Seq(Kid) : kids = Frame.kids
  BY <1>1, TopFacts
<1>5. PICK field : field = Step.field
  OBVIOUS
<1>6. PICK fields : fields = FieldsOf(kids)
  OBVIOUS
<1>7. PICK n \in Nat : n = Len(kids)
  BY LenProperties
<1>8. /\ fields \in Seq(Fields) /\ Len(fields) = n /\ n > 0
      /\ \A k \in 1..n : fields[k] = kids[k].field
  <2>1. kids # <<>>
    BY <1>4 DEF Reassign
  <2>2. n > 0
    BY <1>7, <2>1
  <2>. QED  BY <1>6, <1>7, <2>2, FieldSequence
<1>9. /\ point.kids.last = field /\ point.kids.first # field /\ field \notin StatementLists
      /\ Counted(fields, point.kids.count) /\ Ends(fields, point.kids)
      /\ RowsFit(fields, kids, point.kids.rows)
  BY <1>1, <1>2, <1>3, <1>4, <1>5, <1>6 DEF TopAt, Right
<1>10. fields[n] = field /\ fields[1] # field
  BY <1>8, <1>9 DEF Ends
<1>11. PICK known : known = Overwritten(point.kids, field)
  OBVIOUS
<1>12. Point(After, point.field, known) \in Successors(point) /\ known.rows = point.kids.rows
  BY <1>1, <1>3, <1>5, <1>11, BehindOverwrite DEF Overwritten
<1>13. ASSUME \A i \in 1..(n - 1) : kids[i].field # field, Continue(After) PROVE TreeInv'
  <2>1. PICK frame : frame = [Frame EXCEPT !.todo = After]
    OBVIOUS
  <2>2. frame \in FrameRecord /\ stack' = [stack EXCEPT ![Top] = frame]
    BY <1>1, <1>13, <2>1, ContinueTop DEF Sound
  <2>3. frame.field = Frame.field /\ frame.kids = Frame.kids /\ frame.todo = After
    BY <1>1, <2>1, TopFacts DEF FrameRecord
  <2>4. Counted(fields, known.count) /\ Ends(fields, known)
    <3>1. \A i \in 1..(n - 1) : fields[i] # field
      BY <1>8, <1>13
    <3>. QED  BY <1>8, <1>9, <1>10, <1>11, <3>1, CountedOnce
  <2>. QED  BY <1>1, <1>2, <1>4, <1>6, <1>9, <1>12, <2>2, <2>3, <2>4, TopContinues
<1>14. ASSUME NEW i \in 1..(n - 1), kids[i].field = field,
              stack' = [stack EXCEPT ![Top] =
                          [@ EXCEPT !.todo = After, !.kids = RemoveAt(kids, i)]]
       PROVE  TreeInv'
  <2>1. PICK less : less = RemoveAt(kids, i)
    OBVIOUS
  <2>2. i \in 2..(n - 1) /\ i \in 1..n /\ fields[i] = field
    BY <1>8, <1>10, <1>14
  <2>3. /\ less \in Seq(Kid) /\ Len(less) = n - 1
        /\ \A j \in 1..(n - 1) : less[j] = IF j < i THEN kids[j] ELSE kids[j + 1]
    BY <1>7, <2>1, <2>2, KidsLeft
  <2>4. PICK frame : frame = [Frame EXCEPT !.todo = After, !.kids = less]
    OBVIOUS
  <2>5. /\ frame \in FrameRecord /\ frame.kids = less
        /\ frame.field = Frame.field /\ frame.todo = After
    BY <1>1, <2>3, <2>4, TopFacts DEF FrameRecord
  <2>6. stack' = [stack EXCEPT ![Top] = frame]
    BY <1>14, <2>1, <2>4 DEF Frame
  <2>7. PICK fewer : fewer = FieldsOf(less)
    OBVIOUS
  <2>8. /\ Len(fewer) = n - 1
        /\ \A k \in 1..(n - 1) : fewer[k] = IF k < i THEN fields[k] ELSE fields[k + 1]
    <3>1. Len(fewer) = n - 1 /\ \A k \in 1..(n - 1) : fewer[k] = less[k].field
      BY <2>3, <2>7, FieldSequence
    <3>2. ASSUME NEW k \in 1..(n - 1)
          PROVE  fewer[k] = IF k < i THEN fields[k] ELSE fields[k + 1]
      <4>1. k \in 1..n /\ k + 1 \in 1..n
        OBVIOUS
      <4>2. fields[k] = kids[k].field /\ fields[k + 1] = kids[k + 1].field
        BY <1>8, <4>1
      <4>3. less[k] = IF k < i THEN kids[k] ELSE kids[k + 1]
        BY <2>3
      <4>. QED  BY <3>1, <4>2, <4>3
    <3>. QED  BY <3>1, <3>2
  <2>9. Counted(fewer, known.count) /\ Ends(fewer, known)
    BY <1>8, <1>9, <1>10, <1>11, <2>2, <2>8, CountedLess
  <2>10. RowsFit(fewer, less, known.rows)
    <3>1. /\ Len(fields) = Len(kids) /\ i \in 2..(Len(fields) - 1)
          /\ fields[i] = fields[Len(fields)] /\ fields[i] \notin StatementLists
      BY <1>7, <1>8, <1>9, <1>10, <2>2
    <3>2. PICK rows : rows = known.rows
      OBVIOUS
    <3>3. RowsFit(fields, kids, rows)
      BY <1>9, <1>12, <3>2
    <3>4. /\ Len(fewer) = Len(fields) - 1 /\ Len(less) = Len(fields) - 1
          /\ \A k \in 1..(Len(fields) - 1) :
               /\ fewer[k] = IF k < i THEN fields[k] ELSE fields[k + 1]
               /\ less[k] = IF k < i THEN kids[k] ELSE kids[k + 1]
      BY <1>8, <2>3, <2>8
    <3>. QED  BY <1>8, <3>1, <3>2, <3>3, <3>4, RowsLess
  <2>11. KidIds(less) \subseteq KidIds(Frame.kids)
    BY <1>4, <1>7, <2>1, <2>2, OneKidLess
  <2>12. OfKinds(less)
    <3>1. OfKinds(kids)
      BY <1>1, <1>4, TopFacts
    <3>2. ASSUME NEW k \in 1..(n - 1) PROVE \E l \in 1..n : less[k] = kids[l]
      <4>1. k \in 1..n /\ k + 1 \in 1..n
        OBVIOUS
      <4>. QED  BY <2>3, <4>1
    <3>. QED  BY <1>7, <2>3, <3>1, <3>2 DEF OfKinds
  <2>. QED  BY <1>1, <1>2, <1>12, <2>5, <2>6, <2>7, <2>9, <2>10, <2>11, <2>12, TopTurnsTo
<1>. QED  BY <1>4, <1>5, <1>7, <1>13, <1>14 DEF Reassign

-----------------------------------------------------------------------------
(* Results                                                                 *)

WithOneMore(kids, kid, more) ==
  /\ more \in Seq(Kid) /\ Len(kids) \in Nat /\ Len(more) = Len(kids) + 1
  /\ \A i \in 1..Len(kids) : more[i] = kids[i]
  /\ more[Len(kids) + 1] = kid
  /\ FieldsOf(more) = Append(FieldsOf(kids), kid.field)
LEMMA OneMoreChild ==
  ASSUME NEW kids \in Seq(Kid), NEW kid \in Kid, NEW more, more = Append(kids, kid)
  PROVE  WithOneMore(kids, kid, more)
<1>1. /\ more \in Seq(Kid) /\ Len(kids) \in Nat /\ Len(more) = Len(kids) + 1
      /\ \A i \in 1..Len(kids) : more[i] = kids[i]
      /\ more[Len(kids) + 1] = kid
  BY AppendProperties, LenProperties
<1>2. PICK n \in Nat : n = Len(kids)
  BY <1>1
<1>3. PICK before \in Seq(Fields) : before = FieldsOf(kids)
  BY FieldSequence
<1>4. PICK after \in Seq(Fields) : after = FieldsOf(more)
  BY <1>1, FieldSequence
<1>5. Len(before) = n /\ \A i \in 1..n : before[i] = kids[i].field
  BY <1>2, <1>3, FieldSequence
<1>6. Len(after) = n + 1 /\ \A i \in 1..(n + 1) : after[i] = more[i].field
  BY <1>1, <1>2, <1>4, FieldSequence
<1>7. PICK field \in Fields : field = kid.field
  BY DEF Kid
<1>8. PICK longer : longer = Append(before, field)
  OBVIOUS
<1>9. /\ longer \in Seq(Fields) /\ Len(longer) = n + 1 /\ longer[n + 1] = field
      /\ \A i \in 1..n : longer[i] = before[i]
  BY <1>5, <1>8, AppendProperties
<1>10. \A i \in 1..(n + 1) : after[i] = longer[i]
  <2>1. \A i \in 1..n : i \in 1..(n + 1) /\ after[i] = longer[i]
    BY <1>1, <1>2, <1>5, <1>6, <1>9
  <2>2. after[n + 1] = longer[n + 1]
    BY <1>1, <1>2, <1>6, <1>7, <1>9
  <2>. QED  BY <2>1, <2>2
<1>11. after = longer
  BY <1>6, <1>9, <1>10, SeqEqual
<1>. QED  BY <1>1, <1>3, <1>4, <1>7, <1>8, <1>11 DEF WithOneMore

LEMMA RowsLonger ==
  ASSUME NEW fields, NEW kids \in Seq(Kid), NEW kid \in Kid,
         NEW more, more = Append(kids, kid), NEW rows, Len(fields) = Len(more),
         RowsFit(fields, kids, rows)'
  PROVE  RowsFit(fields, more, rows)'
<1>1. /\ Len(kids) \in Nat /\ Len(more) = Len(kids) + 1
      /\ \A i \in 1..Len(kids) : more[i] = kids[i]
  BY OneMoreChild DEF WithOneMore
<1>2. SUFFICES ASSUME rows # "mixed", NEW i \in 1..Len(fields), NEW j \in 1..Len(fields),
                      InOneList(fields, i, j)
               PROVE  \/ rows = "late" /\ j = Len(fields) /\ i = j - 1
                      \/ j <= Len(more) /\ StartApart(more[i].id, more[j].id)'
  BY DEF RowsFit, InOneList
<1>3. \/ rows = "late" /\ j = Len(fields) /\ i = j - 1
      \/ j <= Len(kids) /\ StartApart(kids[i].id, kids[j].id)'
  BY <1>2 DEF RowsFit, InOneList
<1>4. i < j
  BY <1>2 DEF InOneList
<1>5. j <= Len(kids) => /\ i \in 1..Len(kids) /\ j \in 1..Len(kids)
                        /\ more[i] = kids[i] /\ more[j] = kids[j] /\ j <= Len(more)
  BY <1>1, <1>2, <1>4
<1>. QED  BY <1>3, <1>5

\* A call that passes on what it is given is not asked for a kind of node.
LEMMA PassesAnything ==
  ASSUME Sound, NEW k \in 1..Top, PassesOn(stack[k])
  PROVE  stack[k].field \notin DOMAIN KindOf
<1>1. PICK point : IsAt(k, point)
  BY StackFacts DEF PointInv, AtPoint
<1>2. PICK todo \in Seq(Code) : todo = stack[k].todo
  BY StackFacts, FrameFacts
<1>3. /\ point \in Points /\ point.todo = todo /\ point.field = NamedFor(stack[k].field)
      /\ Len(todo) = 2 /\ todo[1].op = "while" /\ todo[2].op = "return"
  BY <1>1, <1>2 DEF IsAt, PassesOn
<1>4. todo # <<>> /\ Head(todo) = todo[1] /\ Tail(todo) # <<>> /\ Head(Tail(todo)) = todo[2]
  <2>1. todo # <<>> /\ Head(todo) = todo[1]
    BY <1>3
  <2>2. PICK rest \in Seq(Code) : rest = Tail(todo)
    BY <2>1, HeadTailProperties
  <2>3. Len(rest) = 1 /\ rest[1] = todo[2]
    <3>1. Len(rest) = Len(todo) - 1 /\ \A i \in 1..Len(rest) : rest[i] = todo[i + 1]
      BY <2>1, <2>2, HeadTailProperties
    <3>. QED  BY <1>3, <3>1
  <2>4. rest = <<todo[2]>>
    BY <2>3
  <2>. QED  BY <2>1, <2>2, <2>4
<1> DEFINE next == Point(Tail(todo), point.field, point.kids)
<1>5. next \in Points
  <2>1. next \in Successors(point)
    BY <1>3, <1>4, BehindStep
  <2>. QED  BY <1>3, <2>1, PointsClosed
<1>6. next.todo = Tail(todo) /\ next.field = point.field
  BY DEF Point
<1> HIDE DEF next
<1>7. next.field \notin DOMAIN KindOf
  BY <1>3, <1>4, <1>5, <1>6, PointsClosed DEF Right
<1>. QED  BY <1>3, <1>6, <1>7, NamedAgain

\* The call that receives a node has got the child that it waited for.
LEMMA ResultReceived ==
  ASSUME Sound, outcome = "running", NodesGrow, NEW id \in DOMAIN nodes', id \in Nat,
         Frame.field \in DOMAIN KindOf => nodes'[id].type \in KindOf[Frame.field],
         Deliver(id)
  PROVE  PointInv' /\ KindInv'
<1>1. PICK k \in 1..(Top - 1) :
        /\ Receives(k)
        /\ stack' = [SubSeq(stack, 1, k) EXCEPT ![k].kids =
                       Append(@, [field |-> stack[k + 1].field, id |-> id])]
  BY DEF Deliver
<1>2. stack \in Seq(FrameRecord) /\ Len(stack) = Top /\ Top \in Nat /\ DOMAIN stack = 1..Top
      /\ k \in 1..Top /\ k + 1 \in 1..Top /\ k < Top
  BY StackFacts
<1>3. PICK called \in FrameRecord : called = stack[k]
  BY <1>2, StackFacts
<1>4. PICK kids \in Seq(Kid) : kids = stack[k].kids
  BY <1>2, StackFacts
<1>5. PICK field \in Fields : field = stack[k + 1].field
  BY <1>2, StackFacts
<1>6. PICK kid : kid = [field |-> field, id |-> id]
  OBVIOUS
<1>7. kid \in Kid /\ kid.field = field /\ kid.id = id
  BY <1>6 DEF Kid
<1>8. PICK more : more = Append(kids, kid)
  OBVIOUS
<1>9. /\ more \in Seq(Kid) /\ Len(kids) \in Nat /\ Len(more) = Len(kids) + 1
      /\ \A i \in 1..Len(kids) : more[i] = kids[i]
      /\ more[Len(kids) + 1] = kid
      /\ FieldsOf(more) = Append(FieldsOf(kids), field)
  <2>1. kid \in Kid
    BY <1>7
  <2>2. WithOneMore(kids, kid, more)
    BY <1>8, <2>1, OneMoreChild, Zenon
  <2>. QED  BY <1>7, <2>2 DEF WithOneMore
<1>10. PICK frame : frame = [called EXCEPT !.kids = more]
  OBVIOUS
<1>11. /\ frame \in FrameRecord /\ frame.kids = more
       /\ frame.todo = called.todo /\ frame.field = called.field
  BY <1>9, <1>10 DEF FrameRecord
<1>12. PICK base : base = SubSeq(stack, 1, k)
  OBVIOUS
<1>13. base \in Seq(FrameRecord) /\ Len(base) = k /\ \A j \in 1..k : base[j] = stack[j]
  BY <1>2, <1>12, SubSeqProperties
<1>14. stack' = [base EXCEPT ![k] = frame]
  <2>1. k \in 1..k /\ base[k] = called /\ called.kids = kids
    BY <1>2, <1>3, <1>4, <1>13
  <2>. QED  BY <1>1, <1>5, <1>6, <1>8, <1>10, <1>12, <2>1
<1>15. /\ stack' \in Seq(FrameRecord) /\ Len(stack') = k
       /\ \A j \in 1..k : stack'[j] = IF j = k THEN frame ELSE stack[j]
  <2>1. k \in 1..Len(base)
    BY <1>2, <1>13
  <2>2. /\ stack' \in Seq(FrameRecord) /\ Len(stack') = Len(base)
        /\ \A j \in 1..Len(base) : stack'[j] = IF j = k THEN frame ELSE base[j]
    BY <1>11, <1>13, <1>14, <2>1, ExceptSeq
  <2>. QED  BY <1>13, <2>2
<1>16. Top' = k /\ DOMAIN stack' = 1..k /\ k \in 1..k /\ stack'[k] = frame
       /\ \A j \in 1..(k - 1) : j \in 1..k /\ stack'[j] = stack[j]
  BY <1>2, <1>15, LenProperties DEF Top
<1>17. field \in DOMAIN KindOf => nodes'[id].type \in KindOf[field]
  <2>1. CASE k + 1 = Top
    BY <1>5, <2>1 DEF Frame
  <2>2. CASE k + 1 # Top
    <3>1. PassesOn(stack[k + 1])
      <4>1. k + 1 \in (k + 1)..(Top - 1)
        BY <1>2, <2>2
      <4>. QED  BY <1>1, <4>1 DEF Receives
    <3>. QED  BY <1>2, <1>5, <3>1, PassesAnything
  <2>. QED  BY <2>1, <2>2
<1>18. OfKinds(more)'
  <2>1. OfKinds(kids)'
    BY <1>2, <1>4, StackFacts, KindsKept
  <2>2. \A i \in 1..Len(more) : i = Len(kids) + 1 \/ i \in 1..Len(kids)
    BY <1>9
  <2>. QED  BY <1>7, <1>9, <1>17, <2>1, <2>2 DEF OfKinds
<1>19. AtPoint(k)'
  <2>1. PICK point : IsAt(k, point)
    BY <1>2, StackFacts DEF PointInv, AtPoint
  <2>2. PICK fields \in Seq(Fields) : fields = FieldsOf(more)
    BY <1>9, FieldSequence
  <2>3. Expected(k) = fields
    BY <1>2, <1>4, <1>5, <1>9, <2>2 DEF Expected
  <2>4. Expected(k)' = fields
    BY <1>11, <1>16, <2>2 DEF Expected, FieldsOf
  <2>5. RowsFit(fields, more, point.kids.rows)'
    <3>1. PICK rows : rows = point.kids.rows
      OBVIOUS
    <3>2. RowsFit(fields, kids, rows)
      BY <1>4, <2>1, <2>3, <3>1 DEF IsAt
    <3>3. RowsFit(fields, kids, rows)'
      BY <1>2, <1>4, <3>2, StackFacts, RowsKept
    <3>4. Len(fields) = Len(more)
      BY <1>9, <2>2, FieldSequence
    <3>5. RowsFit(fields, more, rows)'
      BY <1>7, <1>8, <3>3, <3>4, RowsLonger
    <3>. QED  BY <3>1, <3>5
  <2>6. IsAt(k, point)'
    BY <1>3, <1>11, <1>16, <2>1, <2>3, <2>4, <2>5 DEF IsAt
  <2>. QED  BY <2>6 DEF AtPoint
<1>20. ASSUME NEW j \in 1..(k - 1) PROVE AtPoint(j)' /\ OfKinds(stack[j].kids)'
  <2>1. j < Top' /\ j \in 1..(Top - 1) /\ j \in 1..Top /\ stack'[j] = stack[j]
    BY <1>2, <1>16
  <2>2. stack'[j + 1].field = stack[j + 1].field
    <3>1. j + 1 = k \/ j + 1 \in 1..(k - 1)
      BY <1>2
    <3>. QED  BY <1>3, <1>11, <1>16, <3>1
  <2>3. PICK others \in Seq(Kid) : others = stack[j].kids
    BY <2>1, StackFacts
  <2>4. OfKinds(others)'
    BY <2>1, <2>3, StackFacts, KindsKept
  <2>. QED  BY <2>1, <2>2, <2>3, <2>4, OuterCallStays
<1>21. \A j \in DOMAIN stack' : j = k \/ j \in 1..(k - 1)
  BY <1>2, <1>16
<1>22. OfKinds(stack[k].kids)'
  BY <1>11, <1>16, <1>18
<1>. QED  BY <1>16, <1>19, <1>20, <1>21, <1>22 DEF PointInv, KindInv

-----------------------------------------------------------------------------
(* Nodes                                                                   *)

\* The node that the innermost call makes is complete, and in its place.
LEMMA NodeMade ==
  ASSUME Sound, outcome = "running", tokens' = tokens,
         NEW type \in NodeTypes, NEW kids \in Seq(Kid), KidIds(kids) = Owned(Top),
         Increasing(Frame.kids) => Increasing(kids), OfKinds(kids),
         NEW known, MayMake(type, known), Counted(FieldsOf(kids), known.count),
         RowsFit(FieldsOf(kids), kids, known.rows),
         nodes' = Append(nodes, NodeOf(type, kids))
  PROVE  /\ NodesGrow /\ WellFormedNodes' /\ StatementsApart'
         /\ NewId \in Nat /\ NewId \in DOMAIN nodes' /\ nodes'[NewId].type = type
<1>1. PICK node : node = NodeOf(type, kids)
  OBVIOUS
<1>2. node \in NodeRecord
  BY <1>1, MadeNode DEF Sound
<1>3. node.type = type /\ node.kids = kids
  BY <1>1 DEF NodeOf
<1>4. nodes' = Append(nodes, node)
  BY <1>1
<1>5. KidIds(kids) \subseteq DOMAIN nodes
  BY TopFacts DEF Owned
<1>6. WellFormed(node)
  BY <1>3, NodeFits
<1>7. node.type \notin MayTouch => KidsApart(node.kids)
  BY <1>3, NodeApart
<1>8. NodesGrow /\ WellFormedNodes' /\ StatementsApart'
  BY <1>2, <1>3, <1>4, <1>5, <1>6, <1>7, TreeGrows DEF Sound, TreeInv
<1>9. NewId \in DOMAIN nodes' /\ nodes'[NewId] = node /\ NewId \in Nat
  <2>1. DOMAIN nodes' = 1..NewId /\ nodes'[NewId] = node /\ Len(nodes) \in Nat
        /\ NewId = Len(nodes) + 1
    BY <1>2, <1>4, OneMoreNode DEF Sound
  <2>. QED  BY <2>1
<1>. QED  BY <1>3, <1>8, <1>9

LEMMA MakeNodeTree == ASSUME Sound, MakeNode PROVE TreeInv'
<1>1. /\ outcome = "running" /\ Step \in Code /\ Step.op = "make" /\ tokens' = tokens
  BY TopDoes DEF MakeNode
<1>2. PICK point : TopAt(point)
  BY TopDoes DEF MakeNode
<1>3. point.todo # <<>> /\ Head(point.todo) = Step
  BY <1>2, TopDoes DEF MakeNode
<1>4. PICK type \in NodeTypes : type = Step.type
  BY <1>1, CodeAssumption
<1>5. PICK kids \in Seq(Kid) : kids = Frame.kids
  BY <1>1, TopFacts
<1>6. /\ MayMake(type, point.kids)
      /\ point.field \in DOMAIN KindOf => type \in KindOf[point.field]
  BY <1>1, <1>2, <1>3, <1>4 DEF TopAt, Right
<1>7. KidIds(kids) = Owned(Top) /\ OfKinds(kids)
  BY <1>1, <1>5, TopFacts DEF Owned
<1>8. Counted(FieldsOf(kids), point.kids.count) /\ RowsFit(FieldsOf(kids), kids, point.kids.rows)
  BY <1>2, <1>5 DEF TopAt
<1>9. nodes' = Append(nodes, NodeOf(type, kids)) /\ Deliver(NewId)
  BY <1>4, <1>5 DEF MakeNode
<1>10. /\ NodesGrow /\ WellFormedNodes' /\ StatementsApart'
       /\ NewId \in Nat /\ NewId \in DOMAIN nodes' /\ nodes'[NewId].type = type
  BY <1>1, <1>5, <1>6, <1>7, <1>8, <1>9, NodeMade
<1>11. PICK id \in Nat : id = NewId
  BY <1>10
<1>12. Frame.field \in DOMAIN KindOf => nodes'[id].type \in KindOf[Frame.field]
  <2>1. point.field = NamedFor(Frame.field)
    BY <1>2 DEF TopAt
  <2>. QED  BY <1>6, <1>10, <1>11, <2>1, NamedAgain
<1>13. PointInv' /\ KindInv'
  BY <1>1, <1>9, <1>10, <1>11, <1>12, ResultReceived
<1>. QED  BY <1>10, <1>13 DEF TreeInv

LEMMA MakeModuleNodeTree == ASSUME Sound, MakeModuleNode PROVE TreeInv'
<1>1. /\ outcome = "running" /\ Step \in Code /\ Step.op = "make_root" /\ tokens' = tokens
  BY TopDoes DEF MakeModuleNode
<1>2. PICK point : TopAt(point)
  BY TopDoes DEF MakeModuleNode
<1>3. point.todo # <<>> /\ Head(point.todo) = Step
  BY <1>2, TopDoes DEF MakeModuleNode
<1>4. PICK type \in NodeTypes : type = Step.type
  BY <1>1, CodeAssumption
<1>5. PICK kids \in Seq(Kid) : kids = Frame.kids
  BY <1>1, TopFacts
<1>6. MayMake(type, point.kids)
  BY <1>1, <1>2, <1>3, <1>4 DEF TopAt, Right
<1>7. KidIds(kids) = Owned(Top) /\ OfKinds(kids)
  BY <1>1, <1>5, TopFacts DEF Owned
<1>8. Counted(FieldsOf(kids), point.kids.count) /\ RowsFit(FieldsOf(kids), kids, point.kids.rows)
  BY <1>2, <1>5 DEF TopAt
<1>9. nodes' = Append(nodes, NodeOf(type, kids)) /\ stack' = <<>>
  BY <1>4, <1>5 DEF MakeModuleNode
<1>10. WellFormedNodes' /\ StatementsApart'
  BY <1>1, <1>5, <1>6, <1>7, <1>8, <1>9, NodeMade
<1>11. DOMAIN stack' = {}
  BY <1>9
<1>. QED  BY <1>10, <1>11 DEF TreeInv, PointInv, KindInv

LEMMA HandOnTree == ASSUME Sound, HandOn PROVE TreeInv'
<1>1. /\ outcome = "running" /\ Step.op = "return" /\ tokens' = tokens /\ nodes' = nodes
  BY TopDoes DEF HandOn, Output
<1>2. PICK point : TopAt(point)
  BY TopDoes DEF HandOn
<1>3. point.todo # <<>> /\ Head(point.todo) = Step
  BY <1>2, TopDoes DEF HandOn
<1>4. Frame.field \notin DOMAIN KindOf
  BY <1>1, <1>2, <1>3, NamedAgain DEF TopAt, Right
<1>5. NodesGrow /\ WellFormedNodes' /\ StatementsApart'
  BY <1>1, TreeKept DEF Sound, TreeInv
<1>6. Frame.kids[1].id \in DOMAIN nodes /\ Frame.kids[1].id \in Nat
  <2>1. Frame.kids \in Seq(Kid) /\ KidIds(Frame.kids) \subseteq DOMAIN nodes
        /\ 1 \in 1..Len(Frame.kids)
    BY <1>1, TopFacts DEF HandOn
  <2>2. Frame.kids[1] \in Kid
    BY <2>1
  <2>. QED  BY <2>1, <2>2, KidsThere DEF Kid
<1>7. PICK id \in Nat : id = Frame.kids[1].id
  BY <1>6
<1>8. Deliver(id) /\ id \in DOMAIN nodes'
  BY <1>1, <1>6, <1>7 DEF HandOn
<1>9. PointInv' /\ KindInv'
  BY <1>1, <1>4, <1>5, <1>8, ResultReceived
<1>. QED  BY <1>5, <1>9 DEF TreeInv

\* The children that the wrapping node takes: the first one has got another name.
LEMMA FirstRenamed ==
  ASSUME NEW kids \in Seq(Kid), kids # <<>>, OfKinds(kids), NEW known, NEW type,
         NEW field \in Fields, Counted(FieldsOf(kids), known.count), Ends(FieldsOf(kids), known),
         RowsFit(FieldsOf(kids), kids, known.rows),
         known.count[known.first] = 1, field \notin DOMAIN known.count \ {known.first},
         Plain(known.first), Plain(field),
         NEW renamed, renamed = [kids EXCEPT ![1] = [kids[1] EXCEPT !.field = field]]
  PROVE  /\ renamed \in Seq(Kid) /\ OfKinds(renamed)
         /\ Counted(FieldsOf(renamed), FirstCalled(known, field).count)
         /\ RowsFit(FieldsOf(renamed), renamed, FirstCalled(known, field).rows)
         /\ KidIds(renamed) = KidIds(kids)
         /\ Increasing(kids) => Increasing(renamed)
<1>1. PICK n \in Nat : n = Len(kids)
  BY LenProperties
<1>2. n > 0 /\ 1 \in 1..n /\ kids[1] \in Kid
  BY <1>1
<1>3. PICK kid : kid = [kids[1] EXCEPT !.field = field]
  OBVIOUS
<1>4. kid \in Kid /\ kid.field = field /\ kid.id = kids[1].id
  BY <1>2, <1>3 DEF Kid
<1>5. renamed = [kids EXCEPT ![1] = kid]
  BY <1>3
<1>6. /\ renamed \in Seq(Kid) /\ Len(renamed) = n
      /\ \A j \in 1..n : renamed[j] = IF j = 1 THEN kid ELSE kids[j]
  BY <1>1, <1>2, <1>4, <1>5, ExceptSeq
<1>7. renamed[1] = kid /\ \A j \in 2..n : renamed[j] = kids[j]
  <2>1. \A j \in 2..n : j \in 1..n /\ j # 1
    OBVIOUS
  <2>. QED  BY <1>2, <1>6, <2>1
<1>8. PICK fields \in Seq(Fields) : fields = FieldsOf(kids)
  BY FieldSequence
<1>9. Len(fields) = n /\ \A i \in 1..n : fields[i] = kids[i].field
  BY <1>1, <1>8, FieldSequence
<1>10. PICK called \in Seq(Fields) : called = FieldsOf(renamed)
  BY <1>6, FieldSequence
<1>11. Len(called) = n /\ \A i \in 1..n : called[i] = renamed[i].field
  BY <1>6, <1>10, FieldSequence
<1>12. called[1] = field /\ \A i \in 2..n : called[i] = fields[i]
  <2>1. \A j \in 2..n : j \in 1..n
    OBVIOUS
  <2>2. called[1] = field
    BY <1>2, <1>4, <1>7, <1>11
  <2>3. \A j \in 2..n : called[j] = fields[j]
    BY <1>7, <1>9, <1>11, <2>1
  <2>. QED  BY <2>2, <2>3
<1>13. fields[1] = known.first
  BY <1>2, <1>8, <1>9 DEF Ends
<1>14. Counted(called, FirstCalled(known, field).count)
  <2>1. /\ Len(fields) > 0 /\ Len(called) = Len(fields)
        /\ \A i \in 2..Len(fields) : called[i] = fields[i]
    BY <1>2, <1>9, <1>11, <1>12
  <2>2. Counted(fields, known.count) /\ Ends(fields, known)
    BY <1>8
  <2>. QED  BY <1>12, <2>1, <2>2, CountedFirst, Zenon
<1>15. FirstCalled(known, field).rows = known.rows
  BY DEF FirstCalled
<1>16. RowsFit(called, renamed, known.rows)
  <2>1. PICK rows : rows = known.rows
    OBVIOUS
  <2>2. fields[1] \notin StatementLists /\ called[1] \notin StatementLists
    BY <1>12, <1>13 DEF Plain
  <2>3. RowsFit(fields, kids, rows) /\ \A i \in 2..Len(kids) : renamed[i].id = kids[i].id
    BY <1>1, <1>7, <1>8, <2>1
  <2>4. RowsFit(called, renamed, rows)
    <3>1. /\ Len(called) = Len(fields) /\ Len(renamed) = Len(kids)
          /\ \A i \in 2..Len(fields) : called[i] = fields[i]
      BY <1>1, <1>6, <1>9, <1>11, <1>12
    <3>. QED  BY <2>2, <2>3, <3>1, RowsFirst, Zenon
  <2>. QED  BY <2>1, <2>4
<1>17. OfKinds(renamed)
  <2>1. field \notin DOMAIN KindOf
    BY DEF Plain
  <2>. QED  BY <1>1, <1>4, <1>6, <2>1 DEF OfKinds
<1>18. DOMAIN renamed = DOMAIN kids /\ \A i \in DOMAIN kids : renamed[i].id = kids[i].id
  BY <1>1, <1>4, <1>6, LenProperties
<1>19. KidIds(renamed) = KidIds(kids) /\ (Increasing(kids) => Increasing(renamed))
  BY <1>18 DEF KidIds, Increasing
<1>. QED  BY <1>6, <1>10, <1>14, <1>15, <1>16, <1>17, <1>19

LEMMA MakeOperandTree == ASSUME Sound, MakeOperand PROVE TreeInv'
<1>1. /\ outcome = "running" /\ Step \in Code /\ Step.op = "wrap" /\ tokens' = tokens
      /\ After \in Seq(Code)
  BY TopDoes DEF MakeOperand
<1>2. PICK point : TopAt(point)
  BY TopDoes DEF MakeOperand
<1>3. point.todo # <<>> /\ Head(point.todo) = Step /\ Tail(point.todo) = After
      /\ Successors(point) \subseteq Points
  BY <1>2, TopDoes DEF MakeOperand
<1>4. PICK type \in NodeTypes : type = Step.type
  BY <1>1, CodeAssumption
<1>5. PICK kids \in Seq(Kid) : kids = Frame.kids /\ kids # <<>>
  BY <1>1, TopFacts DEF MakeOperand
<1>6. PICK field \in Fields : field = Step.first
  BY <1>1, CodeAssumption
<1>7. PICK known : known = point.kids
  OBVIOUS
<1>8. /\ known.first \in DOMAIN known.count /\ known.count[known.first] = 1
      /\ field \notin DOMAIN known.count \ {known.first}
      /\ Plain(known.first) /\ Plain(field) /\ MayMake(type, FirstCalled(known, field))
  BY <1>1, <1>2, <1>3, <1>4, <1>6, <1>7 DEF TopAt, Right
<1>9. Counted(FieldsOf(kids), known.count) /\ Ends(FieldsOf(kids), known)
      /\ RowsFit(FieldsOf(kids), kids, known.rows)
  BY <1>2, <1>5, <1>7 DEF TopAt
<1>10. PICK renamed : renamed = [kids EXCEPT ![1] = [kids[1] EXCEPT !.field = field]]
  OBVIOUS
<1>11. PICK called : called = FirstCalled(known, field)
  OBVIOUS
<1>12. /\ renamed \in Seq(Kid) /\ OfKinds(renamed) /\ MayMake(type, called)
       /\ Counted(FieldsOf(renamed), called.count)
       /\ RowsFit(FieldsOf(renamed), renamed, called.rows)
       /\ KidIds(renamed) = KidIds(kids) /\ (Increasing(kids) => Increasing(renamed))
  <2>1. OfKinds(kids)
    BY <1>1, <1>5, TopFacts
  <2>. QED  BY <1>5, <1>8, <1>9, <1>10, <1>11, <2>1, FirstRenamed
<1>13. 1 \in 1..Len(kids) /\ kids[1] \in Kid
  BY <1>5
<1>14. KidIds(renamed) = Owned(Top) /\ (Increasing(Frame.kids) => Increasing(renamed))
  <2>1. Owned(Top) = KidIds(kids)
    BY <1>1, <1>5, TopFacts DEF Owned
  <2>. QED  BY <1>5, <1>12, <2>1
<1>15. nodes' = Append(nodes, NodeOf(type, renamed))
  <2>1. renamed = [Frame.kids EXCEPT ![1].field = Step.first]
    BY <1>5, <1>6, <1>10
  <2>. QED  BY <1>4, <2>1 DEF MakeOperand
<1>16. NodesGrow /\ WellFormedNodes' /\ StatementsApart' /\ NewId \in Nat
  BY <1>1, <1>12, <1>14, <1>15, NodeMade
<1>17. PICK left : left = [field |-> known.first, id |-> NewId]
  OBVIOUS
<1>18. known.first \in Fields /\ kids[1].field = known.first
  <2>1. kids[1].field = known.first
    <3>1. FieldsOf(kids)[1] = kids[1].field /\ Len(FieldsOf(kids)) = Len(kids) /\ Len(kids) > 0
      BY <1>13, FieldSequence, LenProperties
    <3>. QED  BY <1>9, <3>1 DEF Ends
  <2>. QED  BY <1>13, <2>1 DEF Kid
<1>19. left \in Kid /\ left.field = known.first
  BY <1>16, <1>17, <1>18 DEF Kid
<1>20. PICK only \in Seq(Kid) : only = <<left>>
  <2>1. <<left>> \in Seq(Kid)
    BY <1>19
  <2>. QED  BY <2>1
<1>21. Len(only) = 1 /\ only[1] = left
  BY <1>20
<1>22. PICK fields \in Seq(Fields) : fields = FieldsOf(only)
  BY FieldSequence
<1>23. fields = <<known.first>> /\ Len(fields) = 1
  <2>1. Len(fields) = 1 /\ fields[1] = known.first
    BY <1>19, <1>21, <1>22, FieldSequence
  <2>. QED  BY <2>1
<1>24. PICK frame : frame = [Frame EXCEPT !.todo = After, !.end = NoToken, !.kids = only]
  OBVIOUS
<1>25. /\ frame \in FrameRecord /\ frame.kids = only
       /\ frame.field = Frame.field /\ frame.todo = After
  <2>1. NoToken \in Int
    BY DEF NoToken
  <2>. QED  BY <1>1, <1>24, <2>1, TopFacts DEF FrameRecord
<1>26. stack' = [stack EXCEPT ![Top] = frame]
  BY <1>5, <1>17, <1>18, <1>20, <1>24 DEF MakeOperand, Frame
<1>27. PICK next : next = Point(After, point.field, OnlyKid(known.first))
  OBVIOUS
<1>28. /\ next \in Points /\ next.todo = frame.todo /\ next.field = NamedFor(frame.field)
       /\ next.kids = OnlyKid(known.first)
  <2>1. next \in Points
    BY <1>1, <1>3, <1>7, <1>27, BehindWrap
  <2>. QED  BY <1>2, <1>25, <1>27, <2>1 DEF TopAt, Point
<1>29. Counted(fields, next.kids.count) /\ Ends(fields, next.kids)
  BY <1>23, <1>28, FitOnly
<1>30. RowsFit(fields, only, next.kids.rows)'
  <2>1. PICK rows : rows = next.kids.rows
    OBVIOUS
  <2>2. Len(fields) \in 0..1
    BY <1>23
  <2>3. RowsFit(fields, only, rows)'
    BY <2>2, RowsShort
  <2>. QED  BY <2>1, <2>3
<1>31. OfKinds(only)'
  BY <1>8, <1>19, <1>21 DEF OfKinds, Plain
<1>32. PointInv' /\ KindInv'
  BY <1>1, <1>16, <1>22, <1>25, <1>26, <1>28, <1>29, <1>30, <1>31, TopGoesTo
<1>. QED  BY <1>16, <1>32 DEF TreeInv

-----------------------------------------------------------------------------
(* The tree of every file                                                  *)

LEMMA TreeStart == Init => TreeInv
<1> SUFFICES ASSUME Init PROVE TreeInv
  OBVIOUS
<1>1. PICK calls : calls = Calls("module", "", 0, TRUE)
  OBVIOUS
<1>2. stack = calls /\ nodes = <<>>
  BY <1>1, Zenon DEF Init
<1>3. "module" \in Rules /\ "" \in Fields /\ 0 \in Int /\ TRUE \in BOOLEAN
  <2>1. "module" \in Rules /\ "" \in Fields
    BY GrammarAssumption, Zenon
  <2>2. 0 \in Int /\ TRUE \in BOOLEAN
    OBVIOUS
  <2>. QED  BY <2>1, <2>2, Zenon
<1>4. stack \in Seq(FrameRecord) /\ \A k \in DOMAIN stack : stack[k].kids = <<>>
  BY StartedWith
<1>5. DOMAIN stack = 1..Len(calls) /\ Top = Len(calls) /\ Len(calls) \in Nat
  BY <1>2, <1>4, LenProperties DEF Top
<1>6. Entered("module", "") \subseteq Points
  BY PointsClosed
<1>7. ASSUME NEW k \in DOMAIN stack PROVE AtPoint(k) /\ OfKinds(stack[k].kids)
  <2>1. k \in 1..Len(calls) /\ stack[k].kids = <<>>
    BY <1>4, <1>5
  <2>2. PICK fields : fields = Awaited(calls, k)
    OBVIOUS
  <2>3. /\ fields \in Seq(Fields) /\ Len(fields) \in 0..1
        /\ \E point \in Points :
             /\ point.todo = calls[k].todo /\ point.field = NamedFor(calls[k].field)
             /\ Counted(fields, point.kids.count) /\ Ends(fields, point.kids)
    BY <1>1, <1>3, <1>6, <2>1, <2>2, CallsEntered
  <2>4. PICK point \in Points :
             /\ point.todo = calls[k].todo /\ point.field = NamedFor(calls[k].field)
             /\ Counted(fields, point.kids.count) /\ Ends(fields, point.kids)
    BY <2>3
  <2>5. Expected(k) = fields
    <3>1. FieldsOf(stack[k].kids) = <<>>
      BY <2>1 DEF FieldsOf
    <3>2. Append(<<>>, stack[k + 1].field) = <<stack[k + 1].field>>
      OBVIOUS
    <3>. QED  BY <1>2, <1>5, <2>2, <3>1, <3>2 DEF Expected, Awaited
  <2>6. RowsFit(fields, stack[k].kids, point.kids.rows)
    BY <2>3, RowsShort
  <2>7. IsAt(k, point)
    BY <1>2, <2>4, <2>5, <2>6 DEF IsAt
  <2>. QED  BY <2>1, <2>7 DEF AtPoint, OfKinds
<1>8. NodeIds = {}
  BY <1>2 DEF NodeIds
<1>. QED  BY <1>7, <1>8 DEF TreeInv, PointInv, KindInv, WellFormedNodes, StatementsApart

LEMMA TreeStep == Sound /\ [Next]_vars => TreeInv'
<1>1. ASSUME Sound, Next PROVE TreeInv'
  BY <1>1, ReadAnyTree, ReadTypeTree, CheckTree, BranchTree, LoopTree, CallTree,
     TailCallTree, DispatchTree, MakeOperandTree, MakeNodeTree, MakeModuleNodeTree,
     HandOnTree, FixEndTree, FixStartTree, RenameTree, ReassignTree,
     StartSubmodulesTree, ReadLiteralTree
  DEF Next
<1>2. ASSUME Sound, UNCHANGED vars PROVE TreeInv'
  BY <1>2, NothingMoves DEF vars
<1>. QED  BY <1>1, <1>2

LEMMA AlwaysSound == Spec => []Sound
<1>1. Ready /\ Forest /\ TreeInv /\ [Next]_vars => TreeInv'
  BY TreeStep DEF Sound
<1>2. Ready /\ Forest /\ TreeInv <=> Sound
  BY DEF Sound
<1>. QED  BY AlwaysForest, TreeStart, <1>1, <1>2, PTL DEF Spec

\* Whatever the file, every node that the parser makes is a value of its struct: no
\* NodeId field is left unset or set twice, nothing is put into a field that the struct
\* does not have, and a field that is named for a kind of node holds that kind.
THEOREM NodesAreWhole == Spec => []WellFormedNodes
<1>1. Sound => WellFormedNodes
  BY DEF Sound, TreeInv
<1>. QED  BY <1>1, AlwaysSound, PTL

\* Whatever the file, two statements, declarations or clauses in a row start on
\* different lines, or one of them is empty, in every list of them in the tree.
THEOREM StatementsAreApart == Spec => []StatementsApart
<1>1. Sound => StatementsApart
  BY DEF Sound, TreeInv
<1>. QED  BY <1>1, AlwaysSound, PTL

-----------------------------------------------------------------------------
(* How strongly operators bind: calls and their places                     *)

Places == PlacesWithin(PlaceDepth)

\* The node is one of an operator, and not in parentheses.
Bare(id) == IsOperator(nodes[id].type) /\ ~InParentheses(id)
AtLeast(id, strength) == Bare(id) => Strength[nodes[id].type] >= strength
IsChild(id, child, start) == Bare(id) =>
  /\ Strength[nodes[id].type] >= child.strength
  /\ child.begins = "start" => nodes[id].start = start
  /\ child.begins = "paren" => TokenType(nodes[id].start - 1) \in OpenParentheses
  /\ child.ends => nodes[id].end = index

\* What a place says of the children of a call that starts there, and of the tokens
\* at the cursor, is true of these.
KidsFit(kids, place, start) ==
  /\ kids = <<>> <=> place.first.begins = "none"
  /\ kids # <<>> => IsChild(kids[1].id, place.first, start)
  /\ \A i \in 2..Len(kids) : AtLeast(kids[i].id, place.rest)
ParenFits(paren) ==
  /\ paren = "next" => Peek(0) \in OpenParentheses
  /\ paren = "last" => TokenType(index - 1) \in OpenParentheses

\* Call k is at the place; as the innermost call; waiting for the call above it.
Sits(k, place) ==
  /\ place \in Places /\ place.todo = stack[k].todo
  /\ ~place.moved => stack[k].end = NoToken
Acts(k, place) == KidsFit(stack[k].kids, place, stack[k].start) /\ ParenFits(place.paren)
WaitsForFirst(k, place, above) ==
  /\ above.promise >= place.first.strength
  /\ place.first.begins = "start" => above.moved \/ stack[k + 1].start = stack[k].start
  /\ place.first.begins = "paren" =>
       above.moved \/ TokenType(stack[k + 1].start - 1) \in OpenParentheses
WaitsForMore(k, place, above) ==
  /\ above.promise >= place.rest /\ ~place.first.ends
  /\ KidsFit(stack[k].kids, place, stack[k].start)
Waits(k, place, above) ==
  /\ place.paren = "no" /\ place.first.begins # "none"
  /\ stack[k].kids = <<>> => WaitsForFirst(k, place, above)
  /\ stack[k].kids # <<>> => WaitsForMore(k, place, above)

\* The inductive invariant: the calls are at places that fit together.
PlacesFit(at) ==
  /\ at \in [1..Top -> Places]
  /\ \A k \in 1..Top : Sits(k, at[k])
  /\ Top > 0 => Acts(Top, at[Top])
  /\ \A k \in 1..(Top - 1) : Waits(k, at[k], at[k + 1])
PlaceInv == \E at : PlacesFit(at)
OperatorInv == PlaceInv /\ OperatorsBind

-----------------------------------------------------------------------------
LEMMA PlacesClosed ==
  /\ \A type : IsOperator(type) => Strength[type] \in 1..11
  /\ Closed = 12
  /\ PlacesIn("module", 0, FALSE, "no") \subseteq Places
  /\ \A place \in Places : /\ IsPlace(place) /\ Binds(place)
                           /\ NextPlaces(place) \subseteq Places
<1>1. Closed = 12 /\ Closed - 1 = 11
  BY DEF Closed
<1>. QED  BY <1>1, PlacesAssumption DEF Places, IsOperator

LEMMA PlaceFacts ==
  ASSUME NEW place \in Places
  PROVE  /\ place.promise \in 0..12 /\ place.rest \in 0..12 /\ place.moved \in BOOLEAN
         /\ place.first.strength \in 0..12 /\ place.first.ends \in BOOLEAN
         /\ Binds(place) /\ NextPlaces(place) \subseteq Places
<1>1. IsPlace(place) /\ Binds(place) /\ NextPlaces(place) \subseteq Places
  BY PlacesClosed
<1>. QED  BY <1>1 DEF IsPlace, Closed

LEMMA PlaceNumbers ==
  ASSUME NEW place \in Places
  PROVE  place.promise \in Int /\ place.rest \in Int /\ place.first.strength \in Int
<1>1. \A n \in 0..12 : n \in Int
  OBVIOUS
<1>. QED  BY <1>1, PlaceFacts, Zenon

LEMMA OperatorNumbers == \A type : IsOperator(type) => Strength[type] \in Int
<1>1. \A n \in 1..11 : n \in Int
  OBVIOUS
<1>. QED  BY <1>1, PlacesClosed, Zenon

\* Nodes stay what they are.
LEMMA BareKept ==
  ASSUME NodesGrow, NEW id \in DOMAIN nodes
  PROVE  nodes'[id] = nodes[id] /\ (Bare(id)' <=> Bare(id))
<1>1. nodes'[id] = nodes[id] /\ tokens' = tokens
  BY DEF NodesGrow
<1>. QED  BY <1>1 DEF Bare, InParentheses, TokenType

LEMMA AtLeastKept ==
  ASSUME NodesGrow, NEW id \in DOMAIN nodes, NEW strength, AtLeast(id, strength)
  PROVE  AtLeast(id, strength)'
  BY BareKept DEF AtLeast

LEMMA IsChildKept ==
  ASSUME NodesGrow, NEW id \in DOMAIN nodes, NEW child, NEW start,
         child.ends => index' = index, IsChild(id, child, start)
  PROVE  IsChild(id, child, start)'
<1>1. tokens' = tokens
  BY DEF NodesGrow
<1>. QED  BY <1>1, BareKept DEF IsChild, TokenType

LEMMA KidsFitKept ==
  ASSUME NodesGrow, NEW kids \in Seq(Kid), KidIds(kids) \subseteq DOMAIN nodes,
         NEW place, NEW start, place.first.ends => index' = index,
         KidsFit(kids, place, start)
  PROVE  KidsFit(kids, place, start)'
<1>1. \A i \in 1..Len(kids) : kids[i].id \in DOMAIN nodes
  BY KidsThere
<1>2. ASSUME kids # <<>> PROVE IsChild(kids[1].id, place.first, start)'
  <2>1. 1 \in 1..Len(kids)
    BY <1>2, EmptySeq, LenProperties
  <2>. QED  BY <1>1, <1>2, <2>1, IsChildKept DEF KidsFit
<1>3. ASSUME NEW i \in 2..Len(kids) PROVE AtLeast(kids[i].id, place.rest)'
  <2>1. i \in 1..Len(kids)
    BY LenProperties
  <2>. QED  BY <1>1, <2>1, AtLeastKept DEF KidsFit
<1>. QED  BY <1>2, <1>3 DEF KidsFit

-----------------------------------------------------------------------------
(* The places behind each step                                             *)

LEMMA PlaceParts ==
  ASSUME NEW todo, NEW promise, NEW moved, NEW paren, NEW first, NEW rest,
         NEW place, place = Place(todo, promise, moved, paren, first, rest)
  PROVE  /\ place.todo = todo /\ place.promise = promise /\ place.moved = moved
         /\ place.paren = paren /\ place.first = first /\ place.rest = rest
  BY DEF Place

\* What is known of the first child, but for its end, its beginning or its strength.
LEMMA ChildParts ==
  ASSUME NEW place \in Places, NEW begins
  PROVE  /\ [place.first EXCEPT !.ends = FALSE].strength = place.first.strength
         /\ [place.first EXCEPT !.ends = FALSE].begins = place.first.begins
         /\ [place.first EXCEPT !.ends = FALSE].ends = FALSE
         /\ [place.first EXCEPT !.begins = begins].strength = place.first.strength
         /\ [place.first EXCEPT !.begins = begins].begins = begins
         /\ [place.first EXCEPT !.begins = begins].ends = place.first.ends
         /\ [place.first EXCEPT !.strength = Closed].strength = Closed
         /\ [place.first EXCEPT !.strength = Closed].begins = place.first.begins
         /\ [place.first EXCEPT !.strength = Closed].ends = place.first.ends
<1>1. place.first \in [strength : 0..Closed, ends : BOOLEAN,
                       begins : {"none", "start", "paren", "any"}]
  BY PlacesClosed DEF IsPlace
<1>2. PICK first : first = place.first
  OBVIOUS
<1>3. first \in [strength : 0..Closed, ends : BOOLEAN,
                  begins : {"none", "start", "paren", "any"}]
  BY <1>1, <1>2
<1>4. /\ [first EXCEPT !.ends = FALSE].strength = first.strength
      /\ [first EXCEPT !.ends = FALSE].begins = first.begins
      /\ [first EXCEPT !.ends = FALSE].ends = FALSE
  BY <1>3
<1>5. /\ [first EXCEPT !.begins = begins].strength = first.strength
      /\ [first EXCEPT !.begins = begins].begins = begins
      /\ [first EXCEPT !.begins = begins].ends = first.ends
  BY <1>3
<1>6. /\ [first EXCEPT !.strength = Closed].strength = Closed
      /\ [first EXCEPT !.strength = Closed].begins = first.begins
      /\ [first EXCEPT !.strength = Closed].ends = first.ends
  BY <1>3
<1>. QED  BY <1>2, <1>4, <1>5, <1>6

LEMMA NextToken ==
  ASSUME NEW place, place.todo # <<>>, Head(place.todo).op \in {"advance", "take"}
  PROVE  Place(Tail(place.todo), place.promise, place.moved, OneOn(place.paren),
               [place.first EXCEPT !.ends = FALSE], place.rest) \in NextPlaces(place)
  BY DEF NextPlaces

LEMMA NextSame ==
  ASSUME NEW place, place.todo # <<>>,
         Head(place.todo).op \in {"open_module", "reread", "relabel", "while", "switch"}
  PROVE  Place(Tail(place.todo), place.promise, place.moved, place.paren,
               place.first, place.rest) \in NextPlaces(place)
  BY DEF NextPlaces

LEMMA NextEarly ==
  ASSUME NEW place, place.todo # <<>>, Head(place.todo).op = "early"
  PROVE  Place(Tail(place.todo), place.promise, TRUE, place.paren,
               place.first, place.rest) \in NextPlaces(place)
  BY DEF NextPlaces

LEMMA NextStart ==
  ASSUME NEW place, place.todo # <<>>, Head(place.todo).op = "start"
  PROVE  Place(Tail(place.todo), place.promise, TRUE, place.paren,
               [place.first EXCEPT !.begins =
                  IF place.first.begins = "start" THEN "any" ELSE place.first.begins],
               place.rest) \in NextPlaces(place)
  BY DEF NextPlaces

LEMMA NextRequire ==
  ASSUME NEW place, place.todo # <<>>, Head(place.todo).op = "require"
  PROVE  Place(Tail(place.todo), place.promise, place.moved, place.paren,
               Tested(Head(place.todo).test, place.first), place.rest) \in NextPlaces(place)
  BY DEF NextPlaces

LEMMA NextChoose ==
  ASSUME NEW place, place.todo # <<>>, Head(place.todo).op = "choose",
         NEW cases, cases = Head(place.todo).cases
  PROVE  /\ \A i \in DOMAIN cases :
              Place(cases[i].code \o Tail(place.todo), place.promise, place.moved,
                    place.paren, Tested(cases[i].test, place.first), place.rest)
                \in NextPlaces(place)
         /\ (\A i \in DOMAIN cases : cases[i].test.test # "always") =>
              Place(Tail(place.todo), place.promise, place.moved, place.paren,
                    place.first, place.rest) \in NextPlaces(place)
  BY DEF NextPlaces

LEMMA NextWhile ==
  ASSUME NEW place, place.todo # <<>>, Head(place.todo).op = "while"
  PROVE  Place(Head(place.todo).code \o place.todo, place.promise, place.moved,
               place.paren, place.first, place.rest) \in NextPlaces(place)
  BY DEF NextPlaces

LEMMA NextParse ==
  ASSUME NEW place, place.todo # <<>>, NEW step, step = Head(place.todo), step.op = "parse",
         NEW rest, rest = Tail(place.todo)
  PROVE  /\ PlacesIn(step.rule, Demand(rest), FALSE, "no") \subseteq NextPlaces(place)
         /\ place.first.begins = "none" =>
              Place(rest, place.promise, place.moved, "no",
                    Child(Demand(rest), IF step.own /\ place.paren = "last"
                                        THEN "paren" ELSE "any"), place.rest)
                \in NextPlaces(place)
         /\ place.first.begins # "none" =>
              Place(rest, place.promise, place.moved, "no",
                    [place.first EXCEPT !.ends = FALSE],
                    IF Demand(rest) < place.rest THEN Demand(rest) ELSE place.rest)
                \in NextPlaces(place)
  BY DEF NextPlaces

LEMMA NextGoto ==
  ASSUME NEW place, place.todo # <<>>, Head(place.todo).op = "goto"
  PROVE  PlacesIn(Head(place.todo).rule, place.promise, place.moved, place.paren)
           \subseteq NextPlaces(place)
  BY DEF NextPlaces

LEMMA NextSwitch ==
  ASSUME NEW place, place.todo # <<>>, Head(place.todo).op = "switch",
         NEW row \in Switches[Head(place.todo).table]
  PROVE  PlacesIn(row.rule, place.promise, place.moved,
                  IF Opens(row) THEN "next" ELSE place.paren) \subseteq NextPlaces(place)
  BY DEF NextPlaces

LEMMA NextWrap ==
  ASSUME NEW place, place.todo # <<>>, Head(place.todo).op = "wrap"
  PROVE  Place(Tail(place.todo), place.promise, place.moved, place.paren,
               IF IsOperator(Head(place.todo).type)
               THEN Child(Strength[Head(place.todo).type], "start")
               ELSE [strength |-> Closed, begins |-> "any", ends |-> FALSE], Closed)
           \in NextPlaces(place)
  BY DEF NextPlaces

LEMMA NextOverwrite ==
  ASSUME NEW place, place.todo # <<>>, Head(place.todo).op = "overwrite"
  PROVE  Place(Tail(place.todo), place.promise, place.moved, place.paren,
               [strength |-> 0, begins |-> "any", ends |-> FALSE], 0) \in NextPlaces(place)
  BY DEF NextPlaces

-----------------------------------------------------------------------------
(* Calls and their places: what a step leaves alone                        *)

LEMMA CallFacts ==
  ASSUME Ready, Forest
  PROVE  /\ stack \in Seq(FrameRecord) /\ Top \in Nat /\ DOMAIN stack = 1..Top /\ Top = Len(stack)
         /\ \A k \in 1..Top : /\ stack[k] \in FrameRecord /\ stack[k].kids \in Seq(Kid)
                              /\ KidIds(stack[k].kids) \subseteq DOMAIN nodes
<1>1. /\ stack \in Seq(FrameRecord) /\ Top \in Nat /\ DOMAIN stack = 1..Top /\ Top = Len(stack)
  BY NodeNumbers DEF Ready, TypeOK, Top
<1>2. \A k \in 1..Top : stack[k] \in FrameRecord
  BY <1>1
<1>3. \A k \in 1..Top : KidIds(stack[k].kids) \subseteq DOMAIN nodes
  BY <1>1 DEF Forest, HoldsNodes, Owned
<1>. QED  BY <1>1, <1>2, <1>3, FrameFacts

\* The innermost call is at this place, and does its next step.
LEMMA PlaceDoes ==
  ASSUME Ready, Forest, NEW op, Does(op), NEW at, PlacesFit(at)
  PROVE  /\ outcome = "running" /\ Step \in Code /\ Step.op = op /\ After \in Seq(Code)
         /\ Top \in 1..Top /\ Frame = stack[Top] /\ Frame \in FrameRecord
         /\ Frame.kids \in Seq(Kid) /\ KidIds(Frame.kids) \subseteq DOMAIN nodes
         /\ Frame.todo \in Seq(Code)
         /\ \E place \in Places :
              /\ place = at[Top] /\ place.todo = Frame.todo /\ place.todo # <<>>
              /\ Head(place.todo) = Step /\ Tail(place.todo) = After
              /\ NextPlaces(place) \subseteq Places /\ Binds(place)
              /\ ~place.moved => Frame.end = NoToken
              /\ KidsFit(Frame.kids, place, Frame.start) /\ ParenFits(place.paren)
<1>1. outcome = "running" /\ Step \in Code /\ Step.op = op /\ After \in Seq(Code)
  BY TopStep
<1>2. Top \in 1..Top /\ Frame = stack[Top] /\ Frame \in FrameRecord
  BY <1>1, TopFrame, CallFacts DEF Frame
<1>3. /\ Frame.kids \in Seq(Kid) /\ KidIds(Frame.kids) \subseteq DOMAIN nodes
      /\ Frame.todo \in Seq(Code)
  BY <1>2, CallFacts, FrameFacts
<1>4. PICK place \in Places : place = at[Top]
  BY <1>2 DEF PlacesFit
<1>5. Sits(Top, place) /\ Acts(Top, place)
  BY <1>2, <1>4 DEF PlacesFit
<1>6. place.todo = Frame.todo /\ (~place.moved => Frame.end = NoToken)
      /\ KidsFit(Frame.kids, place, Frame.start) /\ ParenFits(place.paren)
  BY <1>2, <1>5 DEF Sits, Acts
<1>7. place.todo # <<>> /\ Head(place.todo) = Step /\ Tail(place.todo) = After
  BY <1>6 DEF Does, Step, After
<1>8. NextPlaces(place) \subseteq Places /\ Binds(place)
  BY PlacesClosed
<1>. QED  BY <1>1, <1>2, <1>3, <1>4, <1>6, <1>7, <1>8

\* A call that waits goes on waiting, for a call that keeps its promise.
LEMMA WaitsKept ==
  ASSUME Ready, Forest, NodesGrow, NEW k \in 1..Top, NEW place, NEW above, NEW over,
         stack'[k].kids = stack[k].kids, stack'[k].start = stack[k].start,
         over.promise = above.promise,
         ~over.moved => ~above.moved /\ stack'[k + 1].start = stack[k + 1].start,
         Waits(k, place, above)
  PROVE  Waits(k, place, over)'
<1>1. PICK kids \in Seq(Kid) : kids = stack[k].kids
  BY CallFacts
<1>2. KidIds(kids) \subseteq DOMAIN nodes /\ stack'[k].kids = kids
  BY <1>1, CallFacts
<1>3. ASSUME kids = <<>> PROVE WaitsForFirst(k, place, over)'
  <2>1. WaitsForFirst(k, place, above)
    BY <1>1, <1>3 DEF Waits
  <2>2. tokens' = tokens
    BY DEF NodesGrow
  <2>. QED  BY <2>1, <2>2 DEF WaitsForFirst, TokenType
<1>4. ASSUME kids # <<>> PROVE WaitsForMore(k, place, over)'
  <2>1. WaitsForMore(k, place, above)
    BY <1>1, <1>4 DEF Waits
  <2>2. PICK start : start = stack[k].start
    OBVIOUS
  <2>3. ~place.first.ends /\ KidsFit(kids, place, start)
    BY <1>1, <2>1, <2>2 DEF WaitsForMore
  <2>4. KidsFit(kids, place, start)'
    BY <1>2, <2>3, KidsFitKept
  <2>. QED  BY <1>1, <2>1, <2>2, <2>4 DEF WaitsForMore
<1>. QED  BY <1>1, <1>3, <1>4 DEF Waits

\* The innermost call goes on, with other children perhaps.
LEMMA TopMoves ==
  ASSUME Ready, Forest, outcome = "running", NodesGrow, NEW at, PlacesFit(at),
         NEW frame \in FrameRecord, stack' = [stack EXCEPT ![Top] = frame],
         NEW place \in Places, place.todo = frame.todo, place.promise = at[Top].promise,
         ~place.moved => /\ ~at[Top].moved /\ frame.start = Frame.start
                         /\ frame.end = NoToken,
         KidsFit(frame.kids, place, frame.start)', ParenFits(place.paren)'
  PROVE  PlaceInv'
<1>1. /\ stack' \in Seq(FrameRecord) /\ Len(stack') = Top /\ stack'[Top] = frame
      /\ \A k \in 1..(Top - 1) : stack'[k] = stack[k]
  BY ReplaceTop
<1>2. Top' = Top /\ Top \in Nat \ {0}
  BY <1>1, TopFrame DEF Top
<1>3. PICK t \in Nat \ {0} : t = Top
  BY <1>2
<1>4. PICK now : now = [k \in 1..t |-> IF k = t THEN place ELSE at[k]]
  OBVIOUS
<1>5. /\ now \in [1..t -> Places] /\ now[t] = place
      /\ \A k \in 1..(t - 1) : now[k] = at[k]
  BY <1>3, <1>4 DEF PlacesFit
<1>6. Sits(t, now[t])' /\ Acts(t, now[t])'
  BY <1>1, <1>3, <1>5 DEF Sits, Acts
<1>7. ASSUME NEW k \in 1..(t - 1) PROVE Sits(k, now[k])'
  <2>1. Sits(k, at[k]) /\ stack'[k] = stack[k] /\ now[k] = at[k]
    BY <1>1, <1>3, <1>5, <1>7 DEF PlacesFit
  <2>. QED  BY <2>1 DEF Sits
<1>8. ASSUME NEW k \in 1..(t - 1) PROVE Waits(k, now[k], now[k + 1])'
  <2>1. Waits(k, at[k], at[k + 1]) /\ stack'[k] = stack[k] /\ now[k] = at[k] /\ k \in 1..Top
    BY <1>1, <1>3, <1>5, <1>8 DEF PlacesFit
  <2>2. PICK above, over, here : above = at[k + 1] /\ over = now[k + 1] /\ here = at[k]
    OBVIOUS
  <2>3. /\ over.promise = above.promise
        /\ ~over.moved => ~above.moved /\ stack'[k + 1].start = stack[k + 1].start
    <3>1. CASE k + 1 = t
      BY <1>1, <1>3, <1>5, <2>2, <3>1 DEF Frame
    <3>2. CASE k + 1 \in 1..(t - 1)
      BY <1>1, <1>3, <1>5, <2>2, <3>2
    <3>. QED  BY <1>3, <3>1, <3>2
  <2>4. Waits(k, here, over)'
    BY <2>1, <2>2, <2>3, WaitsKept
  <2>. QED  BY <2>1, <2>2, <2>4
<1>9. \A k \in 1..t : k = t \/ k \in 1..(t - 1)
  BY <1>3
<1>10. PlacesFit(now)'
  <2>1. \A k \in 1..t : Sits(k, now[k])'
    BY <1>6, <1>7, <1>9
  <2>. QED  BY <1>2, <1>3, <1>5, <1>6, <1>8, <2>1 DEF PlacesFit
<1>. QED  BY <1>10 DEF PlaceInv

\* It keeps its children, of which the step may say more or less.
LEMMA TopStays ==
  ASSUME Ready, Forest, outcome = "running", tokens' = tokens, nodes' = nodes,
         index' = index, NEW at, PlacesFit(at), NEW todo \in Seq(Code), Continue(todo),
         NEW place \in Places, place.todo = todo, place.promise = at[Top].promise,
         place.moved = at[Top].moved, place.paren = at[Top].paren,
         ~place.moved => Frame.end = NoToken,
         KidsFit(Frame.kids, place, Frame.start), ParenFits(place.paren)
  PROVE  PlaceInv'
<1>1. PICK frame : frame = [Frame EXCEPT !.todo = todo]
  OBVIOUS
<1>2. frame \in FrameRecord /\ stack' = [stack EXCEPT ![Top] = frame] /\ Frame \in FrameRecord
  BY <1>1, ContinueTop, TopFrame
<1>3. /\ frame.kids = Frame.kids /\ frame.todo = todo /\ frame.start = Frame.start
      /\ frame.end = Frame.end
  BY <1>1, <1>2 DEF FrameRecord
<1>4. PICK kids \in Seq(Kid), start \in Int : kids = Frame.kids /\ start = Frame.start
  BY <1>2, FrameFacts
<1>5. KidIds(kids) \subseteq DOMAIN nodes
  BY <1>4, TopFrame, CallFacts DEF Frame
<1>6. NodesGrow
  BY DEF NodesGrow
<1>7. KidsFit(kids, place, start)'
  BY <1>4, <1>5, <1>6, KidsFitKept
<1>8. ParenFits(place.paren)'
  BY DEF ParenFits, Peek, TokenType
<1>. QED  BY <1>2, <1>3, <1>4, <1>6, <1>7, <1>8, TopMoves

\* Nothing happens to the calls.
LEMMA PlacesStay ==
  ASSUME Ready, Forest, PlaceInv, tokens' = tokens, nodes' = nodes, index' = index,
         stack' = stack
  PROVE  PlaceInv'
<1>1. PICK at : PlacesFit(at)
  BY DEF PlaceInv
<1>2. PlacesFit(at)'
  <2>1. /\ Top' = Top
        /\ \A kids, place, start :
             KidsFit(kids, place, start)' <=> KidsFit(kids, place, start)
    BY DEF Top, KidsFit, IsChild, AtLeast, Bare, InParentheses, TokenType
  <2>2. \A paren : ParenFits(paren)' <=> ParenFits(paren)
    BY DEF ParenFits, Peek, TokenType
  <2>3. \A k, place : Sits(k, place)' <=> Sits(k, place)
    BY DEF Sits
  <2>4. \A k, place, above : Waits(k, place, above)' <=> Waits(k, place, above)
    BY <2>1 DEF Waits, WaitsForFirst, WaitsForMore, TokenType
  <2>. QED  BY <1>1, <2>1, <2>2, <2>3, <2>4 DEF PlacesFit, Acts
<1>. QED  BY <1>2 DEF PlaceInv

-----------------------------------------------------------------------------
(* The steps that go on                                                    *)

LEMMA PeekToken ==
  ASSUME Ready
  PROVE  /\ index < Len(tokens) => Peek(0) = tokens[index + 1].type
         /\ Peek(0) # "past the end" => index < Len(tokens)
<1>1. index \in Nat /\ Len(tokens) \in Nat
  BY TokensThere
<1>2. index + 0 = index
  BY <1>1
<1>. QED  BY <1>2 DEF Peek

\* A token is read: what was next is the last one.
LEMMA TokenRead ==
  ASSUME Ready, Forest, PlaceInv, NEW op \in {"advance", "take"}, Does(op),
         index < Len(tokens), index' = index + 1, Continue(After), UNCHANGED Output
  PROVE  PlaceInv'
<1>1. PICK at : PlacesFit(at)
  BY DEF PlaceInv
<1>2. /\ outcome = "running" /\ Step.op = op /\ After \in Seq(Code)
      /\ Frame \in FrameRecord /\ Frame.kids \in Seq(Kid)
      /\ KidIds(Frame.kids) \subseteq DOMAIN nodes /\ tokens' = tokens /\ nodes' = nodes
  BY <1>1, PlaceDoes DEF Output
<1>3. PICK place \in Places :
        /\ place = at[Top] /\ place.todo = Frame.todo /\ place.todo # <<>>
        /\ Head(place.todo) = Step /\ Tail(place.todo) = After
        /\ NextPlaces(place) \subseteq Places
        /\ ~place.moved => Frame.end = NoToken
        /\ KidsFit(Frame.kids, place, Frame.start) /\ ParenFits(place.paren)
  BY <1>1, PlaceDoes
<1>4. PICK first : first = [place.first EXCEPT !.ends = FALSE]
  OBVIOUS
<1>5. first.strength = place.first.strength /\ first.begins = place.first.begins /\ ~first.ends
  BY <1>4, ChildParts
<1>6. PICK next : next = Place(After, place.promise, place.moved, OneOn(place.paren),
                               first, place.rest)
  OBVIOUS
<1>7. next \in Places
  BY <1>2, <1>3, <1>4, <1>6, NextToken
<1>8. /\ next.todo = After /\ next.promise = place.promise /\ next.moved = place.moved
      /\ next.paren = OneOn(place.paren) /\ next.first = first /\ next.rest = place.rest
  BY <1>6, PlaceParts
<1>9. PICK frame : frame = [Frame EXCEPT !.todo = After]
  OBVIOUS
<1>10. frame \in FrameRecord /\ stack' = [stack EXCEPT ![Top] = frame]
  BY <1>2, <1>9, ContinueTop
<1>11. /\ frame.kids = Frame.kids /\ frame.todo = After /\ frame.start = Frame.start
       /\ frame.end = Frame.end
  BY <1>2, <1>9 DEF FrameRecord
<1>12. PICK kids \in Seq(Kid), start \in Int : kids = Frame.kids /\ start = Frame.start
  BY <1>2, FrameFacts
<1>13. NodesGrow
  BY <1>2 DEF NodesGrow
<1>14. KidsFit(kids, next, start)
  BY <1>3, <1>5, <1>8, <1>12 DEF KidsFit, IsChild
<1>15. KidsFit(kids, next, start)'
  BY <1>2, <1>5, <1>8, <1>12, <1>13, <1>14, KidsFitKept
<1>16. ParenFits(next.paren)'
  <2>1. index \in Nat /\ Len(tokens) \in Nat
    BY TokensThere
  <2>2. (index' - 1) + 1 = index + 1
    BY <2>1
  <2>3. TokenType(index - 1)' = Peek(0)
    BY <1>2, <2>2, PeekToken DEF TokenType
  <2>4. next.paren \in {"last", "no"} /\ (next.paren = "last" => place.paren = "next")
    BY <1>8 DEF OneOn
  <2>. QED  BY <1>3, <2>3, <2>4 DEF ParenFits
<1>. QED  BY <1>1, <1>2, <1>3, <1>7, <1>8, <1>10, <1>11, <1>12, <1>13, <1>15, <1>16, TopMoves

LEMMA ReadAnyPlaces == ASSUME Ready, Forest, PlaceInv, ReadAny PROVE PlaceInv'
  BY TokenRead DEF ReadAny

LEMMA RefusePlaces == ASSUME Ready, Forest, PlaceInv, Refuse PROVE PlaceInv'
  BY PlacesStay DEF Refuse

LEMMA ReadTypePlaces == ASSUME Ready, Forest, PlaceInv, ReadType PROVE PlaceInv'
<1>1. ASSUME Peek(0) \in Step.types, index' = index + 1, Continue(After), UNCHANGED Output
      PROVE  PlaceInv'
  <2>1. "past the end" \notin Step.types
    BY TopStep, CodeAssumption DEF ReadType
  <2>2. index < Len(tokens)
    BY <1>1, <2>1, PeekToken
  <2>. QED  BY <1>1, <2>2, TokenRead DEF ReadType
<1>. QED  BY <1>1, RefusePlaces DEF ReadType

\* Of a child between parentheses nothing more needs to be known.
LEMMA TestFits ==
  ASSUME Ready, NEW test, Holds(test, Frame), NEW id, NEW place \in Places, NEW start,
         IsChild(id, place.first, start)
  PROVE  /\ IsChild(id, Tested(test, place.first), start)
         /\ Tested(test, place.first).begins = place.first.begins
<1>1. PICK first : first = [place.first EXCEPT !.strength = Closed]
  OBVIOUS
<1>2. /\ first.strength = Closed /\ first.begins = place.first.begins
      /\ first.ends = place.first.ends
  BY <1>1, ChildParts
<1>3. CASE Closes(test, place.first)
  <2>1. Tested(test, place.first) = first
    BY <1>1, <1>3 DEF Tested
  <2>2. /\ test.test = "ahead" /\ 1 \in DOMAIN test.on /\ test.on[1] \subseteq CloseParentheses
        /\ place.first.begins = "paren" /\ place.first.ends
    BY <1>3 DEF Closes
  <2>3. Peek(0) \in CloseParentheses
    <3>1. Peek(1 - 1) \in test.on[1]
      BY <2>2 DEF Holds
    <3>. QED  BY <2>2, <3>1
  <2>4. TokenType(index) \in CloseParentheses
    <3>1. "past the end" \notin CloseParentheses
      BY DEF CloseParentheses
    <3>. QED  BY <2>3, <3>1, PeekToken DEF TokenType
  <2>5. ~Bare(id)
    BY <2>2, <2>4 DEF IsChild, Bare, InParentheses
  <2>. QED  BY <1>2, <2>1, <2>5 DEF IsChild
<1>4. CASE ~Closes(test, place.first)
  BY <1>4 DEF Tested
<1>. QED  BY <1>3, <1>4

\* The innermost call goes on where the test is passed.
LEMMA TestPlaces ==
  ASSUME Ready, Forest, NEW at, PlacesFit(at), NEW op, Does(op),
         NEW test, Holds(test, Frame), NEW todo \in Seq(Code), Continue(todo),
         UNCHANGED <<Output, index>>,
         \A place : place = at[Top] =>
           Place(todo, place.promise, place.moved, place.paren,
                 Tested(test, place.first), place.rest) \in Places
  PROVE  PlaceInv'
<1>1. /\ outcome = "running" /\ tokens' = tokens /\ nodes' = nodes /\ index' = index
      /\ Frame.kids \in Seq(Kid)
  BY PlaceDoes DEF Output
<1>2. PICK place \in Places :
        /\ place = at[Top] /\ place.todo = Frame.todo
        /\ ~place.moved => Frame.end = NoToken
        /\ KidsFit(Frame.kids, place, Frame.start) /\ ParenFits(place.paren)
  BY PlaceDoes
<1>3. PICK first : first = Tested(test, place.first)
  OBVIOUS
<1>4. PICK next : next = Place(todo, place.promise, place.moved, place.paren, first, place.rest)
  OBVIOUS
<1>5. next \in Places
  BY <1>2, <1>3, <1>4
<1>6. /\ next.todo = todo /\ next.promise = place.promise /\ next.moved = place.moved
      /\ next.paren = place.paren /\ next.first = first /\ next.rest = place.rest
  BY <1>4, PlaceParts
<1>7. first.begins = place.first.begins
  BY <1>3, ChildParts DEF Tested
<1>8. KidsFit(Frame.kids, next, Frame.start)
  <2>1. Frame.kids # <<>> => IsChild(Frame.kids[1].id, first, Frame.start)
    BY <1>2, <1>3, TestFits DEF KidsFit
  <2>. QED  BY <1>2, <1>6, <1>7, <2>1 DEF KidsFit
<1>. QED  BY <1>1, <1>2, <1>5, <1>6, <1>8, TopStays

LEMMA CheckPlaces == ASSUME Ready, Forest, PlaceInv, Check PROVE PlaceInv'
<1>1. ASSUME Holds(Step.test, Frame), Continue(After), UNCHANGED <<Output, index>> PROVE PlaceInv'
  <2>1. PICK at : PlacesFit(at)
    BY DEF PlaceInv
  <2>2. Does("require") /\ After \in Seq(Code) /\ Step.op = "require"
    BY TopStep DEF Check
  <2>3. \A place : place = at[Top] =>
          Place(After, place.promise, place.moved, place.paren,
                Tested(Step.test, place.first), place.rest) \in Places
    <3>1. PICK place \in Places : /\ place = at[Top] /\ place.todo # <<>>
                                  /\ Head(place.todo) = Step /\ Tail(place.todo) = After
                                  /\ NextPlaces(place) \subseteq Places
      BY <2>1, <2>2, PlaceDoes
    <3>. QED  BY <2>2, <3>1, NextRequire
  <2>. QED  BY <1>1, <2>1, <2>2, <2>3, TestPlaces
<1>. QED  BY <1>1, RefusePlaces DEF Check

\* It goes on, and nothing else is known.
LEMMA JustGoesOn ==
  ASSUME Ready, Forest, NEW at, PlacesFit(at), NEW op, Does(op),
         NEW todo \in Seq(Code), Continue(todo), UNCHANGED <<Output, index>>,
         \A place : place = at[Top] =>
           Place(todo, place.promise, place.moved, place.paren, place.first, place.rest) \in Places
  PROVE  PlaceInv'
<1>1. PICK test : test = [test |-> "always"]
  OBVIOUS
<1>2. test.test = "always"
  BY <1>1
<1>3. Holds(test, Frame) /\ \A first : Tested(test, first) = first
  BY <1>2 DEF Holds, Tested, Closes
<1>. QED  BY <1>3, TestPlaces

LEMMA BranchPlaces == ASSUME Ready, Forest, PlaceInv, Branch PROVE PlaceInv'
<1>1. PICK at : PlacesFit(at)
  BY DEF PlaceInv
<1>2. /\ Does("choose") /\ Step \in Code /\ Step.op = "choose" /\ After \in Seq(Code)
      /\ UNCHANGED <<Output, index>>
  BY TopStep DEF Branch
<1>3. PICK place \in Places : /\ place = at[Top] /\ place.todo # <<>>
                              /\ Head(place.todo) = Step /\ Tail(place.todo) = After
                              /\ NextPlaces(place) \subseteq Places
  BY <1>1, <1>2, PlaceDoes
<1>4. ASSUME NEW i \in DOMAIN Step.cases, Holds(Step.cases[i].test, Frame),
             Continue(Step.cases[i].code \o After)
      PROVE  PlaceInv'
  <2>1. Step.cases[i].code \o After \in Seq(Code)
    BY <1>2, CodeAssumption, ConcatProperties
  <2>2. Place(Step.cases[i].code \o After, place.promise, place.moved, place.paren,
              Tested(Step.cases[i].test, place.first), place.rest) \in Places
    BY <1>2, <1>3, NextChoose
  <2>. QED  BY <1>1, <1>2, <1>3, <1>4, <2>1, <2>2, TestPlaces
<1>5. ASSUME \A i \in DOMAIN Step.cases : ~Holds(Step.cases[i].test, Frame), Continue(After)
      PROVE  PlaceInv'
  <2>1. \A test : test.test = "always" => Holds(test, Frame)
    BY DEF Holds
  <2>2. \A i \in DOMAIN Step.cases : Step.cases[i].test.test # "always"
    BY <1>5, <2>1
  <2>3. Place(After, place.promise, place.moved, place.paren, place.first, place.rest) \in Places
    BY <1>2, <1>3, <2>2, NextChoose
  <2>. QED  BY <1>1, <1>2, <1>3, <1>5, <2>3, JustGoesOn
<1>. QED  BY <1>4, <1>5 DEF Branch

LEMMA LoopPlaces == ASSUME Ready, Forest, PlaceInv, Loop PROVE PlaceInv'
<1>1. PICK at : PlacesFit(at)
  BY DEF PlaceInv
<1>2. /\ Does("while") /\ Step \in Code /\ Step.op = "while" /\ After \in Seq(Code)
      /\ UNCHANGED <<Output, index>> /\ Frame.todo \in Seq(Code)
  BY <1>1, PlaceDoes DEF Loop
<1>3. PICK place \in Places : /\ place = at[Top] /\ place.todo # <<>> /\ place.todo = Frame.todo
                              /\ Head(place.todo) = Step /\ Tail(place.todo) = After
                              /\ NextPlaces(place) \subseteq Places
  BY <1>1, <1>2, PlaceDoes
<1>4. Step.code \o Frame.todo \in Seq(Code)
  BY <1>2, CodeAssumption, ConcatProperties
<1>5. /\ Place(After, place.promise, place.moved, place.paren, place.first, place.rest) \in Places
      /\ Place(Step.code \o Frame.todo, place.promise, place.moved, place.paren,
               place.first, place.rest) \in Places
  BY <1>2, <1>3, NextSame, NextWhile
<1>6. Continue(After) \/ Continue(Step.code \o Frame.todo)
  BY DEF Loop
<1>. QED  BY <1>1, <1>2, <1>3, <1>4, <1>5, <1>6, JustGoesOn

LEMMA ReadLiteralPlaces == ASSUME Ready, Forest, PlaceInv, ReadLiteral PROVE PlaceInv'
<1>1. ASSUME Continue(After), UNCHANGED <<Output, index>> PROVE PlaceInv'
  <2>1. PICK at : PlacesFit(at)
    BY DEF PlaceInv
  <2>2. Does("reread") /\ Step.op = "reread" /\ After \in Seq(Code)
    BY TopStep DEF ReadLiteral
  <2>3. PICK place \in Places : /\ place = at[Top] /\ place.todo # <<>>
                                /\ Head(place.todo) = Step /\ Tail(place.todo) = After
                                /\ NextPlaces(place) \subseteq Places
    BY <2>1, <2>2, PlaceDoes
  <2>4. Place(After, place.promise, place.moved, place.paren, place.first, place.rest) \in Places
    BY <2>2, <2>3, NextSame
  <2>. QED  BY <1>1, <2>1, <2>2, <2>3, <2>4, JustGoesOn
<1>. QED  BY <1>1, PlacesStay DEF ReadLiteral

-----------------------------------------------------------------------------
(* The steps that call                                                     *)

\* The calls that are put on top of those that go on.
Pushed(base, b, calls, rule, start) ==
  /\ b \in Nat /\ Len(calls) \in Nat \ {0} /\ Len(calls) = Len(Opening[rule])
  /\ Top = b + Len(calls)
  /\ \A k \in 1..b : stack[k] = base[k]
  /\ \A i \in 1..Len(calls) :
       /\ stack[b + i] = calls[i] /\ calls[i].kids = <<>> /\ calls[i].start = start
       /\ calls[i].end = NoToken /\ calls[i].todo = Opening[rule][i].todo
LEMMA CallsPushed ==
  ASSUME NEW rule \in Rules, NEW field \in Fields, NEW start \in Int, NEW exact \in BOOLEAN,
         NEW base \in Seq(FrameRecord), NEW b, b = Len(base),
         NEW calls, calls = Calls(rule, field, start, exact), stack = base \o calls
  PROVE  Pushed(base, b, calls, rule, start)
<1> DEFINE c == Len(calls)
<1>1. /\ calls \in Seq(FrameRecord) /\ c \in Nat \ {0} /\ b \in Nat
      /\ \A i \in 1..c : calls[i].kids = <<>> /\ calls[i].start = start
  BY CallsAreFrames, LenProperties
<1>2. c = Len(Opening[rule])
  <2>1. Opening[rule] \in Seq([todo : Seq(Code), field : Fields])
    BY GrammarAssumption, Zenon
  <2>2. Len(Opening[rule]) \in Nat
    BY <2>1, LenProperties
  <2>. QED  BY <2>2 DEF Calls
<1>3. \A i \in 1..c : calls[i].end = NoToken /\ calls[i].todo = Opening[rule][i].todo
  BY <1>2 DEF Calls
<1>4. /\ stack \in Seq(FrameRecord) /\ Len(stack) = b + c
      /\ \A k \in 1..(b + c) : stack[k] = IF k <= b THEN base[k] ELSE calls[k - b]
  BY <1>1, ConcatProperties
<1>5. Top = b + c
  BY <1>4 DEF Top
<1>6. ASSUME NEW i \in 1..c PROVE stack[b + i] = calls[i]
  <2>1. b + i \in 1..(b + c) /\ ~(b + i <= b) /\ (b + i) - b = i
    BY <1>1
  <2>. QED  BY <1>4, <2>1
<1>7. \A k \in 1..b : stack[k] = base[k]
  BY <1>1, <1>4
<1>. QED  BY <1>1, <1>2, <1>3, <1>5, <1>6, <1>7 DEF Pushed

\* The calls below, and their places, when calls with this promise begin.
Below(b, below, promise, moved) ==
  /\ below \in [1..b -> Places]
  /\ \A k \in 1..b : Sits(k, below[k])
  /\ \A k \in 1..(b - 1) : Waits(k, below[k], below[k + 1])
  /\ b > 0 => \A first \in Places : first.promise = promise /\ first.moved = moved =>
                Waits(b, below[b], first)

\* They are at the places where the method begins, each waiting for the next.
LEMMA CallsPlaced ==
  ASSUME NEW rule, NEW start, NEW base, NEW b, NEW calls, Pushed(base, b, calls, rule, start),
         NEW promise, NEW moved \in BOOLEAN, NEW paren, ParenFits(paren),
         PlacesIn(rule, promise, moved, paren) \subseteq Places,
         NEW below, Below(b, below, promise, moved)
  PROVE  PlaceInv
<1>1. PICK c \in Nat \ {0} : c = Len(calls)
  BY DEF Pushed
<1>0. /\ below \in [1..b -> Places]
      /\ \A k \in 1..b : Sits(k, below[k])
      /\ \A k \in 1..(b - 1) : Waits(k, below[k], below[k + 1])
      /\ b > 0 => \A first \in Places : first.promise = promise /\ first.moved = moved =>
                    Waits(b, below[b], first)
  BY DEF Below
<1>2. /\ b \in Nat /\ c = Len(Opening[rule]) /\ Top = b + c
      /\ \A i \in 1..c :
           /\ stack[b + i] = calls[i] /\ calls[i].kids = <<>> /\ calls[i].start = start
           /\ calls[i].end = NoToken /\ calls[i].todo = Opening[rule][i].todo
  BY <1>1 DEF Pushed
<1>3. PICK entry : entry = [i \in 1..c |->
        Place(Opening[rule][i].todo, IF i = 1 THEN promise ELSE Demand(Opening[rule][i - 1].todo),
              i = 1 /\ moved, IF i = c THEN paren ELSE "no",
              IF i = c THEN NoChild ELSE Child(Demand(Opening[rule][i].todo), "start"), Closed)]
  OBVIOUS
<1>4. ASSUME NEW i \in 1..c
      PROVE  /\ entry[i] \in Places /\ entry[i].todo = calls[i].todo
             /\ i = 1 => entry[i].promise = promise /\ entry[i].moved = moved
             /\ i # 1 => entry[i].promise = Demand(calls[i - 1].todo) /\ entry[i].moved = FALSE
             /\ i = c => entry[i].paren = paren /\ entry[i].first = NoChild
             /\ i # c => /\ entry[i].paren = "no"
                        /\ entry[i].first = Child(Demand(calls[i].todo), "start")
  <2>1. entry[i] = Place(Opening[rule][i].todo,
              IF i = 1 THEN promise ELSE Demand(Opening[rule][i - 1].todo),
              i = 1 /\ moved, IF i = c THEN paren ELSE "no",
              IF i = c THEN NoChild ELSE Child(Demand(Opening[rule][i].todo), "start"), Closed)
    BY <1>3
  <2>2. entry[i] \in PlacesIn(rule, promise, moved, paren)
    BY <1>2, <2>1 DEF PlacesIn
  <2>3. i # 1 => i - 1 \in 1..c
    OBVIOUS
  <2>4. i # 1 => Opening[rule][i - 1].todo = calls[i - 1].todo
    BY <1>2, <2>3
  <2>5. PICK todo, pledge, early, open, first :
          /\ todo = Opening[rule][i].todo
          /\ pledge = IF i = 1 THEN promise ELSE Demand(Opening[rule][i - 1].todo)
          /\ early = (i = 1 /\ moved)
          /\ open = IF i = c THEN paren ELSE "no"
          /\ first = IF i = c THEN NoChild ELSE Child(Demand(Opening[rule][i].todo), "start")
    OBVIOUS
  <2>6. entry[i] = Place(todo, pledge, early, open, first, Closed)
    BY <2>1, <2>5
  <2>7. /\ entry[i].todo = todo /\ entry[i].promise = pledge /\ entry[i].moved = early
        /\ entry[i].paren = open /\ entry[i].first = first
    BY <2>6, PlaceParts
  <2>8. (i = 1 => early = moved) /\ (i # 1 => early = FALSE)
    BY <2>5
  <2>9. todo = calls[i].todo
    BY <1>2, <2>5
  <2>. QED  BY <2>2, <2>4, <2>5, <2>7, <2>8, <2>9
<1> HIDE DEF Places
<1>5. PICK now : now = [k \in 1..(b + c) |-> IF k <= b THEN below[k] ELSE entry[k - b]]
  OBVIOUS
<1>6. /\ \A k \in 1..b : now[k] = below[k]
      /\ \A i \in 1..c : b + i \in 1..(b + c) /\ now[b + i] = entry[i]
  <2>1. \A k \in 1..b : k \in 1..(b + c) /\ k <= b
    BY <1>2
  <2>2. \A i \in 1..c : b + i \in 1..(b + c) /\ ~(b + i <= b) /\ (b + i) - b = i
    BY <1>2
  <2>. QED  BY <1>5, <2>1, <2>2
<1>7. \A k \in 1..(b + c) : k \in 1..b \/ \E i \in 1..c : k = b + i
  <2>1. ASSUME NEW k \in 1..(b + c), k \notin 1..b PROVE k - b \in 1..c /\ k = b + (k - b)
    BY <1>2, <2>1
  <2>. QED  BY <2>1
<1>8. now \in [1..(b + c) -> Places]
  <2>1. ASSUME NEW k \in 1..(b + c) PROVE now[k] \in Places
    <3>1. CASE k \in 1..b
      BY <1>0, <1>6, <3>1
    <3>2. ASSUME NEW i \in 1..c, k = b + i PROVE now[k] \in Places
      BY <1>4, <1>6, <3>2
    <3>. QED  BY <1>7, <3>1, <3>2
  <2>. QED  BY <1>5, <2>1
<1>9. ASSUME NEW i \in 1..c PROVE Sits(b + i, now[b + i])
  <2>1. now[b + i] \in Places /\ now[b + i].todo = calls[i].todo
    BY <1>4, <1>6
  <2>2. stack[b + i].todo = calls[i].todo /\ stack[b + i].end = NoToken
    BY <1>2
  <2>. QED  BY <2>1, <2>2 DEF Sits
<1>10. \A k \in 1..(b + c) : Sits(k, now[k])
  BY <1>0, <1>6, <1>7, <1>9
<1>11. Acts(b + c, now[b + c])
  <2>1. c \in 1..c
    OBVIOUS
  <2>2. now[b + c].first = NoChild /\ now[b + c].paren = paren
    <3>1. now[b + c] = entry[c]
      BY <1>6, <2>1
    <3>. QED  BY <1>4, <2>1, <3>1
  <2>3. stack[b + c].kids = <<>>
    BY <1>2, <2>1
  <2>4. now[b + c].first.begins = "none"
    BY <2>2 DEF NoChild
  <2>. QED  BY <2>2, <2>3, <2>4 DEF Acts, KidsFit
<1>12. ASSUME NEW i \in 1..c, i # c PROVE Waits(b + i, now[b + i], now[b + (i + 1)])
  <2>1. i + 1 \in 1..c /\ i + 1 # 1 /\ (i + 1) - 1 = i /\ (b + i) + 1 = b + (i + 1)
    BY <1>2, <1>12
  <2>2. PICK place, over : place = now[b + i] /\ over = now[b + (i + 1)]
    OBVIOUS
  <2>3. /\ place.first = Child(Demand(calls[i].todo), "start") /\ place.paren = "no"
        /\ over.promise = Demand(calls[i].todo)
    <3>1. place = entry[i] /\ over = entry[i + 1]
      BY <1>6, <2>1, <2>2
    <3>2. PICK j \in 1..c : j = i + 1 /\ j # 1 /\ j - 1 = i
      BY <2>1
    <3>3. entry[j].promise = Demand(calls[j - 1].todo)
      BY <1>4, <3>2
    <3>. QED  BY <1>4, <1>12, <3>1, <3>2, <3>3
  <2>4. /\ place.first.strength = over.promise /\ place.first.begins = "start"
    BY <2>3 DEF Child
  <2>5. stack[b + i].kids = <<>> /\ stack[b + (i + 1)].start = stack[b + i].start
    BY <1>2, <2>1
  <2>6. over.promise \in Int
    <3>1. over \in Places
      BY <1>4, <1>6, <2>1, <2>2
    <3>. QED  BY <3>1, PlaceNumbers
  <2>7. WaitsForFirst(b + i, place, over)
    BY <2>1, <2>4, <2>5, <2>6 DEF WaitsForFirst
  <2>8. Waits(b + i, place, over)
    BY <2>3, <2>4, <2>5, <2>7 DEF Waits
  <2>. QED  BY <2>2, <2>8
<1>13. ASSUME NEW k \in 1..((b + c) - 1) PROVE Waits(k, now[k], now[k + 1])
  <2>1. CASE k \in 1..(b - 1)
    <3>1. k \in 1..b /\ k + 1 \in 1..b
      BY <1>2, <2>1
    <3>. QED  BY <1>0, <1>6, <2>1, <3>1
  <2>2. CASE k = b /\ b > 0
    <3>1. 1 \in 1..c /\ b \in 1..b
      BY <1>2, <2>2
    <3>2. now[b + 1] = entry[1] /\ entry[1] \in Places /\ entry[1].promise = promise
          /\ entry[1].moved = moved
      BY <1>4, <1>6, <3>1
    <3>. QED  BY <1>0, <1>6, <2>2, <3>1, <3>2
  <2>3. CASE k \notin 1..b
    <3>1. PICK i \in 1..c : k = b + i
      BY <1>2, <1>7, <2>3
    <3>2. i # c /\ k + 1 = b + (i + 1)
      BY <1>2, <3>1
    <3>. QED  BY <1>12, <3>1, <3>2
  <2>. QED  BY <1>2, <2>1, <2>2, <2>3
<1>14. PlacesFit(now)
  BY <1>2, <1>8, <1>10, <1>11, <1>13 DEF PlacesFit
<1>. QED  BY <1>14 DEF PlaceInv

\* The same behind a step.
AllPushed == \A rule \in Rules, field \in Fields, start \in Int, exact \in BOOLEAN,
                base \in Seq(FrameRecord) : \A b, calls :
  b = Len(base) /\ calls = Calls(rule, field, start, exact) /\ stack = base \o calls =>
    Pushed(base, b, calls, rule, start)
AllPlaced == \A rule, start, base, b, calls, promise, moved, paren, below :
  /\ moved \in BOOLEAN /\ Pushed(base, b, calls, rule, start) /\ ParenFits(paren)
  /\ PlacesIn(rule, promise, moved, paren) \subseteq Places /\ Below(b, below, promise, moved)
  => PlaceInv
LEMMA CallsPushedNext == AllPushed'
<1>1. AllPushed
  BY CallsPushed DEF AllPushed
<1>. QED  BY <1>1, PTL
LEMMA CallsPlacedNext == AllPlaced'
<1>1. AllPlaced
  BY CallsPlaced DEF AllPlaced
<1>. QED  BY <1>1, PTL

LEMMA PromiseThere ==
  ASSUME NEW rule \in Rules, NEW promise, NEW moved, NEW paren,
         PlacesIn(rule, promise, moved, paren) \subseteq Places
  PROVE  promise \in Int
<1> DEFINE calls == Opening[rule]
           n == Len(calls)
<1>1. 1 \in 1..n
  <2>1. calls \in Seq([todo : Seq(Code), field : Fields]) /\ n > 0
    BY GrammarAssumption, Zenon
  <2>2. n \in Nat
    BY <2>1, LenProperties
  <2>. QED  BY <2>1, <2>2
<1> DEFINE At(i) ==
      Place(calls[i].todo, IF i = 1 THEN promise ELSE Demand(calls[i - 1].todo),
            i = 1 /\ moved, IF i = n THEN paren ELSE "no",
            IF i = n THEN NoChild ELSE Child(Demand(calls[i].todo), "start"), Closed)
<1>2. PICK entered : entered = At(1)
  OBVIOUS
<1>3. entered \in PlacesIn(rule, promise, moved, paren)
  BY <1>1, <1>2 DEF PlacesIn
<1>4. entered.promise = promise
  BY <1>2 DEF Place
<1>. QED  BY <1>3, <1>4, PlaceFacts

\* A weaker demand is met, too.
LEMMA DemandLess ==
  ASSUME NEW kids \in Seq(Kid), NEW place \in Places, NEW next \in Places, NEW start,
         KidsFit(kids, place, start), next.rest <= place.rest,
         next.first.begins = place.first.begins, next.first.strength = place.first.strength,
         next.first.ends => place.first.ends
  PROVE  KidsFit(kids, next, start)
<1>1. ASSUME kids # <<>> PROVE IsChild(kids[1].id, next.first, start)
  BY <1>1 DEF KidsFit, IsChild
<1>2. ASSUME NEW i \in 2..Len(kids) PROVE AtLeast(kids[i].id, next.rest)
  <2>1. AtLeast(kids[i].id, place.rest) /\ place.rest \in Int /\ next.rest \in Int
    BY PlaceNumbers DEF KidsFit
  <2>2. ASSUME Bare(kids[i].id) PROVE Strength[nodes[kids[i].id].type] >= next.rest
    <3>1. Strength[nodes[kids[i].id].type] \in Int
      BY <2>2, PlacesClosed DEF Bare
    <3>. QED  BY <2>1, <2>2, <3>1 DEF AtLeast
  <2>. QED  BY <2>2 DEF AtLeast
<1>. QED  BY <1>1, <1>2 DEF KidsFit

\* The calls below, and the one that goes on with the same promise.
Kept(at, t, below) ==
  /\ \A k \in 1..t : k # Top => below[k] = at[k]
  /\ Top \in 1..t => below[Top].promise = at[Top].promise /\ below[Top].moved = at[Top].moved
  /\ \A k \in 1..t : /\ k # Top => stack'[k].todo = stack[k].todo
                     /\ stack'[k].kids = stack[k].kids
                     /\ stack'[k].start = stack[k].start /\ stack'[k].end = stack[k].end
Standing(t, below) ==
  /\ \A k \in 1..t : k # Top => Sits(k, below[k])'
  /\ \A k \in 1..(t - 1) : Waits(k, below[k], below[k + 1])'
LEMMA BelowStay ==
  ASSUME Ready, Forest, NodesGrow, NEW at, PlacesFit(at),
         NEW t \in Nat, t = Top \/ t = Top - 1, NEW below, Kept(at, t, below)
  PROVE  Standing(t, below)
<1>0. /\ \A k \in 1..t : k # Top => below[k] = at[k]
      /\ Top \in 1..t => below[Top].promise = at[Top].promise /\ below[Top].moved = at[Top].moved
      /\ \A k \in 1..t : /\ k # Top => stack'[k].todo = stack[k].todo
                         /\ stack'[k].kids = stack[k].kids
                         /\ stack'[k].start = stack[k].start /\ stack'[k].end = stack[k].end
  BY DEF Kept
<1>1. Top \in Nat
  BY CallFacts
<1>2. ASSUME NEW k \in 1..t, k # Top PROVE Sits(k, below[k])'
  <2>1. k \in 1..Top /\ Sits(k, at[k]) /\ below[k] = at[k]
    BY <1>0, <1>1, <1>2 DEF PlacesFit
  <2>. QED  BY <1>0, <1>2, <2>1 DEF Sits
<1>3. ASSUME NEW k \in 1..(t - 1) PROVE Waits(k, below[k], below[k + 1])'
  <2>1. /\ k \in 1..Top /\ k \in 1..(Top - 1) /\ k # Top /\ k \in 1..t /\ k + 1 \in 1..t
        /\ k + 1 \in 1..Top
    BY <1>1
  <2>2. PICK place, above, over : place = at[k] /\ above = at[k + 1] /\ over = below[k + 1]
    OBVIOUS
  <2>3. Waits(k, place, above)
    BY <2>1, <2>2 DEF PlacesFit
  <2>4. over.promise = above.promise /\ over.moved = above.moved
    BY <1>0, <2>1, <2>2
  <2>5. Waits(k, place, over)'
    BY <1>0, <2>1, <2>3, <2>4, WaitsKept
  <2>. QED  BY <1>0, <2>1, <2>2, <2>5
<1>. QED  BY <1>2, <1>3 DEF Standing

LEMMA CallPlaces == ASSUME Ready, Forest, PlaceInv, Call PROVE PlaceInv'
<1>1. PICK at : PlacesFit(at)
  BY DEF PlaceInv
<1>2. /\ outcome = "running" /\ Step \in Code /\ Step.op = "parse" /\ After \in Seq(Code)
      /\ Top \in 1..Top /\ Frame = stack[Top] /\ Frame \in FrameRecord
      /\ Frame.kids \in Seq(Kid) /\ KidIds(Frame.kids) \subseteq DOMAIN nodes
      /\ tokens' = tokens /\ nodes' = nodes /\ index' = index
  BY <1>1, PlaceDoes DEF Call, Output
<1>3. PICK place \in Places :
        /\ place = at[Top] /\ place.todo # <<>>
        /\ Head(place.todo) = Step /\ Tail(place.todo) = After
        /\ NextPlaces(place) \subseteq Places
        /\ ~place.moved => Frame.end = NoToken
        /\ KidsFit(Frame.kids, place, Frame.start) /\ ParenFits(place.paren)
  BY <1>1, PlaceDoes DEF Call
<1>4. Step.rule \in Rules /\ Step.field \in Fields /\ Step.own \in BOOLEAN
  BY <1>2, CodeAssumption
<1>5. NodesGrow
  BY <1>2 DEF NodesGrow
<1>6. PICK t \in Nat \ {0} : t = Top /\ t = Len(stack) /\ stack \in Seq(FrameRecord)
  BY <1>2, CallFacts
<1>7. PICK begin \in Int : begin = IF Step.own THEN index ELSE Frame.start
  <2>1. index \in Int /\ Frame.start \in Int
    BY <1>2, FrameFacts, TokensThere
  <2>. QED  BY <2>1
<1>8. PICK frame : frame = [Frame EXCEPT !.todo = After]
  OBVIOUS
<1>9. /\ frame \in FrameRecord /\ frame.kids = Frame.kids /\ frame.todo = After
      /\ frame.start = Frame.start /\ frame.end = Frame.end
  BY <1>2, <1>8 DEF FrameRecord
<1>10. PICK base : base = [stack EXCEPT ![t] = frame]
  OBVIOUS
<1>11. /\ base \in Seq(FrameRecord) /\ Len(base) = t /\ base[t] = frame
       /\ \A k \in 1..(t - 1) : base[k] = stack[k]
  BY <1>6, <1>9, <1>10, ExceptSeq
<1>12. PICK calls : calls = Calls(Step.rule, Step.field, begin, Step.own)
  OBVIOUS
<1>0. PICK rule \in Rules : rule = Step.rule
  BY <1>4
<1>13. Pushed(base, t, calls, rule, begin)'
  <2>1. stack' = base \o calls
    BY <1>6, <1>7, <1>8, <1>10, <1>12 DEF Call, Frame
  <2>2. PICK field \in Fields, own \in BOOLEAN : field = Step.field /\ own = Step.own
    BY <1>4
  <2>3. calls = Calls(rule, field, begin, own)
    BY <1>0, <1>12, <2>2
  <2>. QED  BY <1>11, <2>1, <2>3, CallsPushedNext DEF AllPushed
<1>14. /\ \A k \in 1..t : stack'[k] = base[k]
       /\ stack'[t] = frame /\ stack'[t + 1].start = begin
  <2>1. 1 \in 1..Len(calls) /\ t \in 1..t
    BY <1>13 DEF Pushed
  <2>. QED  BY <1>11, <1>13, <2>1 DEF Pushed
<1>15. PICK demand : demand = Demand(After)
  OBVIOUS
<1>16. PICK next \in Places :
         /\ next.todo = After /\ next.promise = place.promise /\ next.moved = place.moved
         /\ next.paren = "no" /\ next.first.begins # "none" /\ demand \in Int
         /\ place.first.begins = "none" =>
              /\ next.first.strength = demand /\ next.first.begins # "start"
              /\ next.first.begins = "paren" => Step.own /\ place.paren = "last"
         /\ place.first.begins # "none" =>
              /\ ~next.first.ends /\ next.rest <= demand /\ KidsFit(Frame.kids, next, Frame.start)
  <2>1. CASE place.first.begins = "none"
    <3>1. PICK begins, first : /\ begins = IF Step.own /\ place.paren = "last" THEN "paren" ELSE "any"
                               /\ first = Child(demand, begins)
      OBVIOUS
    <3>2. PICK next : next = Place(After, place.promise, place.moved, "no", first, place.rest)
      OBVIOUS
    <3>3. next \in Places
      BY <1>2, <1>3, <1>15, <2>1, <3>1, <3>2, NextParse
    <3>4. /\ next.todo = After /\ next.promise = place.promise /\ next.moved = place.moved
          /\ next.paren = "no" /\ next.first = first
      BY <3>2, PlaceParts
    <3>5. first.strength = demand /\ first.begins = begins
      BY <3>1 DEF Child
    <3>6. begins # "none" /\ begins # "start" /\ (begins = "paren" => Step.own /\ place.paren = "last")
      BY <3>1
    <3>7. demand \in Int
      BY <3>3, <3>4, <3>5, PlaceNumbers
    <3>. QED  BY <2>1, <3>3, <3>4, <3>5, <3>6, <3>7
  <2>2. CASE place.first.begins # "none"
    <3>1. PICK first, rest : /\ first = [place.first EXCEPT !.ends = FALSE]
                             /\ rest = IF demand < place.rest THEN demand ELSE place.rest
      OBVIOUS
    <3>2. PICK next : next = Place(After, place.promise, place.moved, "no", first, rest)
      OBVIOUS
    <3>3. next \in Places
      BY <1>2, <1>3, <1>15, <2>2, <3>1, <3>2, NextParse
    <3>4. /\ next.todo = After /\ next.promise = place.promise /\ next.moved = place.moved
          /\ next.paren = "no" /\ next.first = first /\ next.rest = rest
      BY <3>2, PlaceParts
    <3>5. /\ first.strength = place.first.strength /\ first.begins = place.first.begins
          /\ ~first.ends
      BY <3>1, ChildParts
    <3>6. demand \in Int
      <4>1. PlacesIn(Step.rule, demand, FALSE, "no") \subseteq Places
        BY <1>2, <1>3, <1>15, NextParse
      <4>. QED  BY <1>4, <4>1, PromiseThere
    <3>7. rest <= demand /\ rest <= place.rest
      BY <3>1, <3>6, PlaceNumbers
    <3>8. KidsFit(Frame.kids, next, Frame.start)
      BY <1>2, <1>3, <3>3, <3>4, <3>5, <3>7, DemandLess
    <3>. QED  BY <2>2, <3>3, <3>4, <3>5, <3>6, <3>7, <3>8
  <2>. QED  BY <2>1, <2>2
<1>17. PICK below : below = [k \in 1..t |-> IF k = t THEN next ELSE at[k]]
  OBVIOUS
<1>18. /\ below \in [1..t -> Places] /\ below[t] = next
       /\ \A k \in 1..t : k # t => below[k] = at[k]
  <2>1. at \in [1..t -> Places] /\ t \in 1..t
    BY <1>1, <1>6 DEF PlacesFit
  <2>. QED  BY <1>17, <2>1
<1>19. /\ \A k \in 1..t : k # t => Sits(k, below[k])'
       /\ \A k \in 1..(t - 1) : Waits(k, below[k], below[k + 1])'
  <2>1. below[t].promise = at[t].promise /\ below[t].moved = at[t].moved
    BY <1>3, <1>6, <1>16, <1>18
  <2>2. ASSUME NEW k \in 1..t
        PROVE  /\ k # t => stack'[k].todo = stack[k].todo
               /\ stack'[k].kids = stack[k].kids
               /\ stack'[k].start = stack[k].start /\ stack'[k].end = stack[k].end
    <3>1. CASE k = t
      BY <1>2, <1>6, <1>9, <1>14, <3>1
    <3>2. CASE k \in 1..(t - 1)
      BY <1>11, <1>14, <3>2
    <3>. QED  BY <3>1, <3>2
  <2>3. \A k \in 1..t : k # Top => below[k] = at[k]
    BY <1>6, <1>18
  <2>4. t \in Nat /\ t = Top
    BY <1>6
  <2>5. /\ \A k \in 1..t : k # Top => Sits(k, below[k])'
        /\ \A k \in 1..(t - 1) : Waits(k, below[k], below[k + 1])'
    <3>1. t = Top \/ t = Top - 1
      BY <2>4
    <3>2. Kept(at, t, below)
      BY <2>1, <2>2, <2>3, <2>4 DEF Kept
    <3>3. Standing(t, below)
      BY <1>1, <1>5, <2>4, <3>1, <3>2, BelowStay
    <3>. QED  BY <3>3 DEF Standing
  <2>. QED  BY <2>4, <2>5
<1>20. Sits(t, below[t])'
  <2>1. /\ next \in Places /\ next.todo = stack'[t].todo
        /\ ~next.moved => stack'[t].end = NoToken
    BY <1>3, <1>9, <1>14, <1>16
  <2>. QED  BY <1>18, <2>1 DEF Sits
<1>21. ASSUME NEW first \in Places, first.promise = demand, first.moved = FALSE
       PROVE  Waits(t, next, first)'
  <2>1. PICK kids \in Seq(Kid), start \in Int : kids = Frame.kids /\ start = Frame.start
    BY <1>2, FrameFacts
  <2>2. stack'[t].kids = kids /\ stack'[t].start = start
    BY <1>9, <1>14, <2>1
  <2>3. kids = <<>> <=> place.first.begins = "none"
    BY <1>3, <2>1 DEF KidsFit
  <2>4. ASSUME kids = <<>> PROVE WaitsForFirst(t, next, first)'
    <3>1. first.promise >= next.first.strength /\ next.first.begins # "start"
      BY <1>16, <1>21, <2>3, <2>4
    <3>2. ASSUME next.first.begins = "paren"
          PROVE  TokenType(stack[t + 1].start - 1)' \in OpenParentheses
      <4>1. Step.own /\ place.paren = "last"
        BY <1>16, <2>3, <2>4, <3>2
      <4>2. stack'[t + 1].start = index
        BY <1>7, <1>14, <4>1
      <4>3. TokenType(index - 1) \in OpenParentheses
        BY <1>3, <4>1 DEF ParenFits
      <4>. QED  BY <1>2, <4>2, <4>3 DEF TokenType
    <3>. QED  BY <3>1, <3>2 DEF WaitsForFirst, OpenParentheses
  <2>5. ASSUME kids # <<>> PROVE WaitsForMore(t, next, first)'
    <3>1. ~next.first.ends /\ next.rest <= demand /\ KidsFit(kids, next, start)
      BY <1>16, <2>1, <2>3, <2>5
    <3>2. KidsFit(kids, next, start)'
      BY <1>2, <1>5, <2>1, <3>1, KidsFitKept
    <3>3. first.promise >= next.rest
      BY <1>16, <1>21, <3>1, PlaceNumbers
    <3>. QED  BY <2>2, <3>1, <3>2, <3>3 DEF WaitsForMore
  <2>. QED  BY <1>16, <2>2, <2>4, <2>5 DEF Waits
<1>22. PlacesIn(rule, demand, FALSE, "no") \subseteq Places
  BY <1>0, <1>2, <1>3, <1>15, NextParse
<1>23. ParenFits("no")'
  BY DEF ParenFits
<1>24. \A k \in 1..t : Sits(k, below[k])'
  BY <1>19, <1>20
<1>25. t > 0 => \A first \in Places : first.promise = demand /\ first.moved = FALSE =>
         Waits(t, below[t], first)'
  BY <1>18, <1>21
<1>26. FALSE \in BOOLEAN
  OBVIOUS
<1>27. Below(t, below, demand, FALSE)'
  BY <1>18, <1>19, <1>24, <1>25 DEF Below
<1>. QED  BY <1>13, <1>22, <1>23, <1>26, <1>27, CallsPlacedNext DEF AllPlaced

LEMMA BecomePlaces ==
  ASSUME Ready, Forest, outcome = "running", tokens' = tokens, nodes' = nodes, index' = index,
         NEW at, PlacesFit(at), NEW place, place = at[Top], NEW rule \in Rules, Become(rule),
         NEW paren, ParenFits(paren),
         PlacesIn(rule, place.promise, place.moved, paren) \subseteq Places
  PROVE  PlaceInv'
<1>1. /\ stack \in Seq(FrameRecord) /\ Top \in Nat \ {0} /\ Top = Len(stack)
      /\ Frame = stack[Top] /\ Frame \in FrameRecord /\ Frame.start \in Int
      /\ Frame.field \in Fields /\ Frame.exact \in BOOLEAN
  BY CallFacts, TopFrame DEF Frame, FrameRecord
<1>2. PICK b \in Nat : b = Top - 1 /\ Top = b + 1
  BY <1>1
<1>3. PICK start \in Int, field \in Fields, exact \in BOOLEAN :
        start = Frame.start /\ field = Frame.field /\ exact = Frame.exact
  BY <1>1
<1>4. PICK base : base = SubSeq(stack, 1, b)
  OBVIOUS
<1>5. base \in Seq(FrameRecord) /\ Len(base) = b /\ \A k \in 1..b : base[k] = stack[k]
  BY <1>1, <1>2, <1>4, SubSeqProperties
<1>6. PICK calls : calls = Calls(rule, field, start, exact)
  OBVIOUS
<1>7. Pushed(base, b, calls, rule, start)'
  <2>1. stack' = base \o calls
    BY <1>2, <1>3, <1>4, <1>6 DEF Become
  <2>. QED  BY <1>5, <1>6, <2>1, CallsPushedNext DEF AllPushed
<1>8. /\ \A k \in 1..b : stack'[k] = stack[k]
      /\ stack'[b + 1].start = start
  <2>1. 1 \in 1..Len(calls)
    BY <1>7 DEF Pushed
  <2>. QED  BY <1>5, <1>7, <2>1 DEF Pushed
<1>9. PICK below : below = [k \in 1..b |-> at[k]]
  OBVIOUS
<1>10. below \in [1..b -> Places] /\ \A k \in 1..b : below[k] = at[k]
  BY <1>1, <1>2, <1>9 DEF PlacesFit
<1>11. NodesGrow
  BY DEF NodesGrow
<1>12. Standing(b, below)
  <2>1. Kept(at, b, below)
    BY <1>2, <1>8, <1>10 DEF Kept
  <2>. QED  BY <1>2, <1>11, <2>1, BelowStay
<1>13. ASSUME b > 0, NEW first \in Places, first.promise = place.promise,
              first.moved = place.moved
       PROVE  Waits(b, below[b], first)'
  <2>1. b \in 1..Top /\ b \in 1..(Top - 1) /\ b \in 1..b /\ Top = b + 1
    BY <1>2, <1>13
  <2>2. PICK here : here = at[b] /\ here = below[b]
    BY <1>10, <2>1
  <2>3. Waits(b, here, place)
    BY <2>1, <2>2 DEF PlacesFit
  <2>4. stack'[b].kids = stack[b].kids /\ stack'[b].start = stack[b].start
        /\ stack'[b + 1].start = stack[b + 1].start
    BY <1>1, <1>3, <1>8, <2>1
  <2>5. Waits(b, here, first)'
    BY <1>11, <1>13, <2>1, <2>3, <2>4, WaitsKept
  <2>. QED  BY <2>2, <2>5
<1>14. \A k \in 1..b : Sits(k, below[k])'
  BY <1>2, <1>12 DEF Standing
<1>15. Below(b, below, place.promise, place.moved)'
  BY <1>10, <1>12, <1>13, <1>14 DEF Below, Standing
<1>16. ParenFits(paren)'
  BY DEF ParenFits, Peek, TokenType
<1>17. PICK promise, moved : promise = place.promise /\ moved = place.moved
  OBVIOUS
<1>18. moved \in BOOLEAN
  BY <1>1, <1>17, PlaceFacts DEF PlacesFit
<1>19. Below(b, below, promise, moved)' /\ PlacesIn(rule, promise, moved, paren) \subseteq Places
  BY <1>15, <1>17
<1>. QED  BY <1>7, <1>16, <1>18, <1>19, CallsPlacedNext DEF AllPlaced

LEMMA TailCallPlaces == ASSUME Ready, Forest, PlaceInv, TailCall PROVE PlaceInv'
<1>1. PICK at : PlacesFit(at)
  BY DEF PlaceInv
<1>2. /\ outcome = "running" /\ Step \in Code /\ Step.op = "goto" /\ Does("goto")
      /\ tokens' = tokens /\ nodes' = nodes /\ index' = index
  BY TopStep DEF TailCall, Output
<1>3. PICK place \in Places : /\ place = at[Top] /\ place.todo # <<>>
                              /\ Head(place.todo) = Step /\ NextPlaces(place) \subseteq Places
                              /\ ParenFits(place.paren)
  BY <1>1, <1>2, PlaceDoes
<1>4. PICK rule \in Rules : rule = Step.rule
  BY <1>2, CodeAssumption
<1>5. Become(rule)
  BY <1>4 DEF TailCall
<1>6. PlacesIn(rule, place.promise, place.moved, place.paren) \subseteq Places
  BY <1>2, <1>3, <1>4, NextGoto
<1>7. PICK paren : paren = place.paren
  OBVIOUS
<1>8. ParenFits(paren) /\ PlacesIn(rule, place.promise, place.moved, paren) \subseteq Places
  BY <1>3, <1>6, <1>7
<1>. QED  BY <1>1, <1>2, <1>3, <1>5, <1>8, BecomePlaces

LEMMA DispatchPlaces == ASSUME Ready, Forest, PlaceInv, Dispatch PROVE PlaceInv'
<1>1. PICK at : PlacesFit(at)
  BY DEF PlaceInv
<1>2. /\ outcome = "running" /\ Step \in Code /\ Step.op = "switch" /\ Does("switch")
      /\ After \in Seq(Code) /\ UNCHANGED <<Output, index>>
      /\ tokens' = tokens /\ nodes' = nodes /\ index' = index
  BY TopStep DEF Dispatch, Output
<1>3. PICK place \in Places : /\ place = at[Top] /\ place.todo # <<>>
                              /\ Head(place.todo) = Step /\ Tail(place.todo) = After
                              /\ NextPlaces(place) \subseteq Places
                              /\ ParenFits(place.paren)
  BY <1>1, <1>2, PlaceDoes
<1>4. ASSUME NEW row \in Switches[Step.table], Applies(row), Become(row.rule) PROVE PlaceInv'
  <2>1. PICK rule \in Rules : rule = row.rule
    BY <1>2, <1>4, CodeAssumption, GrammarAssumption, Zenon
  <2>2. PICK paren : paren = IF Opens(row) THEN "next" ELSE place.paren
    OBVIOUS
  <2>3. PlacesIn(rule, place.promise, place.moved, paren) \subseteq Places
    BY <1>2, <1>3, <1>4, <2>1, <2>2, NextSwitch
  <2>4. ParenFits(paren)
    <3>1. CASE Opens(row)
      <4>1. Peek(1 - 1) \in row.on[1] /\ row.on[1] \subseteq OpenParentheses
        BY <1>4, <3>1 DEF Applies, Opens
      <4>2. Peek(0) \in OpenParentheses
        BY <4>1
      <4>. QED  BY <2>2, <3>1, <4>2 DEF ParenFits
    <3>2. CASE ~Opens(row)
      BY <1>3, <2>2, <3>2
    <3>. QED  BY <3>1, <3>2
  <2>5. Become(rule)
    BY <1>4, <2>1
  <2>. QED  BY <1>1, <1>2, <1>3, <2>3, <2>4, <2>5, BecomePlaces
<1>5. ASSUME Continue(After) PROVE PlaceInv'
  <2>1. Place(After, place.promise, place.moved, place.paren, place.first, place.rest) \in Places
    BY <1>2, <1>3, NextSame
  <2>. QED  BY <1>1, <1>2, <1>3, <1>5, <2>1, JustGoesOn
<1>. QED  BY <1>4, <1>5 DEF Dispatch

LEMMA PlacesStart == Init => PlaceInv
<1> SUFFICES ASSUME Init PROVE PlaceInv
  OBVIOUS
<1>1. PICK calls : calls = Calls("module", "", 0, TRUE)
  OBVIOUS
<1>2. "module" \in Rules /\ "" \in Fields
  BY GrammarAssumption, Zenon
<1>3. PICK rule \in Rules, field \in Fields : rule = "module" /\ field = ""
  BY <1>2
<1>0. PICK start \in Int : start = 0
  OBVIOUS
<1>4. PICK base \in Seq(FrameRecord) : base = <<>> /\ Len(base) = 0
  BY EmptySeq
<1>5. calls = Calls(rule, field, start, TRUE) /\ TRUE \in BOOLEAN
  BY <1>0, <1>1, <1>3
<1>6. stack = base \o calls
  <2>1. calls \in Seq(FrameRecord)
    BY <1>5, CallsAreFrames
  <2>2. <<>> \o calls = calls
    BY <2>1, ConcatProperties
  <2>. QED  BY <1>1, <1>4, <2>2, Zenon DEF Init
<1>7. Pushed(base, 0, calls, rule, start)
  BY <1>4, <1>5, <1>6, CallsPushed
<1>8. PICK below : below = [k \in 1..0 |-> 0]
  OBVIOUS
<1>9. Below(0, below, 0, FALSE)
  BY <1>8 DEF Below
<1>10. ParenFits("no") /\ PlacesIn(rule, 0, FALSE, "no") \subseteq Places
  BY <1>3, PlacesClosed DEF ParenFits
<1>. QED  BY <1>7, <1>9, <1>10, CallsPlaced

-----------------------------------------------------------------------------
(* The steps that change something of the innermost call                   *)

\* It goes on as another call, at another place, with the nodes that there are.
LEMMA TopKeeps ==
  ASSUME Ready, Forest, outcome = "running", tokens' = tokens, nodes' = nodes, index' = index,
         NEW at, PlacesFit(at),
         NEW frame \in FrameRecord, stack' = [stack EXCEPT ![Top] = frame],
         KidIds(frame.kids) \subseteq DOMAIN nodes,
         NEW next \in Places, next.todo = frame.todo, next.promise = at[Top].promise,
         ~next.moved => /\ ~at[Top].moved /\ frame.start = Frame.start
                        /\ frame.end = NoToken,
         KidsFit(frame.kids, next, frame.start), ParenFits(next.paren)
  PROVE  PlaceInv'
<1>1. NodesGrow
  BY DEF NodesGrow
<1>2. PICK kids \in Seq(Kid), start \in Int : kids = frame.kids /\ start = frame.start
  BY FrameFacts
<1>3. KidsFit(kids, next, start)'
  BY <1>1, <1>2, KidsFitKept
<1>4. ParenFits(next.paren)'
  BY DEF ParenFits, Peek, TokenType
<1>. QED  BY <1>1, <1>2, <1>3, <1>4, TopMoves

LEMMA FixEndPlaces == ASSUME Ready, Forest, PlaceInv, FixEnd PROVE PlaceInv'
<1>1. PICK at : PlacesFit(at)
  BY DEF PlaceInv
<1>2. /\ outcome = "running" /\ Step.op = "early" /\ Does("early") /\ After \in Seq(Code)
      /\ tokens' = tokens /\ nodes' = nodes /\ index' = index
      /\ Frame \in FrameRecord /\ KidIds(Frame.kids) \subseteq DOMAIN nodes
  BY <1>1, PlaceDoes DEF FixEnd, Output
<1>3. PICK place \in Places : /\ place = at[Top] /\ place.todo # <<>>
                              /\ Head(place.todo) = Step /\ Tail(place.todo) = After
                              /\ NextPlaces(place) \subseteq Places
                              /\ KidsFit(Frame.kids, place, Frame.start) /\ ParenFits(place.paren)
  BY <1>1, <1>2, PlaceDoes
<1>4. PICK end \in {NoToken, index} :
        stack' = [stack EXCEPT ![Top] = [Frame EXCEPT !.todo = After, !.end = end]]
  BY DEF FixEnd, Frame
<1>5. PICK frame : frame = [Frame EXCEPT !.todo = After, !.end = end]
  OBVIOUS
<1>6. /\ frame \in FrameRecord /\ frame.kids = Frame.kids /\ frame.todo = After
      /\ frame.start = Frame.start
  <2>1. end \in Int
    BY TokensThere DEF NoToken
  <2>. QED  BY <1>2, <1>5, <2>1 DEF FrameRecord
<1>7. PICK next : next = Place(After, place.promise, TRUE, place.paren, place.first, place.rest)
  OBVIOUS
<1>8. next \in Places
  BY <1>2, <1>3, <1>7, NextEarly
<1>9. /\ next.todo = After /\ next.promise = place.promise /\ next.moved
      /\ next.paren = place.paren /\ next.first = place.first /\ next.rest = place.rest
  BY <1>7 DEF Place
<1>10. KidsFit(Frame.kids, next, Frame.start)
  BY <1>3, <1>9 DEF KidsFit
<1>. QED  BY <1>1, <1>2, <1>3, <1>4, <1>5, <1>6, <1>8, <1>9, <1>10, TopKeeps

LEMMA FixStartPlaces == ASSUME Ready, Forest, PlaceInv, FixStart PROVE PlaceInv'
<1>1. PICK at : PlacesFit(at)
  BY DEF PlaceInv
<1>2. /\ outcome = "running" /\ Step \in Code /\ Step.op = "start" /\ Does("start")
      /\ After \in Seq(Code) /\ tokens' = tokens /\ nodes' = nodes /\ index' = index
      /\ Frame \in FrameRecord /\ KidIds(Frame.kids) \subseteq DOMAIN nodes
  BY <1>1, PlaceDoes DEF FixStart, Output
<1>3. PICK place \in Places : /\ place = at[Top] /\ place.todo # <<>>
                              /\ Head(place.todo) = Step /\ Tail(place.todo) = After
                              /\ NextPlaces(place) \subseteq Places
                              /\ KidsFit(Frame.kids, place, Frame.start) /\ ParenFits(place.paren)
  BY <1>1, <1>2, PlaceDoes
<1>4. PICK start \in Int : start = index - Step.back
  <2>1. Step.back \in Nat
    BY <1>2, CodeAssumption
  <2>. QED  BY <2>1, TokensThere
<1>5. PICK exact \in BOOLEAN : exact = (Step.back = 0 /\ Frame.kids = <<>>)
  OBVIOUS
<1>6. PICK frame : frame = [Frame EXCEPT !.todo = After, !.start = start, !.exact = exact]
  OBVIOUS
<1>7. /\ frame \in FrameRecord /\ frame.kids = Frame.kids /\ frame.todo = After
      /\ frame.start = start
  BY <1>2, <1>6 DEF FrameRecord
<1>8. stack' = [stack EXCEPT ![Top] = frame]
  BY <1>4, <1>5, <1>6 DEF FixStart, Frame
<1>9. PICK begins : begins = IF place.first.begins = "start" THEN "any" ELSE place.first.begins
  OBVIOUS
<1>10. PICK first : first = [place.first EXCEPT !.begins = begins]
  OBVIOUS
<1>11. /\ first.strength = place.first.strength /\ first.begins = begins
       /\ first.ends = place.first.ends
  BY <1>10, ChildParts
<1>12. PICK next : next = Place(After, place.promise, TRUE, place.paren, first, place.rest)
  OBVIOUS
<1>13. next \in Places
  BY <1>2, <1>3, <1>9, <1>10, <1>12, NextStart
<1>14. /\ next.todo = After /\ next.promise = place.promise /\ next.moved
       /\ next.paren = place.paren /\ next.first = first /\ next.rest = place.rest
  BY <1>12 DEF Place
<1>15. KidsFit(Frame.kids, next, start)
  <2>1. Frame.kids # <<>> => IsChild(Frame.kids[1].id, first, start)
    BY <1>3, <1>9, <1>11 DEF KidsFit, IsChild
  <2>. QED  BY <1>3, <1>9, <1>11, <1>14, <2>1 DEF KidsFit
<1>. QED  BY <1>1, <1>2, <1>3, <1>7, <1>8, <1>13, <1>14, <1>15, TopKeeps

LEMMA StartSubmodulesPlaces == ASSUME Ready, Forest, PlaceInv, StartSubmodules PROVE PlaceInv'
<1>1. PICK at : PlacesFit(at)
  BY DEF PlaceInv
<1>2. /\ outcome = "running" /\ Step.op = "open_module" /\ Does("open_module")
      /\ After \in Seq(Code) /\ tokens' = tokens /\ nodes' = nodes /\ index' = index
      /\ Frame \in FrameRecord /\ KidIds(Frame.kids) \subseteq DOMAIN nodes
  BY <1>1, PlaceDoes DEF StartSubmodules
<1>3. PICK place \in Places : /\ place = at[Top] /\ place.todo # <<>>
                              /\ Head(place.todo) = Step /\ Tail(place.todo) = After
                              /\ NextPlaces(place) \subseteq Places
                              /\ ~place.moved => Frame.end = NoToken
                              /\ KidsFit(Frame.kids, place, Frame.start) /\ ParenFits(place.paren)
  BY <1>1, <1>2, PlaceDoes
<1>4. PICK frame : frame = [Frame EXCEPT !.todo = After, !.saved = submodules]
  OBVIOUS
<1>5. /\ frame \in FrameRecord /\ frame.kids = Frame.kids /\ frame.todo = After
      /\ frame.start = Frame.start /\ frame.end = Frame.end
  BY <1>2, <1>4 DEF FrameRecord, Ready, TypeOK
<1>6. stack' = [stack EXCEPT ![Top] = frame]
  BY <1>4 DEF StartSubmodules, Frame
<1>7. PICK next : next = Place(After, place.promise, place.moved, place.paren, place.first, place.rest)
  OBVIOUS
<1>8. next \in Places
  BY <1>2, <1>3, <1>7, NextSame
<1>9. /\ next.todo = After /\ next.promise = place.promise /\ next.moved = place.moved
      /\ next.paren = place.paren /\ next.first = place.first /\ next.rest = place.rest
  BY <1>7, PlaceParts
<1>10. KidsFit(Frame.kids, next, Frame.start)
  BY <1>3, <1>9 DEF KidsFit
<1>. QED  BY <1>1, <1>2, <1>3, <1>5, <1>6, <1>8, <1>9, <1>10, TopKeeps

\* The same children, under other names perhaps.
LEMMA SameIds ==
  ASSUME NEW kids \in Seq(Kid), NEW renamed \in Seq(Kid), Len(renamed) = Len(kids),
         \A j \in 1..Len(kids) : renamed[j].id = kids[j].id
  PROVE  /\ KidIds(renamed) = KidIds(kids)
         /\ Increasing(kids) => Increasing(renamed)
<1>1. DOMAIN renamed = 1..Len(kids) /\ DOMAIN kids = 1..Len(kids)
  BY LenProperties
<1>. QED  BY <1>1 DEF KidIds, Increasing

LEMMA RenamePlaces == ASSUME Ready, Forest, PlaceInv, Rename PROVE PlaceInv'
<1>1. PICK at : PlacesFit(at)
  BY DEF PlaceInv
<1>2. /\ outcome = "running" /\ Step \in Code /\ Step.op = "relabel" /\ Does("relabel")
      /\ After \in Seq(Code) /\ tokens' = tokens /\ nodes' = nodes /\ index' = index
      /\ Frame \in FrameRecord /\ Frame.kids \in Seq(Kid)
      /\ KidIds(Frame.kids) \subseteq DOMAIN nodes
  BY <1>1, PlaceDoes DEF Rename, Output
<1>3. PICK place \in Places : /\ place = at[Top] /\ place.todo # <<>>
                              /\ Head(place.todo) = Step /\ Tail(place.todo) = After
                              /\ NextPlaces(place) \subseteq Places
                              /\ ~place.moved => Frame.end = NoToken
                              /\ KidsFit(Frame.kids, place, Frame.start) /\ ParenFits(place.paren)
  BY <1>1, <1>2, PlaceDoes
<1>4. PICK kids \in Seq(Kid), field \in Fields : kids = Frame.kids /\ field = Step.field
  BY <1>2, CodeAssumption
<1>5. PICK n \in Nat : n = Len(kids) /\ n \in 1..n
  <2>1. kids # <<>> /\ Len(kids) \in Nat
    BY <1>4, LenProperties DEF Rename
  <2>. QED  BY <2>1, EmptySeq
<1>6. PICK kid : kid = [kids[n] EXCEPT !.field = field]
  OBVIOUS
<1>7. PICK renamed : renamed = [kids EXCEPT ![n] = kid]
  OBVIOUS
<1>8. /\ renamed \in Seq(Kid) /\ Len(renamed) = n
      /\ \A i \in 1..n : renamed[i].id = kids[i].id
      /\ KidIds(renamed) = KidIds(kids)
  <2>1. n \in 1..Len(kids) /\ Len(kids) = n
    BY <1>5
  <2>2. /\ renamed \in Seq(Kid) /\ Len(renamed) = Len(kids)
        /\ \A i \in 1..Len(kids) : renamed[i].id = kids[i].id
        /\ KidIds(renamed) = KidIds(kids)
    <3>1. kids[n] \in Kid
      BY <1>5
    <3>2. kid \in Kid /\ kid.id = kids[n].id
      BY <1>4, <1>6, <3>1 DEF Kid
    <3>3. /\ renamed \in Seq(Kid) /\ Len(renamed) = Len(kids)
          /\ \A j \in 1..Len(kids) : renamed[j] = IF j = n THEN kid ELSE kids[j]
      BY <1>7, <2>1, <3>2, ExceptSeq
    <3>4. \A j \in 1..Len(kids) : renamed[j].id = kids[j].id
      BY <3>2, <3>3
    <3>. QED  BY <3>3, <3>4, SameIds
  <2>. QED  BY <2>1, <2>2
<1>9. PICK frame : frame = [Frame EXCEPT !.todo = After, !.kids = renamed]
  OBVIOUS
<1>10. /\ frame \in FrameRecord /\ frame.kids = renamed /\ frame.todo = After
       /\ frame.start = Frame.start /\ frame.end = Frame.end
  BY <1>2, <1>8, <1>9 DEF FrameRecord
<1>11. stack' = [stack EXCEPT ![Top] = frame]
  BY <1>4, <1>5, <1>6, <1>7, <1>9 DEF Rename, Frame
<1>12. PICK next : next = Place(After, place.promise, place.moved, place.paren, place.first, place.rest)
  OBVIOUS
<1>13. next \in Places
  BY <1>2, <1>3, <1>12, NextSame
<1>14. /\ next.todo = After /\ next.promise = place.promise /\ next.moved = place.moved
       /\ next.paren = place.paren /\ next.first = place.first /\ next.rest = place.rest
  BY <1>12, PlaceParts
<1>15. KidsFit(renamed, next, Frame.start)
  <2>1. kids # <<>> /\ renamed # <<>>
    BY <1>5, <1>8, EmptySeq
  <2>2. 1 \in 1..n /\ \A i \in 2..n : i \in 1..n
    BY <1>5
  <2>. QED  BY <1>3, <1>4, <1>5, <1>8, <1>14, <2>1, <2>2 DEF KidsFit
<1>16. KidIds(frame.kids) \subseteq DOMAIN nodes /\ KidsFit(frame.kids, next, frame.start)
  BY <1>2, <1>4, <1>8, <1>10, <1>15
<1>17. /\ next.todo = frame.todo /\ next.promise = at[Top].promise /\ ParenFits(next.paren)
       /\ ~next.moved => /\ ~at[Top].moved /\ frame.start = Frame.start
                         /\ frame.end = NoToken
  BY <1>3, <1>10, <1>14
<1>. QED  BY <1>1, <1>2, <1>10, <1>11, <1>13, <1>16, <1>17, TopKeeps

LEMMA ReassignPlaces == ASSUME Ready, Forest, PlaceInv, Reassign PROVE PlaceInv'
<1>1. PICK at : PlacesFit(at)
  BY DEF PlaceInv
<1>2. /\ outcome = "running" /\ Step.op = "overwrite" /\ Does("overwrite")
      /\ After \in Seq(Code) /\ tokens' = tokens /\ nodes' = nodes /\ index' = index
      /\ Frame \in FrameRecord /\ Frame.kids \in Seq(Kid)
      /\ KidIds(Frame.kids) \subseteq DOMAIN nodes
  BY <1>1, PlaceDoes DEF Reassign, Output
<1>3. PICK place \in Places : /\ place = at[Top] /\ place.todo # <<>>
                              /\ Head(place.todo) = Step /\ Tail(place.todo) = After
                              /\ NextPlaces(place) \subseteq Places
                              /\ ~place.moved => Frame.end = NoToken
                              /\ ParenFits(place.paren)
  BY <1>1, <1>2, PlaceDoes
<1>4. PICK first : first = [strength |-> 0, begins |-> "any", ends |-> FALSE]
  OBVIOUS
<1>5. PICK next : next = Place(After, place.promise, place.moved, place.paren, first, 0)
  OBVIOUS
<1>6. next \in Places
  BY <1>2, <1>3, <1>4, <1>5, NextOverwrite
<1>7. /\ next.todo = After /\ next.promise = place.promise /\ next.moved = place.moved
      /\ next.paren = place.paren /\ next.first = first /\ next.rest = 0
  BY <1>5, PlaceParts
<1>8. ASSUME NEW kids \in Seq(Kid), kids # <<>>, KidIds(kids) \subseteq DOMAIN nodes,
             stack' = [stack EXCEPT ![Top] = [Frame EXCEPT !.todo = After, !.kids = kids]]
      PROVE  PlaceInv'
  <2>1. PICK frame : frame = [Frame EXCEPT !.todo = After, !.kids = kids]
    OBVIOUS
  <2>2. /\ frame \in FrameRecord /\ frame.kids = kids /\ frame.todo = After
        /\ frame.start = Frame.start /\ frame.end = Frame.end
    BY <1>2, <2>1 DEF FrameRecord
  <2>3. \A id : Bare(id) => Strength[nodes[id].type] >= 0
    BY PlacesClosed DEF Bare
  <2>4. KidsFit(kids, next, Frame.start)
    BY <1>4, <1>7, <1>8, <2>3 DEF KidsFit, IsChild, AtLeast
  <2>5. frame.kids # <<>> /\ KidIds(frame.kids) \subseteq DOMAIN nodes
    BY <1>8, <2>2
  <2>6. stack' = [stack EXCEPT ![Top] = frame]
    BY <1>8, <2>1
  <2>7. KidsFit(frame.kids, next, frame.start)
    BY <2>2, <2>4
  <2>. QED  BY <1>1, <1>2, <1>3, <1>6, <1>7, <2>2, <2>5, <2>6, <2>7, TopKeeps
<1>9. PICK kids \in Seq(Kid) : kids = Frame.kids /\ kids # <<>>
  BY <1>2 DEF Reassign
<1>10. ASSUME Continue(After) PROVE PlaceInv'
  <2>1. [Frame EXCEPT !.todo = After, !.kids = kids] = [Frame EXCEPT !.todo = After]
    BY <1>2, <1>9 DEF FrameRecord
  <2>2. stack' = [stack EXCEPT ![Top] = [Frame EXCEPT !.todo = After]]
    BY <1>2, <1>10, ContinueTop
  <2>. QED  BY <1>2, <1>8, <1>9, <2>1, <2>2
<1>11. ASSUME NEW i \in 1..(Len(kids) - 1),
              stack' = [stack EXCEPT ![Top] =
                          [@ EXCEPT !.todo = After, !.kids = RemoveAt(kids, i)]]
       PROVE  PlaceInv'
  <2>1. PICK less : less = RemoveAt(kids, i)
    OBVIOUS
  <2>2. Len(kids) \in Nat /\ i \in 1..Len(kids)
    BY <1>11, LenProperties
  <2>3. less \in Seq(Kid) /\ Len(less) = Len(kids) - 1 /\ KidIds(less) \subseteq KidIds(kids)
    BY <2>1, <2>2, KidsLeft, OneKidLess
  <2>4. less # <<>>
    BY <1>11, <2>2, <2>3
  <2>5. stack' = [stack EXCEPT ![Top] = [Frame EXCEPT !.todo = After, !.kids = less]]
    BY <1>11, <2>1 DEF Frame
  <2>. QED  BY <1>2, <1>8, <1>9, <2>3, <2>4, <2>5
<1>. QED  BY <1>9, <1>10, <1>11 DEF Reassign

-----------------------------------------------------------------------------
(* Nodes                                                                   *)

\* An operator of this type may have these operands.
KidsBind(kids, type) == \A kid \in Range(kids) : Bare(kid.id) =>
  IF kid.field = "right" THEN Strength[nodes[kid.id].type] > Strength[type]
                         ELSE Strength[nodes[kid.id].type] >= Strength[type]

LEMMA BindsKept ==
  ASSUME NodesGrow, NEW kids \in Seq(Kid), KidIds(kids) \subseteq DOMAIN nodes,
         NEW type, KidsBind(kids, type)
  PROVE  KidsBind(kids, type)'
<1>1. \A kid \in Range(kids) : kid.id \in DOMAIN nodes
  BY DEF KidIds, Range
<1>. QED  BY <1>1, BareKept DEF KidsBind

LEMMA BindsGrow ==
  ASSUME Ready, Forest, OperatorsBind, tokens' = tokens,
         NEW node \in NodeRecord, nodes' = Append(nodes, node),
         KidIds(node.kids) \subseteq DOMAIN nodes,
         IsOperator(node.type) => KidsBind(node.kids, node.type)
  PROVE  /\ NodesGrow /\ OperatorsBind'
         /\ NewId \in Nat /\ NewId \in DOMAIN nodes' /\ nodes'[NewId] = node
<1>1. /\ NewId = Len(nodes) + 1 /\ Len(nodes) \in Nat
      /\ DOMAIN nodes' = 1..NewId /\ DOMAIN nodes = 1..(NewId - 1)
      /\ nodes'[NewId] = node
      /\ \A i \in DOMAIN nodes : nodes'[i] = nodes[i]
  BY OneMoreNode
<1>2. NodesGrow
  BY <1>1 DEF NodesGrow
<1>3. ASSUME NEW id \in DOMAIN nodes', NEW made, made = nodes'[id], IsOperator(made.type)
      PROVE  /\ made \in NodeRecord /\ KidIds(made.kids) \subseteq DOMAIN nodes
             /\ KidsBind(made.kids, made.type)
  <2>1. CASE id = NewId
    BY <1>1, <1>3, <2>1
  <2>2. CASE id \in DOMAIN nodes
    <3>1. made = nodes[id] /\ made \in NodeRecord
      BY <1>1, <1>3, <2>2, ElementOfSeq DEF Ready, TypeOK
    <3>2. KidIds(made.kids) \subseteq DOMAIN nodes
      BY <1>1, <2>2, <3>1 DEF Forest, NodesForest
    <3>3. KidsBind(made.kids, made.type)
      BY <1>3, <2>2, <3>1 DEF OperatorsBind, NodeIds, KidsBind, Bare, IsOperator
    <3>. QED  BY <3>1, <3>2, <3>3
  <2>. QED  BY <1>1, <2>1, <2>2
<1>4. ASSUME NEW id \in DOMAIN nodes', NEW made, made = nodes'[id], IsOperator(made.type)
      PROVE  KidsBind(made.kids, made.type)'
  <2>1. /\ made \in NodeRecord /\ KidIds(made.kids) \subseteq DOMAIN nodes
        /\ KidsBind(made.kids, made.type)
    BY <1>3, <1>4
  <2>2. PICK kids \in Seq(Kid), type \in NodeTypes : kids = made.kids /\ type = made.type
    BY <2>1 DEF NodeRecord
  <2>3. KidsBind(kids, type)'
    BY <1>2, <2>1, <2>2, BindsKept
  <2>. QED  BY <2>2, <2>3
<1>5. OperatorsBind'
  BY <1>4 DEF OperatorsBind, NodeIds, KidsBind, Bare, IsOperator
<1>. QED  BY <1>1, <1>2, <1>5

LEMMA BindsStay ==
  ASSUME OperatorsBind, tokens' = tokens, nodes' = nodes
  PROVE  OperatorsBind'
  BY DEF OperatorsBind, NodeIds, InParentheses, TokenType

\* A node is made of the first child, under another name, and of the others.
LEMMA OperandsBind ==
  ASSUME NEW kids \in Seq(Kid), kids # <<>>, NEW place \in Places, NEW start, NEW type,
         NEW field, NEW renamed, renamed = [kids EXCEPT ![1].field = field],
         KidsFit(kids, place, start), IsOperator(type), field # "right",
         place.first.strength >= Strength[type], place.rest > Strength[type]
  PROVE  KidsBind(renamed, type)
<1>1. PICK n \in Nat : n = Len(kids) /\ 1 \in 1..n /\ DOMAIN kids = 1..n
  <2>1. Len(kids) \in Nat /\ DOMAIN kids = 1..Len(kids)
    BY LenProperties
  <2>. QED  BY <2>1, EmptySeq
<1>2. PICK kid : kid = [kids[1] EXCEPT !.field = field]
  OBVIOUS
<1>3. kid.field = field /\ kid.id = kids[1].id
  <2>1. kids[1] \in Kid
    BY <1>1
  <2>. QED  BY <1>2, <2>1 DEF Kid
<1>4. DOMAIN renamed = 1..n /\ renamed[1] = kid /\ \A i \in 2..n : renamed[i] = kids[i]
  BY <1>1, <1>2
<1>5. Strength[type] \in Int /\ \A id : Bare(id) => Strength[nodes[id].type] \in Int
  <2>1. ASSUME NEW id, Bare(id) PROVE Strength[nodes[id].type] \in Int
    BY <2>1, OperatorNumbers DEF Bare
  <2>2. Strength[type] \in Int
    BY OperatorNumbers
  <2>. QED  BY <2>1, <2>2
<1>6. place.first.strength \in Int /\ place.rest \in Int
  BY PlaceNumbers
<1>7. ASSUME Bare(kid.id) PROVE Strength[nodes[kid.id].type] >= Strength[type]
  BY <1>3, <1>5, <1>6, <1>7 DEF KidsFit, IsChild
<1>8. ASSUME NEW i \in 2..n, Bare(kids[i].id)
      PROVE  /\ Strength[nodes[kids[i].id].type] > Strength[type]
             /\ Strength[nodes[kids[i].id].type] >= Strength[type]
  <2>1. Strength[nodes[kids[i].id].type] >= place.rest
    BY <1>1, <1>8 DEF KidsFit, AtLeast
  <2>. QED  BY <1>5, <1>6, <1>8, <2>1
<1>9. \A i \in 1..n : i = 1 \/ i \in 2..n
  BY <1>1
<1>. QED  BY <1>3, <1>4, <1>7, <1>8, <1>9 DEF KidsBind, Range

LEMMA MakeOperandPlaces ==
  ASSUME Ready, Forest, PlaceInv, OperatorsBind, MakeOperand
  PROVE  PlaceInv' /\ OperatorsBind'
<1>1. PICK at : PlacesFit(at)
  BY DEF PlaceInv
<1>2. /\ outcome = "running" /\ Step \in Code /\ Step.op = "wrap" /\ Does("wrap")
      /\ After \in Seq(Code) /\ tokens' = tokens /\ index' = index
      /\ Top \in 1..Top /\ Frame = stack[Top] /\ Frame \in FrameRecord
      /\ Frame.kids \in Seq(Kid) /\ KidIds(Frame.kids) \subseteq DOMAIN nodes
  BY <1>1, PlaceDoes DEF MakeOperand
<1>3. PICK place \in Places : /\ place = at[Top] /\ place.todo # <<>>
                              /\ Head(place.todo) = Step /\ Tail(place.todo) = After
                              /\ NextPlaces(place) \subseteq Places /\ Binds(place)
                              /\ ~place.moved => Frame.end = NoToken
                              /\ KidsFit(Frame.kids, place, Frame.start) /\ ParenFits(place.paren)
  BY <1>1, <1>2, PlaceDoes
<1>4. PICK type \in NodeTypes, field \in Fields : type = Step.type /\ field = Step.first
  BY <1>2, CodeAssumption
<1>5. PICK kids \in Seq(Kid), start \in Int :
        kids = Frame.kids /\ kids # <<>> /\ start = Frame.start
  BY <1>2, FrameFacts DEF MakeOperand
<1>6. PICK renamed : renamed = [kids EXCEPT ![1].field = field]
  OBVIOUS
<1>7. /\ renamed \in Seq(Kid) /\ KidIds(renamed) = KidIds(kids)
      /\ Increasing(kids) => Increasing(renamed)
  <2>1. 1 \in 1..Len(kids)
    BY <1>5, EmptySeq
  <2>2. PICK kid : kid = [kids[1] EXCEPT !.field = field]
    OBVIOUS
  <2>3. renamed = [kids EXCEPT ![1] = kid]
    BY <1>6, <2>2
  <2>4. kid \in Kid /\ kid.id = kids[1].id
    <3>1. kids[1] \in Kid
      BY <2>1
    <3>. QED  BY <2>2, <3>1 DEF Kid
  <2>5. /\ renamed \in Seq(Kid) /\ Len(renamed) = Len(kids)
        /\ \A j \in 1..Len(kids) : renamed[j] = IF j = 1 THEN kid ELSE kids[j]
    BY <2>1, <2>3, <2>4, ExceptSeq
  <2>6. \A j \in 1..Len(kids) : renamed[j].id = kids[j].id
    BY <2>4, <2>5
  <2>. QED  BY <2>5, <2>6, SameIds
<1>8. PICK node : node = NodeOf(type, renamed)
  OBVIOUS
<1>9. node \in NodeRecord /\ nodes' = Append(nodes, node)
  <2>1. KidIds(renamed) = Owned(Top) /\ (Increasing(Frame.kids) => Increasing(renamed))
    BY <1>2, <1>5, <1>7 DEF Owned
  <2>2. node \in NodeRecord
    BY <1>2, <1>7, <1>8, <2>1, MadeNode
  <2>. QED  BY <1>4, <1>5, <1>6, <1>8, <2>2 DEF MakeOperand
<1>10. /\ node.type = type /\ node.start = start /\ node.kids = renamed
       /\ Frame.end = NoToken => node.end = index
  BY <1>5, <1>8 DEF NodeOf
<1>11. ASSUME IsOperator(type)
       PROVE  /\ field # "right" /\ ~place.moved
              /\ place.first.strength >= Strength[type] /\ place.rest > Strength[type]
  BY <1>2, <1>3, <1>4, <1>11 DEF Binds
<1>12. IsOperator(type) => KidsBind(renamed, type)
  BY <1>3, <1>5, <1>6, <1>11, OperandsBind
<1>13. /\ NodesGrow /\ OperatorsBind'
       /\ NewId \in Nat /\ NewId \in DOMAIN nodes' /\ nodes'[NewId] = node
  BY <1>2, <1>5, <1>7, <1>9, <1>10, <1>12, BindsGrow
<1>14. PICK left : left = [field |-> kids[1].field, id |-> NewId]
  OBVIOUS
<1>15. left \in Kid /\ left.id = NewId
  <2>1. kids[1] \in Kid
    BY <1>5, EmptySeq
  <2>. QED  BY <1>13, <1>14, <2>1 DEF Kid
<1>16. PICK only \in Seq(Kid) : only = <<left>> /\ Len(only) = 1 /\ only[1] = left /\ only # <<>>
  <2>1. <<left>> \in Seq(Kid)
    BY <1>15
  <2>. QED  BY <2>1
<1>17. PICK frame : frame = [Frame EXCEPT !.todo = After, !.end = NoToken, !.kids = only]
  OBVIOUS
<1>18. /\ frame \in FrameRecord /\ frame.kids = only /\ frame.todo = After
       /\ frame.start = start /\ frame.end = NoToken
  <2>1. NoToken \in Int
    BY DEF NoToken
  <2>. QED  BY <1>2, <1>5, <1>17, <2>1 DEF FrameRecord
<1>19. stack' = [stack EXCEPT ![Top] = frame]
  BY <1>5, <1>14, <1>16, <1>17 DEF MakeOperand, Frame
<1>20. PICK first : first = IF IsOperator(type) THEN Child(Strength[type], "start")
                            ELSE [strength |-> Closed, begins |-> "any", ends |-> FALSE]
  OBVIOUS
<1>21. PICK next : next = Place(After, place.promise, place.moved, place.paren, first, Closed)
  OBVIOUS
<1>22. next \in Places
  BY <1>2, <1>3, <1>4, <1>20, <1>21, NextWrap
<1>23. /\ next.todo = After /\ next.promise = place.promise /\ next.moved = place.moved
       /\ next.paren = place.paren /\ next.first = first
  BY <1>21, PlaceParts
<1>24. IsChild(left.id, first, start)'
  <2>1. PICK id : id = left.id
    OBVIOUS
  <2>2. ASSUME Bare(id)'
        PROVE  /\ Strength[nodes'[id].type] >= first.strength /\ first.begins = "start"
               /\ nodes'[id].start = start /\ nodes'[id].end = index
    <3>1. nodes'[id] = node /\ IsOperator(type)
      BY <1>10, <1>13, <1>15, <2>1, <2>2 DEF Bare
    <3>2. first.strength = Strength[type] /\ first.begins = "start"
      BY <1>20, <3>1 DEF Child
    <3>3. Strength[type] \in Int
      BY <3>1, PlacesClosed
    <3>. QED  BY <1>3, <1>10, <1>11, <3>1, <3>2, <3>3
  <2>3. IsChild(id, first, start)'
    BY <1>2, <2>2 DEF IsChild
  <2>. QED  BY <2>1, <2>3
<1>25. KidsFit(only, next, start)'
  <2>1. first.begins # "none"
    BY <1>20 DEF Child
  <2>2. \A i \in 2..Len(only) : FALSE
    BY <1>16
  <2>. QED  BY <1>16, <1>23, <1>24, <2>1, <2>2 DEF KidsFit
<1>26. ParenFits(next.paren)'
  BY <1>2, <1>3, <1>23 DEF ParenFits, Peek, TokenType
<1>27. PlaceInv'
  BY <1>1, <1>2, <1>3, <1>5, <1>13, <1>18, <1>19, <1>22, <1>23, <1>25, <1>26, TopMoves
<1>. QED  BY <1>13, <1>27

-----------------------------------------------------------------------------
(* Results                                                                 *)

\* The operator node is what the place of the call that returns it promises.
Fulfils(node, place, start) ==
  /\ IsOperator(node.type) /\ Strength[node.type] >= place.promise
  /\ node.start = start /\ node.end = index /\ ~place.moved

LEMMA Least ==
  ASSUME NEW S, S \subseteq Nat, S # {}
  PROVE  \E x \in S : \A y \in S : x <= y
<1> DEFINE R == {ss \in Nat \X Nat : ss[1] < ss[2]}
<1>1. IsWellFoundedOn(R, Nat)
  BY NatLessThanWellFounded DEF OpToRel
<1> HIDE DEF R
<1>2. PICK x \in S : \A y \in S : <<y, x>> \notin R
  BY <1>1, WFMin
<1>3. \A y \in S : ~(y < x)
  BY <1>2 DEF R
<1>. QED  BY <1>2, <1>3

\* A node that is strong enough and begins and ends right is the child awaited.
LEMMA FirstChild ==
  ASSUME NEW k \in 1..Top, NEW place \in Places, NEW above \in Places, NEW node, NEW start,
         start = stack[k + 1].start, WaitsForFirst(k, place, above),
         Fulfils(node, above, start)
  PROVE  /\ Strength[node.type] >= place.first.strength
         /\ place.first.begins = "start" => node.start = stack[k].start
         /\ place.first.begins = "paren" => TokenType(node.start - 1) \in OpenParentheses
         /\ place.first.ends => node.end = index
<1>1. Strength[node.type] >= place.first.strength
  <2>1. PICK strength \in Int : strength = Strength[node.type]
    BY OperatorNumbers DEF Fulfils
  <2>2. PICK promise \in Int, demand \in Int :
          promise = above.promise /\ demand = place.first.strength
    BY PlaceNumbers
  <2>3. strength >= promise /\ promise >= demand
    BY <2>1, <2>2 DEF Fulfils, WaitsForFirst
  <2>. QED  BY <2>1, <2>2, <2>3
<1>2. node.start = start /\ node.end = index /\ ~above.moved
  BY DEF Fulfils
<1>. QED  BY <1>1, <1>2 DEF WaitsForFirst

\* What is returned is what the place promises, ...
LEMMA Returned ==
  ASSUME NEW node, NEW place \in Places, NEW start, IsOperator(node.type),
         Strength[node.type] >= place.first.strength,
         place.first.begins = "start" => node.start = start,
         place.first.ends => node.end = index,
         \/ place.first.strength = Closed
         \/ /\ place.first.strength >= place.promise /\ place.first.begins = "start"
            /\ place.first.ends /\ ~place.moved
  PROVE  Fulfils(node, place, start)
<1>1. Strength[node.type] \in 1..11 /\ Closed = 12
  BY PlacesClosed
<1>2. PICK strength \in 1..11 : strength = Strength[node.type]
  BY <1>1
<1>3. PICK demand \in Int, promise \in Int :
        demand = place.first.strength /\ promise = place.promise
  BY PlaceNumbers
<1>4. strength >= demand
  BY <1>2, <1>3
<1>5. place.first.strength # Closed
  BY <1>1, <1>3, <1>4
<1>6. demand >= promise /\ node.start = start /\ node.end = index /\ ~place.moved
  BY <1>3, <1>5
<1>7. strength >= promise
  BY <1>3, <1>4, <1>6
<1>. QED  BY <1>2, <1>3, <1>6, <1>7 DEF Fulfils

LEMMA TwoSteps ==
  ASSUME NEW todo \in Seq(Code), Len(todo) = 2
  PROVE  todo # <<>> /\ Head(todo) = todo[1] /\ Tail(todo) # <<>> /\ Head(Tail(todo)) = todo[2]
<1>1. todo # <<>> /\ Head(todo) = todo[1]
  OBVIOUS
<1>2. PICK rest \in Seq(Code) : rest = Tail(todo)
  BY <1>1, HeadTailProperties
<1>3. Len(rest) = 1 /\ rest[1] = todo[2]
  <2>1. Len(rest) = Len(todo) - 1 /\ \A i \in 1..Len(rest) : rest[i] = todo[i + 1]
    BY <1>1, <1>2, HeadTailProperties
  <2>. QED  BY <2>1
<1>4. rest = <<todo[2]>>
  BY <1>3
<1>. QED  BY <1>1, <1>2, <1>4

\* ... and so is what a call passes on.
LEMMA StillFulfils ==
  ASSUME Ready, Forest, NEW at, PlacesFit(at), NEW node, NEW j \in 1..(Top - 1),
         PassesOn(stack[j]), Fulfils(node, at[j + 1], stack[j + 1].start)
  PROVE  Fulfils(node, at[j], stack[j].start)
<1>1. Top \in Nat /\ j \in 1..Top /\ j + 1 \in 1..Top
  <2>1. Top \in Nat
    BY CallFacts
  <2>. QED  BY <2>1
<1>2. PICK place \in Places, above \in Places : place = at[j] /\ above = at[j + 1]
  BY <1>1 DEF PlacesFit
<1>3. PICK todo \in Seq(Code) : todo = stack[j].todo
  BY <1>1, CallFacts, FrameFacts
<1>4. /\ Sits(j, place) /\ Waits(j, place, above) /\ place.todo = todo
      /\ stack[j].kids = <<>> /\ place.first.begins # "none" /\ WaitsForFirst(j, place, above)
  <2>1. Sits(j, place) /\ Waits(j, place, above)
    BY <1>1, <1>2 DEF PlacesFit
  <2>2. stack[j].kids = <<>>
    BY DEF PassesOn
  <2>. QED  BY <1>3, <2>1, <2>2 DEF Sits, Waits
<1>5. Len(todo) = 2 /\ todo[1].op = "while" /\ todo[2].op = "return"
  BY <1>3 DEF PassesOn
<1>6. PICK rest : /\ rest = Tail(todo) /\ todo # <<>> /\ Head(todo) = todo[1]
                  /\ rest # <<>> /\ Head(rest) = todo[2]
  BY <1>5, TwoSteps
<1>7. PICK next : next = Place(rest, place.promise, place.moved, place.paren,
                               place.first, place.rest)
  OBVIOUS
<1>8. next \in Places
  <2>1. next \in NextPlaces(place)
    BY <1>4, <1>5, <1>6, <1>7, NextSame
  <2>. QED  BY <2>1, PlaceFacts
<1>9. /\ next.todo = rest /\ next.first = place.first /\ next.promise = place.promise
      /\ next.moved = place.moved
  BY <1>7, PlaceParts
<1>10. \/ place.first.strength = Closed
       \/ /\ place.first.strength >= place.promise /\ place.first.begins = "start"
          /\ place.first.ends /\ ~place.moved
  <2>1. Binds(next)
    BY <1>8, PlaceFacts
  <2>. QED  BY <1>4, <1>5, <1>6, <1>9, <2>1 DEF Binds
<1>11. PICK start : start = stack[j + 1].start
  OBVIOUS
<1>12. /\ Strength[node.type] >= place.first.strength
       /\ place.first.begins = "start" => node.start = stack[j].start
       /\ place.first.ends => node.end = index
  <2>1. Fulfils(node, above, start)
    BY <1>2, <1>11
  <2>. QED  BY <1>1, <1>4, <1>11, <2>1, FirstChild
<1>13. IsOperator(node.type)
  BY DEF Fulfils
<1>14. PICK from : from = stack[j].start
  OBVIOUS
<1>15. Fulfils(node, place, from)
  BY <1>10, <1>12, <1>13, <1>14, Returned
<1>. QED  BY <1>2, <1>14, <1>15

LEMMA PassedDown ==
  ASSUME Ready, Forest, NEW at, PlacesFit(at), NEW node, NEW k \in 1..(Top - 1),
         \A j \in (k + 1)..(Top - 1) : PassesOn(stack[j]),
         Fulfils(node, at[Top], stack[Top].start)
  PROVE  Fulfils(node, at[k + 1], stack[k + 1].start)
<1> DEFINE Bad == {d \in Nat : /\ Top - d \in (k + 1)..Top
                               /\ ~Fulfils(node, at[Top - d], stack[Top - d].start)}
<1>1. Top \in Nat
  BY CallFacts
<1>2. SUFFICES ASSUME ~Fulfils(node, at[k + 1], stack[k + 1].start) PROVE FALSE
  OBVIOUS
<1>3. Bad # {}
  <2>1. PICK d \in Nat : d = Top - (k + 1)
    BY <1>1
  <2>2. Top - d = k + 1 /\ Top - d \in (k + 1)..Top
    BY <1>1, <2>1
  <2>3. d \in Bad
    BY <1>2, <2>2
  <2>. QED  BY <2>3
<1>4. PICK d \in Bad : \A e \in Bad : d <= e
  <2>1. Bad \subseteq Nat
    OBVIOUS
  <2> HIDE DEF Bad
  <2>. QED  BY <1>3, <2>1, Least
<1>5. /\ d \in Nat /\ Top - d \in (k + 1)..Top
      /\ ~Fulfils(node, at[Top - d], stack[Top - d].start)
  BY <1>4
<1>6. PICK j \in (k + 1)..Top : j = Top - d
  BY <1>5
<1>7. j # Top
  BY <1>5, <1>6
<1>8. PICK e \in Nat : e = d - 1 /\ Top - e = j + 1
  BY <1>1, <1>5, <1>6, <1>7
<1>9. e \notin Bad
  BY <1>4, <1>5, <1>8
<1>10. Fulfils(node, at[j + 1], stack[j + 1].start)
  <2>1. Top - e \in (k + 1)..Top
    BY <1>1, <1>6, <1>7, <1>8
  <2>2. Fulfils(node, at[Top - e], stack[Top - e].start)
    BY <1>9, <2>1
  <2>. QED  BY <1>8, <2>2
<1>11. j \in 1..(Top - 1) /\ PassesOn(stack[j])
  BY <1>1, <1>6, <1>7
<1>12. Fulfils(node, at[j], stack[j].start)
  BY <1>10, <1>11, StillFulfils
<1>. QED  BY <1>5, <1>6, <1>12

\* The call that waited has one child more.
LEMMA ReceivedFits ==
  ASSUME Ready, Forest, NodesGrow, index' = index, NEW k \in 1..(Top - 1),
         NEW place \in Places, NEW above \in Places, Waits(k, place, above),
         NEW kids \in Seq(Kid), kids = stack[k].kids, NEW start, start = stack[k].start,
         NEW id \in DOMAIN nodes', NEW node, node = nodes'[id],
         NEW from, from = stack[k + 1].start, Bare(id)' => Fulfils(node, above, from),
         NEW kid \in Kid, kid.id = id, NEW more, more = Append(kids, kid)
  PROVE  KidsFit(more, place, start)' /\ ParenFits(place.paren)'
<1>1. /\ more \in Seq(Kid) /\ Len(kids) \in Nat /\ Len(more) = Len(kids) + 1
      /\ \A i \in 1..Len(kids) : more[i] = kids[i]
      /\ more[Len(kids) + 1] = kid
  BY OneMoreChild DEF WithOneMore
<1>2. Top \in Nat /\ k \in 1..Top /\ tokens' = tokens /\ KidIds(kids) \subseteq DOMAIN nodes
  <2>1. Top \in Nat
    BY CallFacts
  <2>2. k \in 1..Top
    BY <2>1
  <2>3. KidIds(kids) \subseteq DOMAIN nodes
    BY <2>2, CallFacts
  <2>. QED  BY <2>1, <2>2, <2>3 DEF NodesGrow
<1>3. place.paren = "no" /\ place.first.begins # "none" /\ more # <<>>
  <2>1. more # <<>>
    BY <1>1, EmptySeq
  <2>. QED  BY <2>1 DEF Waits
<1>4. CASE kids = <<>>
  <2>1. WaitsForFirst(k, place, above)
    BY <1>4 DEF Waits
  <2>2. ASSUME Bare(id)'
        PROVE  /\ Strength[node.type] >= place.first.strength
               /\ place.first.begins = "start" => node.start = start
               /\ place.first.begins = "paren" => TokenType(node.start - 1) \in OpenParentheses
               /\ place.first.ends => node.end = index
    BY <1>2, <2>1, <2>2, FirstChild
  <2>3. IsChild(id, place.first, start)'
    <3>1. PICK first : first = place.first
      OBVIOUS
    <3>2. IsChild(id, first, start)'
      BY <1>2, <2>2, <3>1 DEF IsChild, TokenType
    <3>. QED  BY <3>1, <3>2
  <2>4. Len(more) = 1 /\ more[1] = kid
    BY <1>1, <1>4
  <2>5. \A i \in 2..Len(more) : FALSE
    BY <2>4
  <2>6. KidsFit(more, place, start)'
    BY <1>3, <2>3, <2>4, <2>5 DEF KidsFit
  <2>. QED  BY <1>3, <2>6 DEF ParenFits
<1>5. CASE kids # <<>>
  <2>1. WaitsForMore(k, place, above)
    BY <1>5 DEF Waits
  <2>2. above.promise >= place.rest /\ ~place.first.ends /\ KidsFit(kids, place, start)
    BY <2>1 DEF WaitsForMore
  <2>3. KidsFit(kids, place, start)'
    BY <1>2, <2>2, KidsFitKept
  <2>4. AtLeast(id, place.rest)'
    <3>1. PICK rest \in Int : rest = place.rest
      BY PlaceNumbers
    <3>2. ASSUME Bare(id)' PROVE Strength[node.type] >= rest
      <4>1. PICK strength \in Int, promise \in Int :
              strength = Strength[node.type] /\ promise = above.promise
        BY <3>2, OperatorNumbers, PlaceNumbers DEF Fulfils
      <4>2. strength >= promise /\ promise >= rest
        BY <2>2, <3>1, <3>2, <4>1 DEF Fulfils
      <4>. QED  BY <4>1, <4>2
    <3>3. AtLeast(id, rest)'
      BY <3>2 DEF AtLeast
    <3>. QED  BY <3>1, <3>3
  <2>5. Len(kids) >= 1 /\ more[1] = kids[1]
    BY <1>1, <1>5, EmptySeq
  <2>6. IsChild(more[1].id, place.first, start)'
    BY <1>5, <2>3, <2>5 DEF KidsFit
  <2>7. ASSUME NEW i \in 2..Len(more) PROVE AtLeast(more[i].id, place.rest)'
    <3>1. CASE i = Len(kids) + 1
      BY <1>1, <2>4, <3>1
    <3>2. CASE i \in 2..Len(kids)
      <4>1. i \in 1..Len(kids)
        BY <3>2
      <4>. QED  BY <1>1, <2>3, <3>2, <4>1 DEF KidsFit
    <3>. QED  BY <1>1, <3>1, <3>2
  <2>8. KidsFit(more, place, start)'
    BY <1>3, <2>6, <2>7 DEF KidsFit
  <2>. QED  BY <1>3, <2>8 DEF ParenFits
<1>. QED  BY <1>4, <1>5

LEMMA ResultPlaces ==
  ASSUME Ready, Forest, outcome = "running", NodesGrow, index' = index,
         NEW at, PlacesFit(at), NEW id \in DOMAIN nodes', id \in Nat,
         NEW node, node = nodes'[id],
         Bare(id)' => Fulfils(node, at[Top], stack[Top].start), Deliver(id)
  PROVE  PlaceInv'
<1>1. PICK k \in 1..(Top - 1) :
        /\ Receives(k)
        /\ stack' = [SubSeq(stack, 1, k) EXCEPT ![k].kids =
                       Append(@, [field |-> stack[k + 1].field, id |-> id])]
  BY DEF Deliver
<1>2. /\ stack \in Seq(FrameRecord) /\ Len(stack) = Top /\ Top \in Nat
      /\ k \in 1..Top /\ k + 1 \in 1..Top /\ k < Top
  BY CallFacts
<1>3. PICK called \in FrameRecord : called = stack[k]
  BY <1>2, CallFacts
<1>4. PICK kids \in Seq(Kid), start \in Int : kids = stack[k].kids /\ start = stack[k].start
  BY <1>2, CallFacts, FrameFacts
<1>5. PICK field \in Fields : field = stack[k + 1].field
  BY <1>2, CallFacts, FrameFacts
<1>6. PICK kid : kid = [field |-> field, id |-> id]
  OBVIOUS
<1>7. kid \in Kid /\ kid.id = id
  BY <1>6 DEF Kid
<1>8. PICK more : more = Append(kids, kid)
  OBVIOUS
<1>9. more \in Seq(Kid)
  BY <1>7, <1>8, OneMoreChild DEF WithOneMore
<1>10. PICK frame : frame = [called EXCEPT !.kids = more]
  OBVIOUS
<1>11. /\ frame \in FrameRecord /\ frame.kids = more /\ frame.todo = called.todo
       /\ frame.start = called.start /\ frame.end = called.end
  BY <1>9, <1>10 DEF FrameRecord
<1>12. PICK base : base = SubSeq(stack, 1, k)
  OBVIOUS
<1>13. base \in Seq(FrameRecord) /\ Len(base) = k /\ \A j \in 1..k : base[j] = stack[j]
  BY <1>2, <1>12, SubSeqProperties
<1>14. stack' = [base EXCEPT ![k] = frame]
  <2>1. k \in 1..k /\ base[k] = called /\ called.kids = kids
    BY <1>2, <1>3, <1>4, <1>13
  <2>. QED  BY <1>1, <1>5, <1>6, <1>8, <1>10, <1>12, <2>1
<1>15. /\ stack' \in Seq(FrameRecord) /\ Len(stack') = k
       /\ \A j \in 1..k : stack'[j] = IF j = k THEN frame ELSE stack[j]
  <2>1. k \in 1..Len(base)
    BY <1>2, <1>13
  <2>2. /\ stack' \in Seq(FrameRecord) /\ Len(stack') = Len(base)
        /\ \A j \in 1..Len(base) : stack'[j] = IF j = k THEN frame ELSE base[j]
    BY <1>11, <1>13, <1>14, <2>1, ExceptSeq
  <2>. QED  BY <1>13, <2>2
<1>16. Top' = k /\ k \in 1..k /\ stack'[k] = frame
       /\ \A j \in 1..(k - 1) : j \in 1..k /\ stack'[j] = stack[j]
  <2>1. Top' = k
    BY <1>15 DEF Top
  <2>2. k \in 1..k /\ stack'[k] = frame
    BY <1>2, <1>15
  <2>3. ASSUME NEW j \in 1..(k - 1) PROVE j \in 1..k /\ stack'[j] = stack[j]
    <3>1. j \in 1..k /\ j # k
      BY <1>2
    <3>. QED  BY <1>15, <3>1
  <2>. QED  BY <2>1, <2>2, <2>3
<1>17. PICK place \in Places, above \in Places : place = at[k] /\ above = at[k + 1]
  BY <1>2 DEF PlacesFit
<1>18. Sits(k, place) /\ Waits(k, place, above)
  BY <1>2, <1>17 DEF PlacesFit
<1>19. PICK from : from = stack[k + 1].start
  OBVIOUS
<1>20. Bare(id)' => Fulfils(node, above, from)
  <2>1. \A j \in (k + 1)..(Top - 1) : PassesOn(stack[j])
    BY <1>1 DEF Receives
  <2>2. ASSUME Bare(id)' PROVE Fulfils(node, at[k + 1], stack[k + 1].start)
    BY <2>1, <2>2, PassedDown
  <2>. QED  BY <1>17, <1>19, <2>2
<1>21. KidsFit(more, place, start)' /\ ParenFits(place.paren)'
  BY <1>4, <1>7, <1>8, <1>17, <1>18, <1>19, <1>20, ReceivedFits
<1>22. Sits(k, place)' /\ Acts(k, place)'
  BY <1>3, <1>4, <1>11, <1>16, <1>18, <1>21 DEF Sits, Acts
<1>23. PICK now : now = [j \in 1..k |-> at[j]]
  OBVIOUS
<1>24. now \in [1..k -> Places] /\ \A j \in 1..k : now[j] = at[j]
  <2>1. \A j \in 1..k : j \in 1..Top
    BY <1>2
  <2>. QED  BY <1>23, <2>1 DEF PlacesFit
<1>25. \A j \in 1..k : Sits(j, now[j])'
  <2>1. ASSUME NEW j \in 1..(k - 1) PROVE Sits(j, now[j])'
    <3>1. j \in 1..Top /\ Sits(j, at[j]) /\ stack'[j] = stack[j] /\ now[j] = at[j]
      BY <1>2, <1>16, <1>24 DEF PlacesFit
    <3>. QED  BY <3>1 DEF Sits
  <2>2. \A j \in 1..k : j = k \/ j \in 1..(k - 1)
    BY <1>2
  <2>. QED  BY <1>16, <1>17, <1>22, <1>24, <2>1, <2>2
<1>26. ASSUME NEW j \in 1..(k - 1) PROVE Waits(j, now[j], now[j + 1])'
  <2>1. /\ j \in 1..Top /\ j \in 1..(Top - 1) /\ j \in 1..k /\ j + 1 \in 1..k
        /\ j + 1 = k \/ j + 1 \in 1..(k - 1)
    BY <1>2
  <2>2. PICK here, over : here = at[j] /\ over = at[j + 1]
    OBVIOUS
  <2>3. Waits(j, here, over)
    BY <2>1, <2>2 DEF PlacesFit
  <2>4. stack'[j] = stack[j] /\ stack'[j + 1].start = stack[j + 1].start
    BY <1>3, <1>11, <1>16, <2>1
  <2>5. Waits(j, here, over)'
    BY <2>1, <2>3, <2>4, WaitsKept
  <2>. QED  BY <1>24, <2>1, <2>2, <2>5
<1>27. PlacesFit(now)'
  BY <1>16, <1>17, <1>22, <1>24, <1>25, <1>26 DEF PlacesFit
<1>. QED  BY <1>27 DEF PlaceInv

LEMMA MakeNodePlaces ==
  ASSUME Ready, Forest, PlaceInv, OperatorsBind, MakeNode
  PROVE  PlaceInv' /\ OperatorsBind'
<1>1. PICK at : PlacesFit(at)
  BY DEF PlaceInv
<1>2. /\ outcome = "running" /\ Step \in Code /\ Step.op = "make"
      /\ tokens' = tokens /\ index' = index
      /\ Top \in 1..Top /\ Frame = stack[Top] /\ Frame \in FrameRecord
      /\ Frame.kids \in Seq(Kid) /\ KidIds(Frame.kids) \subseteq DOMAIN nodes
  BY <1>1, PlaceDoes DEF MakeNode
<1>3. PICK place \in Places : /\ place.todo # <<>> /\ Head(place.todo) = Step /\ Binds(place)
  BY <1>1, PlaceDoes DEF MakeNode
<1>4. PICK type \in NodeTypes : type = Step.type
  BY <1>2, CodeAssumption
<1>5. ~IsOperator(type)
  BY <1>2, <1>3, <1>4 DEF Binds
<1>6. PICK kids \in Seq(Kid) : kids = Frame.kids
  BY <1>2
<1>7. PICK node : node = NodeOf(type, kids)
  OBVIOUS
<1>8. node \in NodeRecord /\ nodes' = Append(nodes, node) /\ node.type = type /\ node.kids = kids
  <2>1. KidIds(kids) = Owned(Top) /\ (Increasing(Frame.kids) => Increasing(kids))
    BY <1>2, <1>6 DEF Owned
  <2>2. node \in NodeRecord
    BY <1>2, <1>6, <1>7, <2>1, MadeNode
  <2>. QED  BY <1>4, <1>6, <1>7, <2>2 DEF MakeNode, NodeOf
<1>9. /\ NodesGrow /\ OperatorsBind'
      /\ NewId \in Nat /\ NewId \in DOMAIN nodes' /\ nodes'[NewId] = node
  BY <1>2, <1>5, <1>6, <1>8, BindsGrow
<1>10. PICK id \in Nat : id = NewId
  BY <1>9
<1>11. ~Bare(id)'
  BY <1>5, <1>8, <1>9, <1>10 DEF Bare
<1>12. PlaceInv'
  <2>1. id \in DOMAIN nodes' /\ node = nodes'[id] /\ Deliver(id)
    BY <1>9, <1>10 DEF MakeNode
  <2>. QED  BY <1>1, <1>2, <1>9, <1>11, <2>1, ResultPlaces
<1>. QED  BY <1>9, <1>12

LEMMA MakeModuleNodePlaces ==
  ASSUME Ready, Forest, PlaceInv, OperatorsBind, MakeModuleNode
  PROVE  PlaceInv' /\ OperatorsBind'
<1>1. PICK at : PlacesFit(at)
  BY DEF PlaceInv
<1>2. /\ outcome = "running" /\ Step \in Code /\ Step.op = "make_root" /\ tokens' = tokens
      /\ Top \in 1..Top /\ Frame = stack[Top] /\ Frame \in FrameRecord
      /\ Frame.kids \in Seq(Kid) /\ KidIds(Frame.kids) \subseteq DOMAIN nodes
  BY <1>1, PlaceDoes DEF MakeModuleNode
<1>3. PICK place \in Places : /\ place.todo # <<>> /\ Head(place.todo) = Step /\ Binds(place)
  BY <1>1, PlaceDoes DEF MakeModuleNode
<1>4. PICK type \in NodeTypes : type = Step.type
  BY <1>2, CodeAssumption
<1>5. ~IsOperator(type)
  BY <1>2, <1>3, <1>4 DEF Binds
<1>6. PICK kids \in Seq(Kid) : kids = Frame.kids
  BY <1>2
<1>7. PICK node : node = NodeOf(type, kids)
  OBVIOUS
<1>8. node \in NodeRecord /\ nodes' = Append(nodes, node) /\ node.type = type /\ node.kids = kids
  <2>1. KidIds(kids) = Owned(Top) /\ (Increasing(Frame.kids) => Increasing(kids))
    BY <1>2, <1>6 DEF Owned
  <2>2. node \in NodeRecord
    BY <1>2, <1>6, <1>7, <2>1, MadeNode
  <2>. QED  BY <1>4, <1>6, <1>7, <2>2 DEF MakeModuleNode, NodeOf
<1>9. OperatorsBind'
  BY <1>2, <1>5, <1>6, <1>8, BindsGrow
<1>10. PlaceInv'
  <2>1. Top' = 0
    BY DEF MakeModuleNode, Top
  <2>2. PICK none : none = [k \in 1..0 |-> place]
    OBVIOUS
  <2>3. none \in [1..0 -> Places] /\ \A k \in 1..0 : FALSE
    BY <2>2
  <2>4. PlacesFit(none)'
    BY <2>1, <2>3 DEF PlacesFit
  <2>. QED  BY <2>4 DEF PlaceInv
<1>. QED  BY <1>9, <1>10

LEMMA HandOnPlaces ==
  ASSUME Ready, Forest, PlaceInv, OperatorsBind, HandOn
  PROVE  PlaceInv' /\ OperatorsBind'
<1>1. PICK at : PlacesFit(at)
  BY DEF PlaceInv
<1>2. /\ outcome = "running" /\ Step.op = "return"
      /\ tokens' = tokens /\ nodes' = nodes /\ index' = index
      /\ Top \in 1..Top /\ Frame = stack[Top] /\ Frame \in FrameRecord
      /\ Frame.kids \in Seq(Kid) /\ KidIds(Frame.kids) \subseteq DOMAIN nodes
  BY <1>1, PlaceDoes DEF HandOn, Output
<1>3. PICK place \in Places : /\ place = at[Top] /\ place.todo # <<>>
                              /\ Head(place.todo) = Step /\ Binds(place)
                              /\ KidsFit(Frame.kids, place, Frame.start)
  BY <1>1, PlaceDoes DEF HandOn
<1>4. PICK kids \in Seq(Kid), start \in Int : kids = Frame.kids /\ start = Frame.start
  BY <1>2, FrameFacts
<1>5. Len(kids) = 1 /\ kids # <<>> /\ kids[1] \in Kid
  BY <1>4 DEF HandOn
<1>6. PICK id \in Nat : id = kids[1].id
  BY <1>5 DEF Kid
<1>7. id \in DOMAIN nodes
  BY <1>2, <1>4, <1>5, <1>6, KidsThere
<1>8. PICK node : node = nodes[id]
  OBVIOUS
<1>9. ASSUME Bare(id) PROVE Fulfils(node, place, start)
  <2>1. /\ Strength[node.type] >= place.first.strength
        /\ place.first.begins = "start" => node.start = start
        /\ place.first.ends => node.end = index
    BY <1>3, <1>4, <1>5, <1>6, <1>8, <1>9 DEF KidsFit, IsChild
  <2>2. IsOperator(node.type)
    BY <1>8, <1>9 DEF Bare
  <2>3. place.first.begins # "none"
    BY <1>3, <1>4, <1>5 DEF KidsFit
  <2>4. \/ place.first.strength = Closed
        \/ /\ place.first.strength >= place.promise /\ place.first.begins = "start"
           /\ place.first.ends /\ ~place.moved
    BY <1>2, <1>3, <2>3 DEF Binds
  <2>. QED  BY <2>1, <2>2, <2>4, Returned
<1>10. NodesGrow
  BY <1>2 DEF NodesGrow
<1>11. PlaceInv'
  <2>1. id \in DOMAIN nodes' /\ node = nodes'[id] /\ Deliver(id)
    BY <1>2, <1>4, <1>6, <1>7, <1>8 DEF HandOn
  <2>2. Bare(id)' => Bare(id)
    BY <1>7, <1>10, BareKept
  <2>3. Bare(id)' => Fulfils(node, at[Top], stack[Top].start)
    BY <1>2, <1>3, <1>4, <1>9, <2>2
  <2>. QED  BY <1>1, <1>2, <1>10, <2>1, <2>3, ResultPlaces
<1>12. OperatorsBind'
  BY <1>2, BindsStay
<1>. QED  BY <1>11, <1>12

-----------------------------------------------------------------------------
(* Steps and theorem                                                       *)

LEMMA OnlyCallsMove ==
  ASSUME Ready, Forest, OperatorInv, tokens' = tokens, nodes' = nodes, PlaceInv'
  PROVE  OperatorInv'
  BY BindsStay DEF OperatorInv

LEMMA OperatorNext == ASSUME Ready, Forest, OperatorInv, Next PROVE OperatorInv'
<1>1. PlaceInv /\ OperatorsBind
  BY DEF OperatorInv
<1>2. CASE ReadAny
  BY <1>1, <1>2, ReadAnyPlaces, OnlyCallsMove DEF ReadAny, Output
<1>3. CASE ReadType
  BY <1>1, <1>3, ReadTypePlaces, OnlyCallsMove DEF ReadType, Refuse, Output
<1>4. CASE Check
  BY <1>1, <1>4, CheckPlaces, OnlyCallsMove DEF Check, Refuse, Output
<1>5. CASE Branch
  BY <1>1, <1>5, BranchPlaces, OnlyCallsMove DEF Branch, Output
<1>6. CASE Loop
  BY <1>1, <1>6, LoopPlaces, OnlyCallsMove DEF Loop, Output
<1>7. CASE Call
  BY <1>1, <1>7, CallPlaces, OnlyCallsMove DEF Call, Output
<1>8. CASE TailCall
  BY <1>1, <1>8, TailCallPlaces, OnlyCallsMove DEF TailCall, Output
<1>9. CASE Dispatch
  BY <1>1, <1>9, DispatchPlaces, OnlyCallsMove DEF Dispatch, Output
<1>10. CASE MakeOperand
  BY <1>1, <1>10, MakeOperandPlaces DEF OperatorInv
<1>11. CASE MakeNode
  BY <1>1, <1>11, MakeNodePlaces DEF OperatorInv
<1>12. CASE MakeModuleNode
  BY <1>1, <1>12, MakeModuleNodePlaces DEF OperatorInv
<1>13. CASE HandOn
  BY <1>1, <1>13, HandOnPlaces DEF OperatorInv
<1>14. CASE FixEnd
  BY <1>1, <1>14, FixEndPlaces, OnlyCallsMove DEF FixEnd, Output
<1>15. CASE FixStart
  BY <1>1, <1>15, FixStartPlaces, OnlyCallsMove DEF FixStart, Output
<1>16. CASE Rename
  BY <1>1, <1>16, RenamePlaces, OnlyCallsMove DEF Rename, Output
<1>17. CASE Reassign
  BY <1>1, <1>17, ReassignPlaces, OnlyCallsMove DEF Reassign, Output
<1>18. CASE StartSubmodules
  BY <1>1, <1>18, StartSubmodulesPlaces, OnlyCallsMove DEF StartSubmodules, Output
<1>19. CASE ReadLiteral
  BY <1>1, <1>19, ReadLiteralPlaces, OnlyCallsMove DEF ReadLiteral, Output
<1>. QED  BY <1>2, <1>3, <1>4, <1>5, <1>6, <1>7, <1>8, <1>9, <1>10, <1>11, <1>12, <1>13,
             <1>14, <1>15, <1>16, <1>17, <1>18, <1>19 DEF Next

LEMMA OperatorStart == Init => OperatorInv
<1>1. Init => OperatorsBind
  <2>1. DOMAIN <<>> = {}
    OBVIOUS
  <2>. QED  BY <2>1 DEF Init, OperatorsBind, NodeIds
<1>. QED  BY <1>1, PlacesStart DEF OperatorInv

LEMMA OperatorStep == Ready /\ Forest /\ OperatorInv /\ [Next]_vars => OperatorInv'
<1>1. ASSUME Ready, Forest, OperatorInv, Next PROVE OperatorInv'
  BY <1>1, OperatorNext
<1>2. ASSUME Ready, Forest, OperatorInv, UNCHANGED vars PROVE OperatorInv'
  <2>1. tokens' = tokens /\ nodes' = nodes /\ index' = index /\ stack' = stack
    BY <1>2 DEF vars
  <2>. QED  BY <1>2, <2>1, PlacesStay, BindsStay DEF OperatorInv
<1>. QED  BY <1>1, <1>2

\* Whatever the file, operators bind in the tree as strongly as they should and to the
\* left: an operand that is not in parentheses has no weaker operator than the node it
\* belongs to, and a right operand a stronger one.
THEOREM OperatorsAreRight == Spec => []OperatorsBind
<1>1. OperatorInv => OperatorsBind
  BY DEF OperatorInv
<1>. QED  BY <1>1, AlwaysForest, OperatorStart, OperatorStep, PTL DEF Spec

===============================================================================
