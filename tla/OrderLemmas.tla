---------------------------- MODULE OrderLemmas -----------------------------
(***************************************************************************)
(* Lemmas on order that the proofs about several components cite: the      *)
(* least and the greatest number of a set (Min and Max of FiniteSetsExt),  *)
(* the operators on ordered trees of PriorityTrees, functions defined by   *)
(* recursion up to a number, and the lists of Lists.                       *)
(***************************************************************************)
EXTENDS Integers, FiniteSetsExt, PriorityTrees, SequenceTheorems, FiniteSetTheorems,
        WellFoundedInduction, TLAPS

\* The definitions choose a number only if there is a least one.
LEMMA LeastExists ==
    ASSUME NEW S \in SUBSET Nat, S # {}
    PROVE  \E x \in S : \A y \in S : x <= y
<1>1. PICK x \in S : \A y \in S : ~ (<<y, x>> \in OpToRel(<, Nat))
    BY NatLessThanWellFounded, WFMin, Zenon
<1>2. \A y \in S : ~ (y < x)
    BY <1>1 DEF OpToRel
<1>3. QED
    BY <1>2

\* Min is a number of the set, and no number of the set is less.
LEMMA MinOfNaturals ==
    ASSUME NEW S \in SUBSET Nat, S # {}
    PROVE  Min(S) \in S /\ \A y \in S : Min(S) <= y
    BY LeastExists DEF Min

\* Max is a number of the set, and no number of the set is greater.
LEMMA MaxOfNaturals ==
    ASSUME NEW n \in Nat, NEW S \in SUBSET (0 .. n), S # {}
    PROVE  Max(S) \in S /\ \A y \in S : y <= Max(S)
<1> DEFINE T == {n - x : x \in S}
<1>0. \A x \in S : x \in 0 .. n /\ n - x \in Nat
    OBVIOUS
<1>1. T \in SUBSET Nat /\ T # {}
    BY <1>0
<1>2. PICK m \in T : \A y \in T : m <= y
    BY <1>1, LeastExists, Zenon
<1>3. PICK x \in S : m = n - x
    BY <1>2
<1>4. \A y \in S : n - y \in T /\ n - x <= n - y
    BY <1>2, <1>3
<1>5. \A y \in S : x >= y
    BY <1>0, <1>4
<1>6. QED
    BY <1>5 DEF Max

-----------------------------------------------------------------------------
\* InsertAt, position by position.
LEMMA InsertAtPositions ==
    ASSUME NEW S, NEW s \in Seq(S), NEW i \in 1 .. (Len(s) + 1), NEW e \in S
    PROVE  /\ InsertAt(s, i, e) \in Seq(S)
           /\ Len(InsertAt(s, i, e)) = Len(s) + 1
           /\ \A j \in 1 .. (Len(s) + 1) : InsertAt(s, i, e)[j] =
                 IF j < i THEN s[j] ELSE IF j = i THEN e ELSE s[j - 1]
<1> DEFINE a == SubSeq(s, 1, i - 1)
           b == SubSeq(s, i, Len(s))
<1>1. a \in Seq(S) /\ Len(a) = i - 1 /\ \A j \in 1 .. (i - 1) : a[j] = s[j]
  OBVIOUS
<1>2. b \in Seq(S) /\ Len(b) = Len(s) - i + 1
        /\ \A j \in 1 .. (Len(s) - i + 1) : b[j] = s[i + j - 1]
  OBVIOUS
<1> HIDE DEF a, b
<1>3. <<e>> \in Seq(S) /\ Len(<<e>>) = 1 /\ <<e>>[1] = e
  OBVIOUS
<1>4. a \o <<e>> \in Seq(S) /\ Len(a \o <<e>>) = i
        /\ \A j \in 1 .. i : (a \o <<e>>)[j] = IF j < i THEN s[j] ELSE e
  BY <1>1, <1>3
<1>5. InsertAt(s, i, e) = (a \o <<e>>) \o b
  BY DEF InsertAt, a, b
<1>6. Len(s) \in Nat
  OBVIOUS
<1> DEFINE c == a \o <<e>>
<1> HIDE DEF c
<1>7. c \in Seq(S) /\ Len(c) = i /\ \A j \in 1 .. i : c[j] = IF j < i THEN s[j] ELSE e
  BY <1>4 DEF c
<1>8. c \o b \in Seq(S) /\ Len(c \o b) = Len(s) + 1
  BY <1>2, <1>6, <1>7
<1>9. ASSUME NEW j \in 1 .. (Len(s) + 1)
      PROVE  (c \o b)[j] = IF j < i THEN s[j] ELSE IF j = i THEN e ELSE s[j - 1]
  <2>1. CASE j <= i
    BY <1>2, <1>6, <1>7, <2>1
  <2>2. CASE j > i
    <3>1. (c \o b)[j] = b[j - i]
      BY <1>2, <1>6, <1>7, <2>2
    <3>2. j - i \in 1 .. (Len(s) - i + 1) /\ i + (j - i) - 1 = j - 1
      BY <1>6, <2>2
    <3>3. b[j - i] = s[j - 1]
      BY <1>2, <3>2
    <3>4. ~(j < i) /\ j # i
      BY <1>6, <2>2
    <3>5. QED BY <3>1, <3>3, <3>4, Zenon
  <2>3. j <= i \/ j > i
    BY <1>6
  <2>4. QED BY <2>1, <2>2, <2>3, Zenon
<1>10. QED
  BY <1>5, <1>8, <1>9 DEF c

\* RemoveAt, position by position.
LEMMA RemoveAtPositions ==
    ASSUME NEW S, NEW s \in Seq(S), NEW i \in 1 .. Len(s)
    PROVE  /\ RemoveAt(s, i) \in Seq(S)
           /\ Len(RemoveAt(s, i)) = Len(s) - 1
           /\ \A j \in 1 .. (Len(s) - 1) :
                 RemoveAt(s, i)[j] = IF j < i THEN s[j] ELSE s[j + 1]
<1> DEFINE a == SubSeq(s, 1, i - 1)
           b == SubSeq(s, i + 1, Len(s))
<1>1. a \in Seq(S) /\ Len(a) = i - 1 /\ \A j \in 1 .. (i - 1) : a[j] = s[j]
  OBVIOUS
<1>2. b \in Seq(S) /\ Len(b) = Len(s) - i
        /\ \A j \in 1 .. (Len(s) - i) : b[j] = s[i + j]
  OBVIOUS
<1> HIDE DEF a, b
<1>3. RemoveAt(s, i) = a \o b
  BY DEF RemoveAt, a, b
<1>4. Len(s) \in Nat
  OBVIOUS
<1>5. a \o b \in Seq(S) /\ Len(a \o b) = Len(s) - 1
  <2>1. a \o b \in Seq(S)
    BY <1>1, <1>2
  <2>2. Len(a \o b) = Len(a) + Len(b)
    BY ONLY <1>1, <1>2, ConcatProperties
  <2>3. QED BY <1>1, <1>2, <1>4, <2>1, <2>2
<1>6. ASSUME NEW j \in 1 .. (Len(s) - 1)
      PROVE  (a \o b)[j] = IF j < i THEN s[j] ELSE s[j + 1]
  <2>1. CASE j < i
    BY <1>1, <1>2, <1>4, <2>1
  <2>2. CASE j >= i
    <3>1. (a \o b)[j] = b[j - i + 1]
      BY <1>1, <1>2, <1>4, <2>2
    <3>2. j - i + 1 \in 1 .. (Len(s) - i) /\ i + (j - i + 1) = j + 1
      BY <1>4, <2>2
    <3>3. b[j - i + 1] = s[j + 1]
      BY <1>2, <3>2
    <3>4. ~(j < i)
      BY <1>4, <2>2
    <3>5. QED BY <3>1, <3>3, <3>4, Zenon
  <2>3. j < i \/ j >= i
    BY <1>4
  <2>4. QED BY <2>1, <2>2, <2>3, Zenon
<1>7. QED
  BY <1>3, <1>5, <1>6

\* Inserting a thread keeps the tree's threads, distinct and in priority order.
LEMMA TreeInsertKeeps ==
    ASSUME NEW S, NEW s \in Seq(S), NEW t \in S,
           NEW key, \A x \in S : key[x] \in Int, ~In(t, s),
           Distinct(s), Sorted(s, key), NEW r \in TreeInsert(s, t, key)
    PROVE  /\ r \in Seq(S) /\ Len(r) = Len(s) + 1
           /\ \A x : In(x, r) <=> x = t \/ In(x, s)
           /\ Distinct(r) /\ Sorted(r, key)
<1>1. PICK i \in 1 .. (Len(s) + 1) :
         IsInsertPosition(s, i, key[t], key) /\ r = InsertAt(s, i, t)
  BY DEF TreeInsert
<1>2. /\ r \in Seq(S) /\ Len(r) = Len(s) + 1
      /\ \A j \in 1 .. (Len(s) + 1) : r[j] =
            IF j < i THEN s[j] ELSE IF j = i THEN t ELSE s[j - 1]
  <2>1. /\ InsertAt(s, i, t) \in Seq(S) /\ Len(InsertAt(s, i, t)) = Len(s) + 1
        /\ \A j \in 1 .. (Len(s) + 1) : InsertAt(s, i, t)[j] =
              IF j < i THEN s[j] ELSE IF j = i THEN t ELSE s[j - 1]
    BY InsertAtPositions, SMTT(30)
  <2>2. QED BY <1>1, <2>1, Zenon
<1>3. Len(s) \in Nat
  OBVIOUS
<1>4. \A x : In(x, r) <=> x = t \/ In(x, s)
  <2> TAKE x
  <2>1. ASSUME NEW j \in 1 .. Len(r), r[j] = x PROVE x = t \/ In(x, s)
    <3>1. CASE j < i
      BY <1>2, <1>3, <2>1, <3>1 DEF In
    <3>2. CASE j = i
      BY <1>2, <1>3, <2>1, <3>2
    <3>3. CASE j > i
      <4>1. j - 1 \in 1 .. Len(s) /\ s[j - 1] = x
        BY <1>2, <1>3, <2>1, <3>3
      <4>2. QED BY <4>1 DEF In
    <3>4. QED BY <1>2, <1>3, <3>1, <3>2, <3>3
  <2>2. x = t => In(x, r)
    <3>1. i \in 1 .. Len(r) /\ r[i] = t
      <4>1. ~(i < i)
        BY <1>3
      <4>2. QED BY <1>2, <4>1, Zenon
    <3>2. QED BY <3>1, Zenon DEF In
  <2>3. ASSUME NEW j \in 1 .. Len(s), s[j] = x PROVE In(x, r)
    <3>1. CASE j < i
      BY <1>2, <1>3, <2>3, <3>1 DEF In
    <3>2. CASE j >= i
      <4>1. j + 1 \in 1 .. Len(r) /\ r[j + 1] = x
        BY <1>2, <1>3, <2>3, <3>2
      <4>2. QED BY <4>1 DEF In
    <3>3. QED BY <3>1, <3>2
  <2>4. QED BY <2>1, <2>2, <2>3 DEF In
<1> DEFINE old(j) == IF j < i THEN j ELSE j - 1
<1>old. /\ \A j \in 1 .. Len(r) : j # i => old(j) \in 1 .. Len(s) /\ r[j] = s[old(j)]
        /\ r[i] = t
        /\ \A j, l \in 1 .. Len(r) : j # i /\ l # i /\ j < l => old(j) < old(l)
        /\ \A j \in 1 .. Len(r) : j < i => old(j) \in 1 .. (i - 1)
        /\ \A j \in 1 .. Len(r) : j > i => old(j) \in i .. Len(s)
  BY <1>2, <1>3
<1> HIDE DEF old
<1>5. Distinct(r)
  <2> SUFFICES ASSUME NEW j \in 1 .. Len(r), NEW l \in 1 .. Len(r), r[j] = r[l], j < l
               PROVE  FALSE
    BY <1>2, <1>3 DEF Distinct
  <2>1. \A m \in 1 .. Len(s) : s[m] # t
    BY DEF In
  <2>2. CASE j = i \/ l = i
    BY <1>old, <2>1, <2>2
  <2>3. CASE j # i /\ l # i
    <3>1. old(j) < old(l) /\ s[old(j)] = s[old(l)]
          /\ old(j) \in 1 .. Len(s) /\ old(l) \in 1 .. Len(s)
      BY <1>old, <2>3
    <3>2. old(j) = old(l)
      BY <3>1 DEF Distinct
    <3>3. QED BY <3>1, <3>2
  <2>4. QED BY <2>2, <2>3
<1>6. Sorted(r, key)
  <2> SUFFICES ASSUME NEW j \in 1 .. Len(r), NEW l \in 1 .. Len(r), j < l
               PROVE  key[r[j]] <= key[r[l]]
    BY DEF Sorted
  <2>1. /\ \A m \in 1 .. (i - 1) : key[s[m]] <= key[t]
        /\ \A m \in i .. Len(s) : key[s[m]] > key[t]
    BY <1>1 DEF IsInsertPosition
  <2>2. \A x \in S : key[x] \in Int
    OBVIOUS
  <2>3. \A m \in 1 .. Len(s) : s[m] \in S
    OBVIOUS
  <2>4. CASE j = i
    <3>1. r[l] = s[old(l)] /\ old(l) \in i .. Len(s) /\ old(l) \in 1 .. Len(s)
      BY <1>2, <1>3, <1>old, <2>4
    <3>2. key[s[old(l)]] > key[t] /\ key[t] \in Int /\ key[s[old(l)]] \in Int
      BY <2>1, <2>2, <2>3, <3>1
    <3>3. QED BY <1>old, <2>4, <3>1, <3>2
  <2>5. CASE l = i
    <3>1. r[j] = s[old(j)] /\ old(j) \in 1 .. (i - 1)
      BY <1>2, <1>3, <1>old, <2>5
    <3>2. QED BY <1>old, <2>1, <2>5, <3>1
  <2>6. CASE j # i /\ l # i
    BY <1>old, <2>6 DEF Sorted
  <2>7. QED BY <2>4, <2>5, <2>6
<1>7. QED BY <1>2, <1>4, <1>5, <1>6

\* Erasing a thread keeps the others, distinct and in order.
LEMMA TreeEraseKeeps ==
    ASSUME NEW S, NEW s \in Seq(S), NEW t \in S, Distinct(s),
           NEW r \in TreeErase(s, t)
    PROVE  /\ r \in Seq(S) /\ Len(r) = Len(s) - 1
           /\ \A x : In(x, r) <=> x # t /\ In(x, s)
           /\ Distinct(r)
           /\ \A key : Sorted(s, key) => Sorted(r, key)
<1>1. PICK i \in 1 .. Len(s) : s[i] = t /\ r = RemoveAt(s, i)
  BY DEF TreeErase
<1>2. /\ r \in Seq(S) /\ Len(r) = Len(s) - 1
      /\ \A j \in 1 .. (Len(s) - 1) : r[j] = IF j < i THEN s[j] ELSE s[j + 1]
  BY <1>1, RemoveAtPositions
<1>3. Len(s) \in Nat
  OBVIOUS
<1>4. \A x : In(x, r) <=> x # t /\ In(x, s)
  <2> TAKE x
  <2>1. ASSUME NEW j \in 1 .. Len(r), r[j] = x PROVE x # t /\ In(x, s)
    <3>1. CASE j < i
      BY <1>1, <1>2, <1>3, <2>1, <3>1 DEF In, Distinct
    <3>2. CASE j >= i
      <4>1. j + 1 \in 1 .. Len(s) /\ s[j + 1] = x /\ j + 1 # i
        BY <1>2, <1>3, <2>1, <3>2
      <4>2. QED BY <1>1, <4>1 DEF In, Distinct
    <3>3. QED BY <3>1, <3>2
  <2>2. ASSUME NEW j \in 1 .. Len(s), s[j] = x, x # t PROVE In(x, r)
    <3>1. CASE j < i
      BY <1>1, <1>2, <1>3, <2>2, <3>1 DEF In
    <3>2. CASE j > i
      <4>1. j - 1 \in 1 .. Len(r) /\ r[j - 1] = x
        BY <1>2, <1>3, <2>2, <3>2
      <4>2. QED BY <4>1 DEF In
    <3>3. QED BY <1>1, <2>2, <3>1, <3>2
  <2>3. QED BY <2>1, <2>2 DEF In
<1>5. Distinct(r)
  BY <1>2, <1>3 DEF Distinct
<1>6. \A key : Sorted(s, key) => Sorted(r, key)
  BY <1>2, <1>3, SMTT(30) DEF Sorted
<1>7. QED BY <1>2, <1>4, <1>5, <1>6

\* The tree without its first thread.
LEMMA TreeTail ==
    ASSUME NEW S, NEW s \in Seq(S), s # <<>>, Distinct(s)
    PROVE  /\ Tail(s) \in Seq(S) /\ Len(Tail(s)) = Len(s) - 1
           /\ s[1] \in S /\ In(s[1], s)
           /\ \A x : In(x, Tail(s)) <=> x # s[1] /\ In(x, s)
           /\ Distinct(Tail(s))
           /\ \A key : Sorted(s, key) => Sorted(Tail(s), key)
<1>1. Len(s) \in Nat \ {0}
  OBVIOUS
<1>2. /\ Tail(s) \in Seq(S) /\ Len(Tail(s)) = Len(s) - 1
      /\ \A j \in 1 .. (Len(s) - 1) : Tail(s)[j] = s[j + 1]
  OBVIOUS
<1> DEFINE r == Tail(s)
<1> HIDE DEF r
<1>3. /\ r \in Seq(S) /\ Len(r) = Len(s) - 1
      /\ \A j \in 1 .. (Len(s) - 1) : r[j] = s[j + 1]
  BY <1>2 DEF r
<1>4. 1 \in 1 .. Len(s) /\ s[1] \in S /\ In(s[1], s)
  BY <1>1 DEF In
<1>5. \A x : In(x, r) <=> x # s[1] /\ In(x, s)
  <2> TAKE x
  <2>1. ASSUME NEW j \in 1 .. Len(r), r[j] = x PROVE x # s[1] /\ In(x, s)
    <3>1. j + 1 \in 1 .. Len(s) /\ s[j + 1] = x /\ j + 1 # 1
      BY <1>1, <1>3, <2>1
    <3>2. QED BY <1>4, <3>1 DEF In, Distinct
  <2>2. ASSUME NEW j \in 1 .. Len(s), s[j] = x, x # s[1] PROVE In(x, r)
    <3>1. j - 1 \in 1 .. Len(r) /\ r[j - 1] = x
      BY <1>1, <1>3, <2>2
    <3>2. QED BY <3>1 DEF In
  <2>3. QED BY <2>1, <2>2 DEF In
<1>6. Distinct(r)
  BY <1>1, <1>3 DEF Distinct
<1>7. \A key : Sorted(s, key) => Sorted(r, key)
  BY <1>1, <1>3 DEF Sorted
<1>8. QED BY <1>3, <1>4, <1>5, <1>6, <1>7 DEF r

\* A tree that is not empty has a first element.
LEMMA FrontExists ==
    ASSUME NEW S, NEW s \in Seq(S), s # <<>>
    PROVE  s[1] \in S /\ In(s[1], s) /\ Len(s) \in Nat \ {0} /\ 1 \in 1 .. Len(s)
<1>1. Len(s) \in Nat \ {0} /\ 1 \in 1 .. Len(s)
  OBVIOUS
<1>2. QED BY <1>1 DEF In

\* The first thread of a sorted tree is its most urgent one.
LEMMA FrontIsLeast ==
    ASSUME NEW S, NEW s \in Seq(S), NEW key, \A x \in S : key[x] \in Int,
           Sorted(s, key), NEW x, In(x, s)
    PROVE  key[s[1]] <= key[x]
<1>1. PICK i \in 1 .. Len(s) : s[i] = x
  BY DEF In
<1>2. Len(s) \in Nat /\ 1 \in 1 .. Len(s) /\ x \in S
  BY <1>1
<1>3. key[x] \in Int
  BY <1>2
<1>4. CASE i = 1
  BY <1>1, <1>3, <1>4
<1>5. CASE i # 1
  <2>1. 1 < i
    BY <1>2, <1>5
  <2>2. QED BY <1>1, <1>2, <2>1 DEF Sorted
<1>6. QED BY <1>4, <1>5

\* A tree stays sorted when the priorities of its threads do not change.
LEMMA SortedCongruence ==
    ASSUME NEW S, NEW s \in Seq(S), NEW p1, NEW p2, Sorted(s, p1),
           \A x : In(x, s) => p1[x] = p2[x]
    PROVE  Sorted(s, p2)
<1>1. \A i \in 1 .. Len(s) : p1[s[i]] = p2[s[i]]
  BY DEF In
<1>2. QED BY <1>1 DEF Sorted

\* The tree without its first n elements.
LEMMA TreeWithoutFront ==
    ASSUME NEW S, NEW s \in Seq(S), NEW n \in 0 .. Len(s), Distinct(s)
    PROVE  LET r == SubSeq(s, n + 1, Len(s))
           IN  /\ r \in Seq(S) /\ Len(r) = Len(s) - n
               /\ \A x : In(x, r) <=> In(x, s) /\ x \notin { s[i] : i \in 1 .. n }
               /\ Distinct(r)
               /\ \A key : Sorted(s, key) => Sorted(r, key)
<1> DEFINE r == SubSeq(s, n + 1, Len(s))
<1>1. Len(s) \in Nat /\ n \in Nat /\ n <= Len(s)
  OBVIOUS
<1>2. /\ r \in Seq(S) /\ Len(r) = Len(s) - n
      /\ \A j \in 1 .. (Len(s) - n) : r[j] = s[n + j]
  OBVIOUS
<1> HIDE DEF r
<1>3. \A j \in 1 .. Len(r) : n + j \in (n + 1) .. Len(s) /\ n + j \in 1 .. Len(s)
                             /\ r[j] = s[n + j]
  BY <1>1, <1>2
<1>4. \A x : In(x, r) <=> In(x, s) /\ x \notin { s[i] : i \in 1 .. n }
  <2> TAKE x
  <2>1. ASSUME NEW j \in 1 .. Len(r), r[j] = x
        PROVE  In(x, s) /\ x \notin { s[i] : i \in 1 .. n }
    <3>1. In(x, s)
      BY <1>3, <2>1 DEF In
    <3>2. ASSUME NEW i \in 1 .. n, s[i] = x PROVE FALSE
      <4>1. i \in 1 .. Len(s) /\ i < n + j
        BY <1>1, <1>3, <3>2
      <4>2. s[i] = s[n + j] /\ n + j \in 1 .. Len(s)
        BY <1>3, <2>1, <3>2
      <4>3. i = n + j
        BY <4>1, <4>2 DEF Distinct
      <4>4. QED BY <4>1, <4>3
    <3>3. QED BY <3>1, <3>2
  <2>2. ASSUME NEW i \in 1 .. Len(s), s[i] = x, x \notin { s[k] : k \in 1 .. n }
        PROVE  In(x, r)
    <3>1. ~(i <= n)
      BY <1>1, <2>2
    <3>2. i - n \in 1 .. Len(r) /\ r[i - n] = s[n + (i - n)] /\ n + (i - n) = i
      BY <1>1, <1>2, <3>1
    <3>3. QED BY <2>2, <3>2 DEF In
  <2>3. QED BY <2>1, <2>2 DEF In
<1>5. Distinct(r)
  BY <1>1, <1>3 DEF Distinct
<1>6. \A key : Sorted(s, key) => Sorted(r, key)
  BY <1>1, <1>3, SMTT(30) DEF Sorted
<1>7. QED BY <1>2, <1>4, <1>5, <1>6 DEF r

\* A tree has as many elements as its length says.
LEMMA ElementsCounted ==
    ASSUME NEW S, NEW s \in Seq(S), Distinct(s), NEW T, \A x : x \in T <=> In(x, s)
    PROVE  Cardinality(T) = Len(s)
<1>1. Len(s) \in Nat /\ s \in [1 .. Len(s) -> T]
  <2>1. Len(s) \in Nat /\ DOMAIN s = 1 .. Len(s) /\ s \in [1 .. Len(s) -> S]
    OBVIOUS
  <2>2. \A i \in 1 .. Len(s) : s[i] \in T
    BY DEF In
  <2>3. QED BY <2>1, <2>2
<1>2. s \in Bijection(1 .. Len(s), T)
  BY <1>1 DEF Bijection, Injection, Surjection, IsInjective, Distinct, In
<1>3. QED BY <1>1, <1>2, FS_CountingElements DEF ExistsBijection


-----------------------------------------------------------------------------
\* Induction up to a bound, for a set.
LEMMA InductionUpTo ==
    ASSUME NEW n \in Nat, NEW P, 0 \in P, \A i \in 0 .. (n - 1) : i \in P => i + 1 \in P
    PROVE  \A i \in 0 .. n : i \in P
<1> DEFINE bad == {i \in 0 .. n : i \notin P}
<1> SUFFICES ASSUME bad # {} PROVE FALSE
    OBVIOUS
<1>1. bad \in SUBSET Nat
    OBVIOUS
<1>2. PICK i \in bad : \A j \in bad : i <= j
    BY <1>1, LeastExists, Zenon
<1>3. i \in 1 .. n /\ i \notin P
    BY <1>2
<1>4. i - 1 \in 0 .. (n - 1) /\ i - 1 \notin bad
    BY <1>2, <1>3
<1>5. i - 1 \in P
    BY <1>4
<1>6. (i - 1) + 1 \in P
    BY <1>4, <1>5
<1>7. QED
    BY <1>3, <1>6

\* f starts with a and goes on with step, up to n.
Computes(f, n, a, step) == f[0] = a /\ \A i \in 1 .. n : f[i] = step[i][f[i - 1]]

\* A function defined by recursion on 0 .. n exists.
LEMMA RecursionUpTo ==
    ASSUME NEW n \in Nat, NEW V, NEW a \in V, NEW step \in [1 .. n -> [V -> V]]
    PROVE  \E f \in [0 .. n -> V] : Computes(f, n, a, step)
<1> DEFINE P == {m \in 0 .. n : \E f \in [0 .. n -> V] : Computes(f, m, a, step)}
<1>1. 0 \in P
  <2>1. [i \in 0 .. n |-> a] \in [0 .. n -> V] /\ Computes([i \in 0 .. n |-> a], 0, a, step)
    BY DEF Computes
  <2>2. \E f \in [0 .. n -> V] : Computes(f, 0, a, step)
    BY <2>1
  <2>3. QED BY <2>2
<1>2. ASSUME NEW m \in 0 .. (n - 1), m \in P PROVE m + 1 \in P
  <2>1. PICK f \in [0 .. n -> V] : Computes(f, m, a, step)
    BY <1>2
  <2> DEFINE e == step[m + 1][f[m]]
             g == [f EXCEPT ![m + 1] = e]
  <2>2. m + 1 \in 1 .. n /\ m \in 0 .. n /\ f[m] \in V
    BY <2>1
  <2>3. e \in V
    BY <2>2
  <2>4. g \in [0 .. n -> V] /\ g[m + 1] = e /\ \A i \in 0 .. m : g[i] = f[i]
    BY <2>1, <2>2, <2>3
  <2>5. g[0] = a
    BY <2>1, <2>4 DEF Computes
  <2> HIDE DEF g
  <2>6. ASSUME NEW i \in 1 .. (m + 1) PROVE g[i] = step[i][g[i - 1]]
    <3>1. CASE i = m + 1
      <4>1. i - 1 = m /\ g[m] = f[m]
        BY <2>4, <3>1
      <4>2. QED BY <2>4, <3>1, <4>1
    <3>2. CASE i \in 1 .. m
      BY <2>1, <2>4, <3>2 DEF Computes
    <3>3. QED BY <3>1, <3>2
  <2>7. Computes(g, m + 1, a, step)
    BY <2>5, <2>6 DEF Computes
  <2>8. \E h \in [0 .. n -> V] : Computes(h, m + 1, a, step)
    BY <2>4, <2>7
  <2>9. QED BY <2>2, <2>8
<1>3. n \in P
  <2> HIDE DEF P
  <2>1. \A i \in 0 .. n : i \in P
    BY <1>1, <1>2, InductionUpTo
  <2>2. QED BY <2>1
<1>4. QED BY <1>3

\* r has the elements of s that are in K, in their order: order says where each
\* was.
InOrder(r, s, K) ==
    \E order \in [1 .. Len(r) -> 1 .. Len(s)] :
        /\ \A j \in 1 .. Len(r) : r[j] = s[order[j]] /\ s[order[j]] \in K
        /\ \A j, k \in 1 .. Len(r) : j < k => order[j] < order[k]
        /\ \A i \in 1 .. Len(s) : s[i] \in K => \E j \in 1 .. Len(r) : order[j] = i

\* Keep keeps the elements of K, in their order.
LEMMA KeepOrder ==
    ASSUME NEW S, NEW s \in Seq(S), NEW K
    PROVE  Keep(s, K) \in Seq(S) /\ InOrder(Keep(s, K), s, K)
<1> DEFINE n == Len(s)
           V == Seq(S)
           step == [i \in 1 .. n |->
                      [v \in V |-> IF s[i] \in K THEN Append(v, s[i]) ELSE v]]
           kept == CHOOSE f : f = [i \in 0 .. n |->
                      IF i = 0 THEN <<>>
                      ELSE IF s[i] \in K THEN Append(f[i - 1], s[i]) ELSE f[i - 1]]
<1>1. n \in Nat /\ \A i \in 1 .. n : s[i] \in S
    OBVIOUS
<1>2. step \in [1 .. n -> [V -> V]]
    BY <1>1
<1>3. \E f \in [0 .. n -> V] : Computes(f, n, <<>>, step)
  <2> HIDE DEF step, n
  <2>1. <<>> \in V
    OBVIOUS
  <2>2. n \in Nat
    BY <1>1
  <2> HIDE DEF V, kept
  <2>3. QED BY <1>2, <2>1, <2>2, RecursionUpTo
<1>4. PICK f \in [0 .. n -> V] : f[0] = <<>> /\ \A i \in 1 .. n : f[i] = step[i][f[i - 1]]
    BY <1>3 DEF Computes
<1>5. ASSUME NEW i \in 1 .. n
      PROVE  f[i] = IF s[i] \in K THEN Append(f[i - 1], s[i]) ELSE f[i - 1]
  <2>1. f[i - 1] \in V
    BY <1>1
  <2>2. step[i][f[i - 1]] = IF s[i] \in K THEN Append(f[i - 1], s[i]) ELSE f[i - 1]
    BY <2>1
  <2>3. QED BY <1>4, <2>2
<1> HIDE DEF n, V, step
<1>6. f = [i \in 0 .. n |->
             IF i = 0 THEN <<>>
             ELSE IF s[i] \in K THEN Append(f[i - 1], s[i]) ELSE f[i - 1]]
  <2>1. \A i \in 0 .. n : i # 0 => i \in 1 .. n
    BY <1>1
  <2>2. QED BY <1>4, <1>5, <2>1
<1>7. kept = [i \in 0 .. n |->
             IF i = 0 THEN <<>>
             ELSE IF s[i] \in K THEN Append(kept[i - 1], s[i]) ELSE kept[i - 1]]
    BY <1>6
<1>8. Keep(s, K) = kept[n]
    BY DEF Keep, n
<1> HIDE DEF kept
<1>9. kept[0] = <<>>
    BY <1>1, <1>7
<1>10. ASSUME NEW i \in 1 .. n PROVE kept[i] = IF s[i] \in K THEN Append(kept[i - 1], s[i]) ELSE kept[i - 1]
  <2>1. i \in 0 .. n /\ i # 0
    BY <1>1
  <2>2. QED BY <1>7, <2>1
<1> DEFINE Ordered(r, m, order) ==
              /\ \A j \in 1 .. Len(r) : order[j] \in 1 .. m /\ r[j] = s[order[j]] /\ s[order[j]] \in K
              /\ \A j, k \in 1 .. Len(r) : j < k => order[j] < order[k]
              /\ \A i \in 1 .. m : s[i] \in K => \E j \in 1 .. Len(r) : order[j] = i
           P == {m \in 0 .. n : /\ kept[m] \in Seq(S)
                                /\ \E order \in [1 .. Len(kept[m]) -> 1 .. n] :
                                       Ordered(kept[m], m, order)}
<1>11. 0 \in P
  <2>1. kept[0] \in Seq(S) /\ Len(kept[0]) = 0
    BY <1>9
  <2>2. [j \in 1 .. 0 |-> 1] \in [1 .. Len(kept[0]) -> 1 .. n]
    BY <2>1
  <2>3. Ordered(kept[0], 0, [j \in 1 .. 0 |-> 1])
    BY <2>1
  <2>4. \E order \in [1 .. Len(kept[0]) -> 1 .. n] : Ordered(kept[0], 0, order)
    <3> HIDE DEF Ordered
    <3>1. QED BY <2>2, <2>3
  <2>5. QED BY <1>1, <2>1, <2>4
<1>12. ASSUME NEW m \in 0 .. (n - 1), m \in P PROVE m + 1 \in P
  <2>1. PICK order \in [1 .. Len(kept[m]) -> 1 .. n] : Ordered(kept[m], m, order)
    BY <1>12
  <2>2. m + 1 \in 1 .. n /\ kept[m] \in Seq(S) /\ s[m + 1] \in S
    BY <1>1, <1>12
  <2>3. kept[m + 1] = IF s[m + 1] \in K THEN Append(kept[m], s[m + 1]) ELSE kept[m]
    BY <1>10, <2>2
  <2>4. CASE s[m + 1] \notin K
    <3>1. kept[m + 1] = kept[m]
      BY <2>3, <2>4
    <3>2. Ordered(kept[m], m + 1, order)
      BY <2>1, <2>2, <2>4
    <3>3. \E o \in [1 .. Len(kept[m + 1]) -> 1 .. n] : Ordered(kept[m + 1], m + 1, o)
      <4> HIDE DEF Ordered
      <4>1. QED BY <3>1, <3>2
    <3>4. m + 1 \in 0 .. n /\ kept[m + 1] \in Seq(S)
      BY <1>1, <2>2, <3>1
    <3>5. QED BY <3>3, <3>4
  <2>5. CASE s[m + 1] \in K
    <3> DEFINE r == kept[m]
               q == kept[m + 1]
               longer == [j \in 1 .. Len(q) |-> IF j = Len(q) THEN m + 1 ELSE order[j]]
    <3>1. q = Append(r, s[m + 1])
      BY <2>3, <2>5
    <3>2. /\ q \in Seq(S) /\ Len(q) = Len(r) + 1 /\ q[Len(q)] = s[m + 1]
          /\ \A j \in 1 .. Len(r) : q[j] = r[j]
      BY <2>2, <3>1
    <3> HIDE DEF q, r
    <3>3. Len(r) \in Nat
      BY <2>2 DEF r
    <3>4. Ordered(r, m, order) /\ order \in [1 .. Len(r) -> 1 .. n]
      BY <2>1 DEF r
    <3>5. longer \in [1 .. Len(q) -> 1 .. n]
      BY <2>2, <3>2, <3>3, <3>4
    <3>6. longer[Len(q)] = m + 1 /\ \A j \in 1 .. Len(r) : longer[j] = order[j]
      BY <3>2, <3>3
    <3> HIDE DEF longer
    <3>7. \A j \in 1 .. Len(q) :
             longer[j] \in 1 .. (m + 1) /\ q[j] = s[longer[j]] /\ s[longer[j]] \in K
      BY <2>2, <2>5, <3>2, <3>3, <3>4, <3>6
    <3>8. \A j, k \in 1 .. Len(q) : j < k => longer[j] < longer[k]
      <4>1. SUFFICES ASSUME NEW j \in 1 .. Len(q), NEW k \in 1 .. Len(q), j < k
                     PROVE  longer[j] < longer[k]
        OBVIOUS
      <4>2. j \in 1 .. Len(r) /\ longer[j] = order[j] /\ order[j] \in 1 .. m
        BY <3>2, <3>3, <3>4, <3>6, <4>1
      <4>3. CASE k = Len(q)
        BY <1>12, <3>6, <4>2, <4>3
      <4>4. CASE k # Len(q)
        <5>1. k \in 1 .. Len(r)
          BY <3>2, <3>3, <4>4
        <5>2. longer[k] = order[k] /\ order[j] < order[k]
          BY <3>4, <3>6, <4>1, <4>2, <5>1
        <5>3. QED BY <4>2, <5>2
      <4>5. QED BY <4>3, <4>4
    <3>9. \A i \in 1 .. (m + 1) : s[i] \in K => \E j \in 1 .. Len(q) : longer[j] = i
      <4>1. SUFFICES ASSUME NEW i \in 1 .. (m + 1), s[i] \in K
                     PROVE  \E j \in 1 .. Len(q) : longer[j] = i
        OBVIOUS
      <4>2. CASE i = m + 1
        BY <3>2, <3>3, <3>6, <4>2
      <4>3. CASE i \in 1 .. m
        <5>1. PICK j \in 1 .. Len(r) : order[j] = i
          BY <3>4, <4>1, <4>3
        <5>2. QED BY <3>2, <3>3, <3>6, <5>1
      <4>4. QED BY <4>2, <4>3
    <3>10. Ordered(q, m + 1, longer)
      BY <3>7, <3>8, <3>9
    <3>11. \E o \in [1 .. Len(q) -> 1 .. n] : Ordered(q, m + 1, o)
      <4> HIDE DEF Ordered
      <4>1. QED BY <3>5, <3>10
    <3>12. m + 1 \in 0 .. n /\ q \in Seq(S)
      BY <1>1, <2>2, <3>2
    <3>13. QED BY <3>11, <3>12 DEF q
  <2>6. QED BY <2>4, <2>5
<1>13. n \in P
  <2> HIDE DEF P
  <2>1. n \in Nat /\ \A i \in 0 .. (n - 1) : i \in P => i + 1 \in P
    BY <1>1, <1>12
  <2>2. \A i \in 0 .. n : i \in P
    BY <1>11, <2>1, InductionUpTo
  <2>3. QED BY <2>1, <2>2
<1>14. PICK order \in [1 .. Len(kept[n]) -> 1 .. n] : Ordered(kept[n], n, order)
    BY <1>13
<1>15. InOrder(kept[n], s, K)
  <2> DEFINE r == kept[n]
  <2>1. order \in [1 .. Len(r) -> 1 .. Len(s)]
    BY <1>14 DEF n
  <2>2. /\ \A j \in 1 .. Len(r) : r[j] = s[order[j]] /\ s[order[j]] \in K
        /\ \A j, k \in 1 .. Len(r) : j < k => order[j] < order[k]
        /\ \A i \in 1 .. Len(s) : s[i] \in K => \E j \in 1 .. Len(r) : order[j] = i
    BY <1>14 DEF n
  <2> HIDE DEF r
  <2>3. InOrder(r, s, K)
    BY <2>1, <2>2 DEF InOrder
  <2>4. QED BY <2>3 DEF r
<1>16. QED BY <1>8, <1>13, <1>15

\* What follows of it for the elements.
LEMMA KeepElements ==
    ASSUME NEW S, NEW s \in Seq(S), NEW K
    PROVE  /\ Keep(s, K) \in Seq(S)
           /\ \A x : In(x, Keep(s, K)) <=> In(x, s) /\ x \in K
           /\ Distinct(s) => Distinct(Keep(s, K))
           /\ \A i \in 1 .. Len(s) :
                 s[i] \in K /\ (\A j \in 1 .. (i - 1) : s[j] \notin K)
                    => Keep(s, K) # <<>> /\ Keep(s, K)[1] = s[i]
           /\ (\A i \in 1 .. Len(s) : s[i] \notin K) => Keep(s, K) = <<>>
<1> DEFINE r == Keep(s, K)
<1>1. r \in Seq(S) /\ InOrder(r, s, K)
    BY KeepOrder
<1> HIDE DEF r
<1>2. PICK order \in [1 .. Len(r) -> 1 .. Len(s)] :
         /\ \A j \in 1 .. Len(r) : r[j] = s[order[j]] /\ s[order[j]] \in K
         /\ \A j, k \in 1 .. Len(r) : j < k => order[j] < order[k]
         /\ \A i \in 1 .. Len(s) : s[i] \in K => \E j \in 1 .. Len(r) : order[j] = i
    BY <1>1 DEF InOrder
<1>3. Len(r) \in Nat /\ Len(s) \in Nat
    BY <1>1
<1>4. ASSUME NEW x PROVE In(x, r) <=> In(x, s) /\ x \in K
    BY <1>2 DEF In
<1>5. Distinct(s) => Distinct(r)
  <2>1. \A j, k \in 1 .. Len(r) : order[j] = order[k] => j = k
    BY <1>2, <1>3
  <2>2. QED BY <1>2, <2>1 DEF Distinct
<1>6. ASSUME NEW i \in 1 .. Len(s), s[i] \in K, \A j \in 1 .. (i - 1) : s[j] \notin K
      PROVE  r # <<>> /\ r[1] = s[i]
  <2>1. PICK j \in 1 .. Len(r) : order[j] = i
    BY <1>2, <1>6
  <2>2. 1 \in 1 .. Len(r) /\ r # <<>>
    BY <1>1, <1>3, <2>1
  <2>3. order[1] \in 1 .. Len(s) /\ s[order[1]] \in K /\ order[1] >= i
    BY <1>2, <1>3, <1>6, <2>2
  <2>4. j = 1
    BY <1>2, <1>3, <2>1, <2>2, <2>3
  <2>5. QED BY <1>2, <2>1, <2>2, <2>4
<1>7. ASSUME \A i \in 1 .. Len(s) : s[i] \notin K PROVE r = <<>>
    BY <1>1, <1>2, <1>3, <1>7
<1>8. QED
    BY <1>1, <1>4, <1>5, <1>6, <1>7 DEF r
=============================================================================
