------------------------ MODULE CatalogOracles_proofs ------------------------
(***************************************************************************)
(* Proofs about what customers are shown, and when.                        *)
(*                                                                         *)
(* Catalog: whatever overtakes whatever, a provider customers can see is   *)
(* vetted, and the status leaves the vetting flow only by a submission or  *)
(* decision made on an older status - for any number of calls, bookings    *)
(* and ratings, and a packet of any size.  And the rating shown is that of *)
(* the reviews on file.                                                    *)
(*                                                                         *)
(* Discovery: the slots computed are the free grid of the open hours, the  *)
(* cards are those found and in the order of merit - for any schedule,     *)
(* query, buffer and occupied times, and any number of providers.  Both are*)
(* built with loops and sorts; the first section is the theory of such     *)
(* lists, by induction on their length, which is stated with a set where   *)
(* the library's induction takes a predicate.                              *)
(*                                                                         *)
(* The booking machine: that it is the table of the design (DesignTable),  *)
(* and that time takes back nothing it has answered but for the price of a *)
(* cancellation - for any hours.                                           *)
(***************************************************************************)
EXTENDS Catalog, Oracles, SetSums, SequenceTheorems, FiniteSetTheorems, FunctionTheorems, TLAPS

---------------------------------------------------------------------------
(* Lists: what the operators of Discovery are built from.                   *)

\* Counting up to n, stated with a set instead of a predicate.
LEMMA CountingInduction ==
  ASSUME NEW n \in Nat, NEW G, 0 \in G, \A k \in 0..(n - 1) : k \in G => k + 1 \in G
  PROVE  \A k \in 0..n : k \in G
<1> DEFINE H == {T \in SUBSET (0..n) : \A k \in 0..n : T = 0..k => k \in G}
<1>1. IsFiniteSet(0..n)
  BY FS_Interval
<1>2. ASSUME NEW T \in SUBSET (0..n), \A U \in SUBSET T : U # T => U \in H
      PROVE  T \in H
  <2> SUFFICES ASSUME NEW k \in 0..n, T = 0..k
               PROVE  k \in G
    OBVIOUS
  <2>1. CASE k = 0
    BY <2>1
  <2>2. CASE k # 0
    <3>1. PICK j \in 0..(n - 1) : k = j + 1
      BY <2>2
    <3>2. 0..j \in SUBSET T /\ 0..j # T
      BY <3>1
    <3>3. j \in G
      <4>1. PICK U : U = 0..j
        OBVIOUS
      <4>2. U \in H
        BY <4>1, <3>2, <1>2
      <4> QED
        BY <4>1, <4>2
    <3> QED
      BY <3>1, <3>3
  <2> QED
    BY <2>1, <2>2
<1> HIDE DEF H
<1>3. \A T \in SUBSET (0..n) : T \in H
  BY <1>1, <1>2, SubsetInduction
<1> QED
  <2> SUFFICES ASSUME NEW k \in 0..n
               PROVE  k \in G
    OBVIOUS
  <2>1. 0..k \in H
    BY <1>3
  <2> QED
    BY <2>1 DEF H

\* The lists joined so far.
IsJoin(f, s, n) == f = [i \in 1..n |-> IF i = 1 THEN s[i] ELSE f[i - 1] \o s[i]]

\* The join at a place is the one before it and the list there.
LEMMA JoinAt ==
  ASSUME NEW f, NEW s, NEW n, IsJoin(f, s, n), NEW i \in 1..n
  PROVE  f[i] = IF i = 1 THEN s[i] ELSE f[i - 1] \o s[i]
BY Zenon DEF IsJoin

\* Any number of lists can be joined.
LEMMA JoinExists ==
  ASSUME NEW s, NEW n \in Nat
  PROVE  \E f : IsJoin(f, s, n)
<1> DEFINE G == {k \in 0..n : \E f : IsJoin(f, s, k)}
<1>1. 0 \in G
  <2> DEFINE e == [i \in 1..0 |-> s[i]]
  <2>1. IsJoin(e, s, 0)
    <3>1. 1..0 = {}
      OBVIOUS
    <3> QED
      BY <3>1, Zenon DEF IsJoin
  <2> QED
    BY <2>1
<1>2. ASSUME NEW k \in 0..(n - 1), k \in G
      PROVE  k + 1 \in G
  <2>1. PICK f : IsJoin(f, s, k)
    BY <1>2
  <2> DEFINE g == [i \in 1..(k + 1) |-> IF i <= k THEN f[i]
                                        ELSE IF i = 1 THEN s[i] ELSE f[i - 1] \o s[i]]
  <2>2. ASSUME NEW i \in 1..(k + 1)
        PROVE  g[i] = IF i = 1 THEN s[i] ELSE g[i - 1] \o s[i]
    <3>1. i <= k => f[i] = IF i = 1 THEN s[i] ELSE f[i - 1] \o s[i]
      <4>1. SUFFICES ASSUME i <= k
                     PROVE  f[i] = IF i = 1 THEN s[i] ELSE f[i - 1] \o s[i]
        OBVIOUS
      <4>2. i \in 1..k
        BY <4>1
      <4> QED
        BY <2>1, <4>2, JoinAt
    <3>2. i # 1 => g[i - 1] = f[i - 1]
      OBVIOUS
    <3> QED
      BY <3>1, <3>2
  <2>3. g = [i \in 1..(k + 1) |-> g[i]]
    OBVIOUS
  <2> HIDE DEF g
  <2>4. IsJoin(g, s, k + 1)
    BY <2>2, <2>3 DEF IsJoin
  <2> QED
    BY <2>4
<1> HIDE DEF G
<1>3. \A k \in 0..n : k \in G
  BY <1>1, <1>2, CountingInduction
<1> QED
  BY <1>3 DEF G

\* FlattenSeq joins one list after the other.
LEMMA FlattenJoins ==
  ASSUME NEW s, Len(s) \in Nat \ {0}
  PROVE  \E f : IsJoin(f, s, Len(s)) /\ FlattenSeq(s) = f[Len(s)]
<1>1. PICK f : f = CHOOSE g : IsJoin(g, s, Len(s))
  OBVIOUS
<1>2. IsJoin(f, s, Len(s))
  BY <1>1, JoinExists
<1>3. FlattenSeq(s) = f[Len(s)]
  BY <1>1 DEF FlattenSeq, IsJoin
<1> QED
  BY <1>2, <1>3

\* The elements of two lists joined.
LEMMA ConcatElements ==
  ASSUME NEW X, NEW a \in Seq(X), NEW b \in Seq(X)
  PROVE  a \o b \in Seq(X) /\ Range(a \o b) = Range(a) \cup Range(b)
<1>1. /\ Len(a) \in Nat /\ DOMAIN a = 1..Len(a)
      /\ Len(b) \in Nat /\ DOMAIN b = 1..Len(b)
      /\ a \o b \in Seq(X) /\ Len(a \o b) = Len(a) + Len(b)
  BY LenProperties, ConcatProperties
<1>2. DOMAIN (a \o b) = 1..(Len(a) + Len(b))
  BY <1>1, LenProperties
<1>3. \A i \in 1..(Len(a) + Len(b)) :
        (a \o b)[i] = IF i <= Len(a) THEN a[i] ELSE b[i - Len(a)]
  BY ConcatProperties
<1>4. ASSUME NEW i \in DOMAIN a
      PROVE  a[i] \in Range(a \o b)
  <2>1. i \in DOMAIN (a \o b) /\ (a \o b)[i] = a[i]
    BY <1>1, <1>2, <1>3
  <2> QED
    BY <2>1 DEF Range
<1>5. ASSUME NEW i \in DOMAIN b
      PROVE  b[i] \in Range(a \o b)
  <2>1. PICK j \in Int : j = i + Len(a)
    BY <1>1
  <2>2. j \in 1..(Len(a) + Len(b)) /\ ~(j <= Len(a)) /\ j - Len(a) = i
    BY <1>1, <2>1
  <2>3. (a \o b)[j] = b[i]
    BY <1>3, <2>2
  <2> QED
    BY <1>2, <2>2, <2>3 DEF Range
<1>6. ASSUME NEW i \in DOMAIN (a \o b)
      PROVE  (a \o b)[i] \in Range(a) \cup Range(b)
  <2>1. CASE i <= Len(a)
    <3>1. i \in DOMAIN a /\ (a \o b)[i] = a[i]
      BY <1>1, <1>2, <1>3, <2>1
    <3> QED
      BY <3>1 DEF Range
  <2>2. CASE ~(i <= Len(a))
    <3>1. i - Len(a) \in DOMAIN b /\ (a \o b)[i] = b[i - Len(a)]
      BY <1>1, <1>2, <1>3, <2>2
    <3> QED
      BY <3>1 DEF Range
  <2> QED
    BY <2>1, <2>2
<1>7. Range(a \o b) \subseteq Range(a) \cup Range(b)
  BY <1>6 DEF Range
<1>8. Range(a) \subseteq Range(a \o b) /\ Range(b) \subseteq Range(a \o b)
  <2>1. Range(a) \subseteq Range(a \o b)
    BY <1>4 DEF Range
  <2>2. Range(b) \subseteq Range(a \o b)
    BY <1>5 DEF Range
  <2> QED
    BY <2>1, <2>2
<1> QED
  BY <1>1, <1>7, <1>8

\* What is in the first k lists of s.
Elements(s, k) == UNION {Range(s[i]) : i \in 1..k}

\* A list joined from lists over X is one, and has their elements.
LEMMA FlattenElements ==
  ASSUME NEW X, NEW s \in Seq(Seq(X))
  PROVE  FlattenSeq(s) \in Seq(X) /\ Range(FlattenSeq(s)) = Elements(s, Len(s))
<1>0. Len(s) \in Nat /\ \A i \in 1..Len(s) : s[i] \in Seq(X)
  BY LenProperties, ElementOfSeq
<1>1. CASE Len(s) = 0
  <2>1. s = << >>
    BY <1>1, EmptySeq
  <2>2. FlattenSeq(s) = << >>
    BY <1>1, <2>1 DEF FlattenSeq
  <2>3. Elements(s, Len(s)) = {}
    BY <1>1 DEF Elements
  <2>4. Range(<< >>) = {}
    BY DEF Range
  <2> QED
    BY <2>2, <2>3, <2>4
<1>2. CASE Len(s) # 0
  <2>1. PICK f : IsJoin(f, s, Len(s)) /\ FlattenSeq(s) = f[Len(s)]
    BY <1>0, <1>2, FlattenJoins
  <2> DEFINE G == {k \in 0..Len(s) :
                     k # 0 => f[k] \in Seq(X) /\ Range(f[k]) = Elements(s, k)}
  <2>2. 0 \in G
    BY <1>0
  <2>3. ASSUME NEW k \in 0..(Len(s) - 1), k \in G
        PROVE  k + 1 \in G
    <3>1. k + 1 \in 1..Len(s) /\ s[k + 1] \in Seq(X)
      BY <1>0
    <3>2. f[k + 1] = IF k = 0 THEN s[k + 1] ELSE f[k] \o s[k + 1]
      <4>1. f[k + 1] = IF k + 1 = 1 THEN s[k + 1] ELSE f[k + 1 - 1] \o s[k + 1]
        BY <2>1, <3>1, JoinAt
      <4>2. k + 1 - 1 = k /\ (k + 1 = 1 <=> k = 0)
        OBVIOUS
      <4> QED
        BY <4>1, <4>2
    <3>3. Elements(s, k + 1) = Elements(s, k) \cup Range(s[k + 1])
      <4>1. 1..(k + 1) = (1..k) \cup {k + 1}
        OBVIOUS
      <4> QED
        BY <4>1, Zenon DEF Elements
    <3>4. CASE k = 0
      <4>1. Elements(s, 0) = {}
        BY DEF Elements
      <4>2. f[k + 1] \in Seq(X) /\ Range(f[k + 1]) = Elements(s, k + 1)
        BY <3>1, <3>2, <3>3, <3>4, <4>1
      <4> QED
        BY <3>1, <4>2
    <3>5. CASE k # 0
      <4>1. f[k] \in Seq(X) /\ Range(f[k]) = Elements(s, k)
        BY <2>3, <3>5
      <4>2. f[k + 1] \in Seq(X) /\ Range(f[k + 1]) = Elements(s, k + 1)
        <5>1. /\ f[k] \o s[k + 1] \in Seq(X)
              /\ Range(f[k] \o s[k + 1]) = Range(f[k]) \cup Range(s[k + 1])
          BY <3>1, <4>1, ConcatElements
        <5> QED
          BY <3>2, <3>3, <3>5, <4>1, <5>1
      <4> QED
        BY <3>1, <4>2
    <3> QED
      BY <3>4, <3>5
  <2> HIDE DEF G
  <2>4. \A k \in 0..Len(s) : k \in G
    BY <1>0, <2>2, <2>3, CountingInduction
  <2>5. Len(s) \in G
    BY <1>0, <2>4
  <2> QED
    BY <1>2, <2>1, <2>5 DEF G
<1> QED
  BY <1>1, <1>2

\* Of any two elements, the earlier stands to the later as R says.
Follows(s, R) == \A i, j \in DOMAIN s : i < j => <<s[i], s[j]>> \in R

\* Every element of one list stands to every element of another as R says.
Precedes(a, b, R) == \A x \in Range(a), y \in Range(b) : <<x, y>> \in R

\* What holds within two lists and from one to the other holds of the two joined.
LEMMA ConcatFollows ==
  ASSUME NEW X, NEW a \in Seq(X), NEW b \in Seq(X), NEW R,
         Follows(a, R), Follows(b, R), Precedes(a, b, R)
  PROVE  Follows(a \o b, R)
<1>1. /\ Len(a) \in Nat /\ DOMAIN a = 1..Len(a)
      /\ Len(b) \in Nat /\ DOMAIN b = 1..Len(b)
      /\ a \o b \in Seq(X) /\ Len(a \o b) = Len(a) + Len(b)
  BY LenProperties, ConcatProperties
<1>2. DOMAIN (a \o b) = 1..(Len(a) + Len(b))
  BY <1>1, LenProperties
<1>3. \A i \in 1..(Len(a) + Len(b)) :
        (a \o b)[i] = IF i <= Len(a) THEN a[i] ELSE b[i - Len(a)]
  BY ConcatProperties
<1> SUFFICES ASSUME NEW i \in 1..(Len(a) + Len(b)), NEW j \in 1..(Len(a) + Len(b)), i < j
             PROVE  <<(a \o b)[i], (a \o b)[j]>> \in R
  BY <1>2 DEF Follows
<1>4. CASE j <= Len(a)
  <2>1. /\ i \in DOMAIN a /\ j \in DOMAIN a
        /\ (a \o b)[i] = a[i] /\ (a \o b)[j] = a[j]
    BY <1>1, <1>3, <1>4
  <2> QED
    BY <2>1 DEF Follows
<1>5. CASE i <= Len(a) /\ ~(j <= Len(a))
  <2>1. /\ i \in DOMAIN a /\ j - Len(a) \in DOMAIN b
        /\ (a \o b)[i] = a[i] /\ (a \o b)[j] = b[j - Len(a)]
    BY <1>1, <1>3, <1>5
  <2>2. a[i] \in Range(a) /\ b[j - Len(a)] \in Range(b)
    BY <2>1 DEF Range
  <2> QED
    BY <2>1, <2>2 DEF Precedes
<1>6. CASE ~(i <= Len(a))
  <2>0. PICK k \in Int : k = i - Len(a)
    BY <1>1
  <2>1. PICK l \in Int : l = j - Len(a)
    BY <1>1
  <2>2. k \in DOMAIN b /\ l \in DOMAIN b /\ k < l /\ ~(j <= Len(a))
    BY <1>1, <1>6, <2>0, <2>1
  <2>3. (a \o b)[i] = b[k] /\ (a \o b)[j] = b[l]
    BY <1>3, <1>6, <2>0, <2>1, <2>2
  <2> QED
    BY <2>2, <2>3 DEF Follows
<1> QED
  BY <1>1, <1>4, <1>5, <1>6

\* What holds within the lists and from each to the later ones holds of the join.
LEMMA FlattenFollows ==
  ASSUME NEW X, NEW s \in Seq(Seq(X)), NEW R,
         \A i \in 1..Len(s) : Follows(s[i], R),
         \A i, j \in 1..Len(s) : i < j => Precedes(s[i], s[j], R)
  PROVE  Follows(FlattenSeq(s), R)
<1>0. Len(s) \in Nat /\ \A i \in 1..Len(s) : s[i] \in Seq(X)
  BY LenProperties, ElementOfSeq
<1>1. CASE Len(s) = 0
  <2>1. s = << >>
    BY <1>1, EmptySeq
  <2>2. FlattenSeq(s) = << >>
    BY <1>1, <2>1 DEF FlattenSeq
  <2> QED
    BY <2>2 DEF Follows
<1>2. CASE Len(s) # 0
  <2>1. PICK f : IsJoin(f, s, Len(s)) /\ FlattenSeq(s) = f[Len(s)]
    BY <1>0, <1>2, FlattenJoins
  <2> DEFINE G == {k \in 0..Len(s) :
                     k # 0 => /\ f[k] \in Seq(X)
                              /\ Range(f[k]) = Elements(s, k)
                              /\ Follows(f[k], R)}
  <2>2. 0 \in G
    BY <1>0
  <2>3. ASSUME NEW k \in 0..(Len(s) - 1), k \in G
        PROVE  k + 1 \in G
    <3>1. k + 1 \in 1..Len(s) /\ s[k + 1] \in Seq(X) /\ Follows(s[k + 1], R)
      BY <1>0
    <3>2. f[k + 1] = IF k = 0 THEN s[k + 1] ELSE f[k] \o s[k + 1]
      <4>1. f[k + 1] = IF k + 1 = 1 THEN s[k + 1] ELSE f[k + 1 - 1] \o s[k + 1]
        BY <2>1, <3>1, JoinAt
      <4>2. k + 1 - 1 = k /\ (k + 1 = 1 <=> k = 0)
        OBVIOUS
      <4> QED
        BY <4>1, <4>2
    <3>3. Elements(s, k + 1) = Elements(s, k) \cup Range(s[k + 1])
      <4>1. 1..(k + 1) = (1..k) \cup {k + 1}
        OBVIOUS
      <4> QED
        BY <4>1, Zenon DEF Elements
    <3>4. CASE k = 0
      <4>1. Elements(s, 0) = {}
        BY DEF Elements
      <4>2. /\ f[k + 1] \in Seq(X)
            /\ Range(f[k + 1]) = Elements(s, k + 1)
            /\ Follows(f[k + 1], R)
        BY <3>1, <3>2, <3>3, <3>4, <4>1
      <4> QED
        BY <3>1, <4>2
    <3>5. CASE k # 0
      <4>1. f[k] \in Seq(X) /\ Range(f[k]) = Elements(s, k) /\ Follows(f[k], R)
        BY <2>3, <3>5
      <4>2. Precedes(f[k], s[k + 1], R)
        <5> SUFFICES ASSUME NEW x \in Elements(s, k), NEW y \in Range(s[k + 1])
                     PROVE  <<x, y>> \in R
          BY <4>1 DEF Precedes
        <5>1. PICK i \in 1..k : x \in Range(s[i])
          BY DEF Elements
        <5>2. i \in 1..Len(s) /\ i < k + 1
          BY <3>1
        <5>3. Precedes(s[i], s[k + 1], R)
          BY <3>1, <5>2
        <5> QED
          BY <5>1, <5>3 DEF Precedes
      <4>3. /\ f[k] \o s[k + 1] \in Seq(X)
            /\ Range(f[k] \o s[k + 1]) = Range(f[k]) \cup Range(s[k + 1])
        BY <3>1, <4>1, ConcatElements
      <4>4. Follows(f[k] \o s[k + 1], R)
        BY <3>1, <4>1, <4>2, ConcatFollows
      <4>5. f[k + 1] = f[k] \o s[k + 1]
        BY <3>2, <3>5
      <4>6. /\ f[k + 1] \in Seq(X)
            /\ Range(f[k + 1]) = Elements(s, k + 1)
            /\ Follows(f[k + 1], R)
        BY <3>3, <4>1, <4>3, <4>4, <4>5
      <4> QED
        BY <3>1, <4>6
    <3> QED
      BY <3>4, <3>5
  <2> HIDE DEF G
  <2>4. \A k \in 0..Len(s) : k \in G
    BY <1>0, <2>2, <2>3, CountingInduction
  <2>5. Len(s) \in G
    BY <1>0, <2>4
  <2> QED
    BY <1>2, <2>1, <2>5 DEF G
<1> QED
  BY <1>1, <1>2

\* The list of those elements that are in T.
Only(s, T) == FlattenSeq([i \in DOMAIN s |-> IF s[i] \in T THEN <<s[i]>> ELSE << >>])

\* It has those elements and no others, in the order they were in.
LEMMA OnlyElements ==
  ASSUME NEW X, NEW s \in Seq(X), NEW T
  PROVE  Only(s, T) \in Seq(X) /\ Range(Only(s, T)) = Range(s) \cap T
<1> DEFINE p == [i \in DOMAIN s |-> IF s[i] \in T THEN <<s[i]>> ELSE << >>]
<1>0. Len(s) \in Nat /\ DOMAIN s = 1..Len(s) /\ \A i \in 1..Len(s) : s[i] \in X
  BY LenProperties, ElementOfSeq
<1>1. p \in Seq(Seq(X)) /\ Len(p) = Len(s)
  <2>1. p \in [1..Len(s) -> Seq(X)]
    BY <1>0
  <2> QED
    BY <1>0, <2>1, SeqDef
<1>2. \A i \in 1..Len(s) : p[i] = IF s[i] \in T THEN <<s[i]>> ELSE << >>
  BY <1>0
<1> HIDE DEF p
<1>3. FlattenSeq(p) \in Seq(X) /\ Range(FlattenSeq(p)) = Elements(p, Len(p))
  BY <1>1, FlattenElements
<1>4. \A i \in 1..Len(s) : Range(p[i]) = {s[i]} \cap T
  <2>1. \A x : Range(<<x>>) = {x}
    BY DEF Range
  <2>2. Range(<< >>) = {}
    BY DEF Range
  <2> QED
    BY <1>2, <2>1, <2>2
<1>5. Elements(p, Len(p)) = Range(s) \cap T
  <2>1. Elements(p, Len(p)) = UNION {Range(p[i]) : i \in 1..Len(s)}
    BY <1>1 DEF Elements
  <2>2. Range(s) = {s[i] : i \in 1..Len(s)}
    BY <1>0 DEF Range
  <2>3. ASSUME NEW x \in Elements(p, Len(p))
        PROVE  x \in Range(s) \cap T
    BY <1>4, <2>1, <2>2
  <2>4. ASSUME NEW x \in Range(s) \cap T
        PROVE  x \in Elements(p, Len(p))
    <3>1. PICK i \in 1..Len(s) : x = s[i]
      BY <2>2
    <3>2. x \in Range(p[i])
      BY <1>4, <3>1
    <3> QED
      BY <2>1, <3>2
  <2> QED
    BY <2>3, <2>4
<1>6. Only(s, T) = FlattenSeq(p)
  BY DEF Only, p
<1> QED
  BY <1>3, <1>5, <1>6

\* What holds of any two in a list holds of those kept.
LEMMA OnlyFollows ==
  ASSUME NEW X, NEW s \in Seq(X), NEW T, NEW R, Follows(s, R)
  PROVE  Follows(Only(s, T), R)
<1> DEFINE p == [i \in DOMAIN s |-> IF s[i] \in T THEN <<s[i]>> ELSE << >>]
<1>0. Len(s) \in Nat /\ DOMAIN s = 1..Len(s) /\ \A i \in 1..Len(s) : s[i] \in X
  BY LenProperties, ElementOfSeq
<1>1. p \in Seq(Seq(X)) /\ Len(p) = Len(s)
  <2>1. p \in [1..Len(s) -> Seq(X)]
    BY <1>0
  <2> QED
    BY <1>0, <2>1, SeqDef
<1>2. \A i \in 1..Len(s) : p[i] = <<s[i]>> \/ p[i] = << >>
  BY <1>0
<1> HIDE DEF p
<1>3. /\ \A x : Range(<<x>>) = {x} /\ Follows(<<x>>, R)
      /\ Range(<< >>) = {} /\ Follows(<< >>, R)
  <2>1. \A x : Range(<<x>>) = {x}
    BY DEF Range
  <2>2. \A x : Follows(<<x>>, R)
    BY DEF Follows
  <2>3. Range(<< >>) = {} /\ Follows(<< >>, R)
    BY DEF Range, Follows
  <2> QED
    BY <2>1, <2>2, <2>3
<1>4. \A i \in 1..Len(p) : Follows(p[i], R)
  BY <1>1, <1>2, <1>3
<1>5. \A i, j \in 1..Len(p) : i < j => Precedes(p[i], p[j], R)
  <2> SUFFICES ASSUME NEW i \in 1..Len(p), NEW j \in 1..Len(p), i < j,
                      NEW x \in Range(p[i]), NEW y \in Range(p[j])
               PROVE  <<x, y>> \in R
    BY DEF Precedes
  <2>1. x = s[i] /\ y = s[j] /\ i \in DOMAIN s /\ j \in DOMAIN s
    BY <1>0, <1>1, <1>2, <1>3
  <2> QED
    BY <2>1 DEF Follows
<1>6. Only(s, T) = FlattenSeq(p)
  BY DEF Only, p
<1> QED
  BY <1>1, <1>4, <1>5, <1>6, FlattenFollows

\* A list without repetition has as many places as elements.
LEMMA ListCounts ==
  ASSUME NEW X, NEW s \in Seq(X), \A i, j \in DOMAIN s : i < j => s[i] # s[j]
  PROVE  IsFiniteSet(Range(s)) /\ Len(s) = Cardinality(Range(s))
<1>1. Len(s) \in Nat /\ DOMAIN s = 1..Len(s) /\ s \in [1..Len(s) -> X]
  BY LenProperties
<1>2. s \in Surjection(1..Len(s), Range(s))
  BY <1>1, Fun_RangeProperties
<1>3. \A i, j \in 1..Len(s) : s[i] = s[j] => i = j
  <2> SUFFICES ASSUME NEW i \in 1..Len(s), NEW j \in 1..Len(s), i # j
               PROVE  s[i] # s[j]
    OBVIOUS
  <2>1. i < j \/ j < i
    BY <1>1
  <2> QED
    BY <1>1, <2>1
<1>4. s \in Injection(1..Len(s), Range(s))
  BY <1>2, <1>3, Fun_SurjectionProperties, Fun_IsInj
<1>5. IsFiniteSet(1..Len(s)) /\ Cardinality(1..Len(s)) = Len(s)
  BY <1>1, FS_Interval
<1> QED
  BY <1>1, <1>2, <1>4, <1>5, FS_Surjection

\* SetToSeqs lists every element once.
LEMMA ListsOfSet ==
  ASSUME NEW S, IsFiniteSet(S), NEW s \in SetToSeqs(S)
  PROVE  /\ s \in Seq(S)
         /\ Range(s) = S
         /\ \A i, j \in DOMAIN s : i # j => s[i] # s[j]
<1>1. Cardinality(S) \in Nat
  BY FS_CardinalityType
<1>2. /\ s \in [1..Cardinality(S) -> S]
      /\ \A i, j \in 1..Cardinality(S) : i # j => s[i] # s[j]
  BY DEF SetToSeqs
<1>3. s \in Seq(S) /\ DOMAIN s = 1..Cardinality(S)
  BY <1>1, <1>2, SeqDef
<1>4. s \in Injection(1..Cardinality(S), S)
  BY <1>2, Fun_IsInj
<1>5. Cardinality(1..Cardinality(S)) = Cardinality(S)
  BY <1>1, FS_Interval
<1>6. s \in Surjection(1..Cardinality(S), S)
  BY <1>4, <1>5, FS_Injection
<1> QED
  BY <1>2, <1>3, <1>6, Fun_SurjectionProperties

\* R orders the elements of S, some of them perhaps in no order.
Orders(R, S) ==
  /\ \A x \in S : <<x, x>> \notin R
  /\ \A x, y, z \in S : <<x, y>> \in R /\ <<y, z>> \in R => <<x, z>> \in R

\* In such an order some element comes before no other.
LEMMA LastExists ==
  ASSUME NEW S, IsFiniteSet(S), S # {}, NEW R, Orders(R, S)
  PROVE  \E m \in S : \A x \in S : <<m, x>> \notin R
<1> DEFINE G == {T \in SUBSET S : T # {} => \E m \in T : \A x \in T : <<m, x>> \notin R}
<1>1. ASSUME NEW T \in SUBSET S, \A U \in SUBSET T : U # T => U \in G
      PROVE  T \in G
  <2> SUFFICES ASSUME T # {}
               PROVE  \E m \in T : \A x \in T : <<m, x>> \notin R
    OBVIOUS
  <2>1. PICK c \in T : TRUE
    OBVIOUS
  <2>2. T \ {c} \in G
    BY <1>1, <2>1
  <2>3. CASE T \ {c} = {}
    <3>1. \A x \in T : <<c, x>> \notin R
      BY <2>1, <2>3 DEF Orders
    <3> QED
      BY <2>1, <3>1
  <2>4. CASE T \ {c} # {}
    <3>1. PICK m \in T \ {c} : \A x \in T \ {c} : <<m, x>> \notin R
      BY <2>2, <2>4
    <3>2. CASE <<m, c>> \notin R
      BY <3>1, <3>2
    <3>3. CASE <<m, c>> \in R
      <4>1. \A x \in T : <<c, x>> \notin R
        BY <2>1, <3>1, <3>3 DEF Orders
      <4> QED
        BY <2>1, <4>1
    <3> QED
      BY <3>2, <3>3
  <2> QED
    BY <2>3, <2>4
<1> HIDE DEF G
<1>2. \A T \in SUBSET S : T \in G
  BY <1>1, SubsetInduction
<1> QED
  BY <1>2 DEF G

\* None of s stands before one that must precede it.
InOrderOf(s, R) == \A i, j \in DOMAIN s : i < j => <<s[j], s[i]>> \notin R

\* Every finite set can be listed in its order.
LEMMA OrderExists ==
  ASSUME NEW S, IsFiniteSet(S), NEW R, Orders(R, S)
  PROVE  \E s \in SetToSeqs(S) : InOrderOf(s, R)
<1> DEFINE G == {T \in SUBSET S : \E s \in SetToSeqs(T) : InOrderOf(s, R)}
<1>1. ASSUME NEW T \in SUBSET S, \A U \in SUBSET T : U # T => U \in G
      PROVE  T \in G
  <2>0. IsFiniteSet(T)
    BY FS_Subset
  <2>1. CASE T = {}
    <3>1. Cardinality(T) = 0
      BY <2>1, FS_EmptySet
    <3> DEFINE e == [i \in 1..0 |-> 0]
    <3>2. e \in [1..0 -> T]
      OBVIOUS
    <3>3. e \in SetToSeqs(T)
      BY <3>1, <3>2 DEF SetToSeqs
    <3>4. InOrderOf(e, R)
      BY DEF InOrderOf
    <3> QED
      BY <3>3, <3>4
  <2>2. CASE T # {}
    <3>1. Orders(R, T)
      BY DEF Orders
    <3>2. PICK m \in T : \A x \in T : <<m, x>> \notin R
      BY <2>0, <2>2, <3>1, LastExists
    <3>3. PICK U : U = T \ {m}
      OBVIOUS
    <3>4. U \in G
      BY <1>1, <3>2, <3>3
    <3>5. PICK s \in SetToSeqs(U) : InOrderOf(s, R)
      BY <3>4
    <3>6. PICK n \in Nat : n = Cardinality(U) /\ Cardinality(T) = n + 1
      <4>1. /\ IsFiniteSet(U)
            /\ Cardinality(U) = Cardinality(T) - 1
        BY <2>0, <3>2, <3>3, FS_RemoveElement
      <4>2. Cardinality(U) \in Nat /\ Cardinality(T) \in Nat
        BY <2>0, <4>1, FS_CardinalityType
      <4> QED
        BY <4>1, <4>2
    <3>7. s \in [1..n -> U] /\ \A i, j \in 1..n : i # j => s[i] # s[j]
      BY <3>5, <3>6 DEF SetToSeqs
    <3> DEFINE g == [i \in 1..(n + 1) |-> IF i <= n THEN s[i] ELSE m]
    <3>8. /\ \A i \in 1..n : i \in 1..(n + 1) /\ g[i] = s[i] /\ s[i] \in U
          /\ g[n + 1] = m
          /\ \A i \in 1..(n + 1) : i \in 1..n \/ i = n + 1
      BY <3>7
    <3>9. g \in [1..(n + 1) -> T]
      <4>1. \A i \in 1..(n + 1) : (IF i <= n THEN s[i] ELSE m) \in T
        BY <3>2, <3>3, <3>7
      <4> QED
        BY <4>1
    <3> HIDE DEF g
    <3>10. \A i, j \in 1..(n + 1) : i # j => g[i] # g[j]
      BY <3>3, <3>7, <3>8
    <3>11. g \in SetToSeqs(T)
      BY <3>6, <3>9, <3>10 DEF SetToSeqs
    <3>12. InOrderOf(g, R)
      <4> SUFFICES ASSUME NEW i \in 1..(n + 1), NEW j \in 1..(n + 1), i < j
                   PROVE  <<g[j], g[i]>> \notin R
        BY <3>9 DEF InOrderOf
      <4>1. i \in 1..n
        OBVIOUS
      <4>2. CASE j \in 1..n
        BY <3>5, <3>7, <3>8, <4>1, <4>2 DEF InOrderOf
      <4>3. CASE j = n + 1
        BY <3>2, <3>3, <3>8, <4>1, <4>3
      <4> QED
        BY <3>8, <4>2, <4>3
    <3> QED
      BY <3>11, <3>12
  <2> QED
    BY <2>1, <2>2
<1> HIDE DEF G
<1>2. \A T \in SUBSET S : T \in G
  BY <1>1, SubsetInduction
<1> QED
  BY <1>2 DEF G

\* Turned round, a list has the same elements as often.
LEMMA ReverseElements ==
  ASSUME NEW X, NEW s \in Seq(X), \A i, j \in DOMAIN s : i # j => s[i] # s[j]
  PROVE  /\ Reverse(s) \in Seq(X)
         /\ Range(Reverse(s)) = Range(s)
         /\ \A i, j \in DOMAIN Reverse(s) : i # j => Reverse(s)[i] # Reverse(s)[j]
<1>1. Len(s) \in Nat /\ DOMAIN s = 1..Len(s) /\ \A i \in 1..Len(s) : s[i] \in X
  BY LenProperties, ElementOfSeq
<1>2. Reverse(s) = [i \in 1..Len(s) |-> s[(Len(s) - i) + 1]]
  BY DEF Reverse
<1>3. \A i \in 1..Len(s) : (Len(s) - i) + 1 \in 1..Len(s)
  BY <1>1
<1>4. Reverse(s) \in [1..Len(s) -> X]
  BY <1>1, <1>2, <1>3
<1>5. Reverse(s) \in Seq(X)
  BY <1>1, <1>4, SeqDef
<1>6. Range(Reverse(s)) = Range(s)
  <2>1. ASSUME NEW i \in 1..Len(s)
        PROVE  s[i] \in Range(Reverse(s))
    <3>1. PICK j \in 1..Len(s) : j = (Len(s) - i) + 1
      BY <1>3
    <3>2. (Len(s) - j) + 1 = i
      BY <1>1, <3>1
    <3>3. Reverse(s)[j] = s[i]
      BY <1>2, <3>2
    <3> QED
      BY <1>4, <3>3 DEF Range
  <2>2. ASSUME NEW i \in 1..Len(s)
        PROVE  Reverse(s)[i] \in Range(s)
    BY <1>1, <1>2, <1>3 DEF Range
  <2> QED
    BY <1>1, <1>4, <2>1, <2>2 DEF Range
<1>7. ASSUME NEW i \in 1..Len(s), NEW j \in 1..Len(s), i # j
      PROVE  Reverse(s)[i] # Reverse(s)[j]
  <2>1. PICK k \in 1..Len(s) : k = (Len(s) - i) + 1
    BY <1>3
  <2>2. PICK l \in 1..Len(s) : l = (Len(s) - j) + 1
    BY <1>3
  <2>3. k # l /\ Reverse(s)[i] = s[k] /\ Reverse(s)[j] = s[l]
    BY <1>1, <1>2, <1>7, <2>1, <2>2
  <2> QED
    BY <1>1, <2>3
<1> QED
  BY <1>4, <1>5, <1>6, <1>7

\* A list is empty when nothing is in it.
LEMMA EmptyList ==
  ASSUME NEW X, NEW s \in Seq(X)
  PROVE  s = << >> <=> Range(s) = {}
<1>1. Len(s) \in Nat /\ DOMAIN s = 1..Len(s)
  BY LenProperties
<1>2. s = << >> => Range(s) = {}
  BY DEF Range
<1>3. ASSUME s # << >>
      PROVE  Range(s) # {}
  <2>1. Len(s) # 0
    BY <1>3, EmptySeq
  <2>2. 1 \in DOMAIN s
    BY <1>1, <2>1
  <2> QED
    BY <2>2 DEF Range
<1> QED
  BY <1>2, <1>3

---------------------------------------------------------------------------
(* What is asked.                                                          *)

\* The exceptions there can be.
Blocks == [day : Int, kind : {"block"}]
Extras == [day : Int, kind : {"extra"}, start : Int, end : Int]

\* What a schedule question can become.
ScheduleStates ==
    [about : {"schedule"}, now : Nat, duration : Nat \ {0}, weekly : Patterns,
     exceptions : Seq(Blocks \cup Extras), occupied : SUBSET Occupancies,
     query : Queries]

\* Every question asked stays one of its kind.
QuestionsStay == question \in Questions \cup ScheduleStates \cup SearchQuestions

\* Each kind of question is asked about one thing.
LEMMA KindsOfQuestion ==
  ASSUME QuestionsStay
  PROVE  /\ AboutBooking => question \in Questions
         /\ AboutSchedule => question \in ScheduleStates
         /\ AboutSearch => question \in SearchQuestions
<1>1. \A q \in Questions : "about" \notin DOMAIN q
  BY DEF Questions
<1>2. \A q \in ScheduleStates : "state" \notin DOMAIN q /\ q.about = "schedule"
  BY DEF ScheduleStates
<1>3. \A q \in SearchQuestions : "state" \notin DOMAIN q /\ q.about = "search"
  BY DEF SearchQuestions
<1> QED
  BY <1>1, <1>2, <1>3 DEF QuestionsStay, AboutBooking, AboutSchedule, AboutSearch, About

\* What a change of a schedule leaves as it was.
LEMMA ScheduleSteps ==
  ASSUME question \in ScheduleStates, ScheduleChanges
  PROVE  question' \in ScheduleStates /\ question.now <= question'.now
<1>1. ASSUME TimePasses
      PROVE  question' \in ScheduleStates /\ question.now <= question'.now
  BY <1>1 DEF TimePasses, ScheduleStates
<1>3. ASSUME NEW rules \in Patterns, ReplaceRules(rules)
      PROVE  question' \in ScheduleStates /\ question.now <= question'.now
  BY <1>3 DEF ReplaceRules, ScheduleStates
<1>4. ASSUME NEW x \in Blocks \cup Extras,
             question' = [question EXCEPT !.exceptions = Append(@, x)]
      PROVE  question' \in ScheduleStates /\ question.now <= question'.now
  <2>1. PICK e \in Seq(Blocks \cup Extras) : e = Append(question.exceptions, x)
    BY AppendProperties DEF ScheduleStates
  <2>2. question' = [question EXCEPT !.exceptions = e]
    BY <1>4, <2>1
  <2> QED
    BY <2>2 DEF ScheduleStates
<1>6. ASSUME NEW day \in Int, NEW sent, AddBlock(day, sent)
      PROVE  question' \in ScheduleStates /\ question.now <= question'.now
  <2>1. [day |-> day, kind |-> "block"] \in Blocks \cup Extras
    BY DEF Blocks
  <2> QED
    BY <1>4, <1>6, <2>1 DEF AddBlock
<1>7. ASSUME NEW day \in Int, NEW window \in ExtraHours, AddExtra(day, window)
      PROVE  question' \in ScheduleStates /\ question.now <= question'.now
  <2>1. [day |-> day, kind |-> "extra", start |-> window.start, end |-> window.end]
          \in Blocks \cup Extras
    BY ExtrasAreWindows DEF Extras
  <2> QED
    BY <1>4, <1>7, <2>1 DEF AddExtra
<1>8. \A day \in 0..(LastTick \div DayLength) : day \in Int
  OBVIOUS
<1> QED
  BY <1>1, <1>3, <1>6, <1>7, <1>8 DEF ScheduleChanges

\* A question is of one kind from the first, and no step changes that.
LEMMA QuestionsStayThemselves ==
  /\ AskAnything => QuestionsStay
  /\ QuestionsStay /\ [OracleNext]_question => QuestionsStay'
<1>1. ASSUME AskAnything
      PROVE  QuestionsStay
  <2>1. ScheduleQuestions \subseteq ScheduleStates
    <3>1. << >> \in Seq(Blocks \cup Extras)
      OBVIOUS
    <3>2. Arguments \subseteq SUBSET Occupancies /\ 0 \in Nat /\ Durations \subseteq Nat \ {0}
      BY DurationsArePositive, ArgumentsAreOccupied
    <3> QED
      BY <3>1, <3>2, Zenon DEF ScheduleQuestions, ScheduleStates
  <2> QED
    BY <1>1, <2>1 DEF AskAnything, Ask, QuestionsStay
<1>2. ASSUME QuestionsStay, Advance
      PROVE  QuestionsStay'
  <2>1. question \in Questions
    BY <1>2, KindsOfQuestion DEF Advance
  <2>2. question.ctx \in Contexts /\ question.ctx.clock + 1 \in Clocks
    BY <1>2, <2>1 DEF Advance, Questions
  <2>3. [question.ctx EXCEPT !.clock = @ + 1] \in Contexts
    BY <2>2 DEF Contexts
  <2>4. question' \in Questions
    BY <1>2, <2>1, <2>3 DEF Advance, Questions
  <2> QED
    BY <2>4 DEF QuestionsStay
<1>3. ASSUME QuestionsStay, ScheduleChanges
      PROVE  QuestionsStay'
  <2>1. AboutSchedule
    BY <1>3 DEF ScheduleChanges, TimePasses, ReplaceRules, AddBlock, AddExtra
  <2> QED
    BY <1>3, <2>1, KindsOfQuestion, ScheduleSteps DEF QuestionsStay
<1>4. QuestionsStay /\ UNCHANGED question => QuestionsStay'
  BY DEF QuestionsStay
<1> QED
  BY <1>1, <1>2, <1>3, <1>4 DEF OracleNext

\* A behaviour stays with the kind of question it began with, and the schedule asked
\* about stays one there can be: known rules, blocks and extras, and the query and the
\* occupied times it was asked with.
THEOREM QuestionsKeepTheirKind == OracleSpec => []QuestionsStay
  BY QuestionsStayThemselves, PTL DEF OracleSpec

---------------------------------------------------------------------------
(* The machine and the design's table (DesignTable).                       *)

\* Any context with whole hours.
AnyContext ==
  [ clock : Int, slotStart : Int, actor : Actors, responseDeadline : Int,
    cancelFullRefundHours : Int, alreadyCaptured : BOOLEAN ]

Question == [state : BookingState, event : BookingEvent, ctx : AnyContext]

Half(ctx) == IF ctx.alreadyCaptured THEN "Refund50" ELSE "Capture50"

\* The rows of the table one below the other, each with its guard.
Listed(r, ctx) ==
  \/ r = Line("PENDING", "ProviderAccepts", "provider", "CONFIRMED",
              << >>, FALSE, {"customer", "provider"})
  \/ r = Line("PENDING", "ProviderDeclines", "provider", "DECLINED",
              <<"ReleaseAuth">>, TRUE, {"customer"})
  \/ r = Line("PENDING", "CustomerCancels", "customer", "CANCELLED_BY_CUSTOMER",
              <<"ReleaseAuth">>, TRUE, {"provider"})
  \/ r = Line("CONFIRMED", "ProviderCancels", "provider", "CANCELLED_BY_PROVIDER",
              <<FullReturn(ctx), "RecordStanding">>, TRUE, {"customer"})
  \/ r = Line("CONFIRMED", "AutoCompleteElapsed", "system", "COMPLETED",
              <<"Capture100", "Split">>, FALSE, {"customer", "provider"})
  \/ /\ ResponseDeadlinePassed(ctx)
     /\ r = Line("PENDING", "ResponseDeadlinePassed", "system", "EXPIRED",
                 <<"ReleaseAuth", "RecordStanding">>, TRUE, {"customer", "provider"})
  \/ /\ ctx.slotStart - ctx.clock > ctx.cancelFullRefundHours
     /\ r = Line("CONFIRMED", "CustomerCancels", "customer", "CANCELLED_BY_CUSTOMER",
                 <<FullReturn(ctx)>>, TRUE, {"provider"})
  \/ /\ LateCancel(ctx)
     /\ r = Line("CONFIRMED", "CustomerCancels", "customer", "CANCELLED_BY_CUSTOMER",
                 <<Half(ctx), "Split">>, TRUE, {"provider"})
  \/ /\ ctx.clock >= ctx.slotStart
     /\ r = Line("CONFIRMED", "ProviderCompletes", "provider", "COMPLETED",
                 <<"Capture100", "Split">>, FALSE, {"customer", "provider"})
  \/ /\ ctx.clock >= ctx.slotStart
     /\ r = Line("CONFIRMED", "ProviderReportsCustomerNoShow", "provider",
                 "NO_SHOW_CUSTOMER", <<"Capture100", "Split">>, FALSE, {"customer"})
  \/ /\ ctx.clock >= ctx.slotStart
     /\ r = Line("CONFIRMED", "CustomerReportsProviderNoShow", "customer",
                 "NO_SHOW_PROVIDER", <<FullReturn(ctx), "RecordStanding">>, FALSE, {"provider"})

\* The set the table is built as has just these rows.
LEMMA TableIsListed ==
  ASSUME NEW ctx, NEW r
  PROVE  r \in Rows(ctx) <=> Listed(r, ctx)
BY ZenonT(60)
   DEF Rows, Both, FullReturn, LateCancel, ResponseDeadlinePassed, Listed, Line, Half

\* What the machine answers to each event, field by field.
LEMMA Destinations ==
  /\ NextState("ProviderAccepts") = "CONFIRMED"
  /\ NextState("ProviderDeclines") = "DECLINED"
  /\ NextState("ResponseDeadlinePassed") = "EXPIRED"
  /\ NextState("CustomerCancels") = "CANCELLED_BY_CUSTOMER"
  /\ NextState("ProviderCancels") = "CANCELLED_BY_PROVIDER"
  /\ NextState("ProviderReportsCustomerNoShow") = "NO_SHOW_CUSTOMER"
  /\ NextState("CustomerReportsProviderNoShow") = "NO_SHOW_PROVIDER"
  /\ NextState("ProviderCompletes") = "COMPLETED"
  /\ NextState("AutoCompleteElapsed") = "COMPLETED"
BY DEF NextState

\* What the machine has executed, event by event.
LEMMA EffectLists ==
  ASSUME NEW s, NEW ctx
  PROVE  /\ RunEffects(s, "ProviderAccepts", ctx) = << >>
         /\ RunEffects(s, "ProviderDeclines", ctx) = <<"ReleaseAuth">>
         /\ RunEffects(s, "ResponseDeadlinePassed", ctx) = <<"ReleaseAuth", "RecordStanding">>
         /\ s = "PENDING" => RunEffects(s, "CustomerCancels", ctx) = <<"ReleaseAuth">>
         /\ s = "CONFIRMED" /\ ~LateCancel(ctx) =>
              RunEffects(s, "CustomerCancels", ctx) = <<FullReturn(ctx)>>
         /\ s = "CONFIRMED" /\ LateCancel(ctx) =>
              RunEffects(s, "CustomerCancels", ctx) = <<Half(ctx), "Split">>
         /\ \A e \in {"ProviderCancels", "CustomerReportsProviderNoShow"} :
              RunEffects(s, e, ctx) = <<FullReturn(ctx), "RecordStanding">>
         /\ \A e \in {"ProviderCompletes", "AutoCompleteElapsed",
                       "ProviderReportsCustomerNoShow"} :
              RunEffects(s, e, ctx) = <<"Capture100", "Split">>
<1>1. /\ RunEffects(s, "ProviderAccepts", ctx) = << >>
      /\ RunEffects(s, "ProviderDeclines", ctx) = <<"ReleaseAuth">>
      /\ RunEffects(s, "ResponseDeadlinePassed", ctx) = <<"ReleaseAuth", "RecordStanding">>
  BY DEF RunEffects
<1>2. RunEffects(s, "CustomerCancels", ctx) =
        IF s = "CONFIRMED" /\ LateCancel(ctx)
          THEN IF ctx.alreadyCaptured THEN <<"Refund50", "Split">> ELSE <<"Capture50", "Split">>
          ELSE IF s = "CONFIRMED" THEN <<FullReturn(ctx)>> ELSE <<"ReleaseAuth">>
  BY DEF RunEffects
<1>3. \A e \in {"ProviderCancels", "CustomerReportsProviderNoShow"} :
        RunEffects(s, e, ctx) = <<FullReturn(ctx), "RecordStanding">>
  BY DEF RunEffects
<1>4. \A e \in {"ProviderCompletes", "AutoCompleteElapsed", "ProviderReportsCustomerNoShow"} :
        RunEffects(s, e, ctx) = <<"Capture100", "Split">>
  BY DEF RunEffects
<1> QED
  BY <1>1, <1>2, <1>3, <1>4 DEF Half

\* Whom the machine has told.
LEMMA Addressees ==
  /\ \A e \in {"ProviderDeclines", "ProviderCancels", "ProviderReportsCustomerNoShow"} :
       Recipients(e) = {"customer"}
  /\ \A e \in {"CustomerCancels", "CustomerReportsProviderNoShow"} : Recipients(e) = {"provider"}
  /\ \A e \in {"ProviderAccepts", "ResponseDeadlinePassed", "ProviderCompletes",
                "AutoCompleteElapsed"} : Recipients(e) = {"customer", "provider"}
BY DEF Recipients, CustomerEvents

FreesTheSlot(e) ==
  e \in {"ProviderDeclines", "ResponseDeadlinePassed", "CustomerCancels", "ProviderCancels"}

\* Which events free the slot, one by one.
LEMMA SlotsFreed ==
  /\ \A e \in {"ProviderDeclines", "ResponseDeadlinePassed", "CustomerCancels",
                "ProviderCancels"} : FreesTheSlot(e) = TRUE
  /\ \A e \in {"ProviderAccepts", "ProviderCompletes", "AutoCompleteElapsed",
                "ProviderReportsCustomerNoShow", "CustomerReportsProviderNoShow"} :
       FreesTheSlot(e) = FALSE
BY DEF FreesTheSlot

\* Who may ask for an event, and when it is taken.
LEMMA Takers ==
  /\ \A e \in {"ResponseDeadlinePassed", "AutoCompleteElapsed"} : RequiredActor(e) = "system"
  /\ \A e \in {"CustomerCancels", "CustomerReportsProviderNoShow"} :
       RequiredActor(e) = "customer"
  /\ \A e \in {"ProviderAccepts", "ProviderDeclines", "ProviderCancels", "ProviderCompletes",
                "ProviderReportsCustomerNoShow"} : RequiredActor(e) = "provider"
BY DEF RequiredActor, SystemEvents, CustomerEvents

\* When an event is taken.
LEMMA Guards ==
  ASSUME NEW ctx
  PROVE  /\ Guard("ResponseDeadlinePassed", ctx) <=> ResponseDeadlinePassed(ctx)
         /\ \A e \in {"ProviderCompletes", "ProviderReportsCustomerNoShow",
                       "CustomerReportsProviderNoShow"} :
              Guard(e, ctx) <=> ctx.clock >= ctx.slotStart
         /\ \A e \in {"ProviderAccepts", "ProviderDeclines", "CustomerCancels",
                       "ProviderCancels", "AutoCompleteElapsed"} : Guard(e, ctx)
BY DEF Guard

\* The machine takes an event in its state, from its actor, when its guard holds.
LEMMA PermitsExactly ==
  ASSUME NEW s \in BookingState, NEW e \in BookingEvent, NEW ctx
  PROVE  Permits(s, e, ctx) <=>
           /\ \/ s = "PENDING" /\ e \in PendingEvents
              \/ s = "CONFIRMED" /\ e \in ConfirmedEvents
           /\ ctx.actor = RequiredActor(e)
           /\ Guard(e, ctx)
BY DEF Permits, Verdict, EventsTakenIn, Terminal, BookingState, Holding

\* The machine's answer, as a row.
Answer(s, e, ctx) ==
  Line(s, e, ctx.actor, NextState(e), RunEffects(s, e, ctx), FreesTheSlot(e), Recipients(e))

\* Every row of the table is the machine's answer to the question it is about.
LEMMA ListedIsAnswered ==
  ASSUME NEW ctx \in AnyContext, NEW r, Listed(r, ctx), r.actor = ctx.actor
  PROVE  Permits(r.from, r.event, ctx) /\ r = Answer(r.from, r.event, ctx)
<1> DEFINE Answered == Permits(r.from, r.event, ctx) /\ r = Answer(r.from, r.event, ctx)
<1>1. ASSUME r = Line("PENDING", "ProviderAccepts", "provider", "CONFIRMED",
                      << >>, FALSE, {"customer", "provider"})
      PROVE  Answered
  <2>1. r.from = "PENDING" /\ r.event = "ProviderAccepts" /\ ctx.actor = "provider"
    BY <1>1 DEF Line
  <2>3. r.from \in BookingState /\ r.event \in PendingEvents
    BY <2>1 DEF BookingState, Holding, PendingEvents
  <2>4. Guard(r.event, ctx) /\ RequiredActor(r.event) = ctx.actor
    BY <1>1, <2>1, Takers, Guards
  <2>5. Permits(r.from, r.event, ctx)
    BY <2>1, <2>3, <2>4, PermitsExactly DEF BookingEvent
  <2>6. Answer("PENDING", "ProviderAccepts", ctx) = r
    BY <1>1, <2>1, Destinations, EffectLists, Addressees, SlotsFreed DEF Answer
  <2> QED
    BY <2>1, <2>5, <2>6
<1>2. ASSUME r = Line("PENDING", "ProviderDeclines", "provider", "DECLINED",
                      <<"ReleaseAuth">>, TRUE, {"customer"})
      PROVE  Answered
  <2>1. r.from = "PENDING" /\ r.event = "ProviderDeclines" /\ ctx.actor = "provider"
    BY <1>2 DEF Line
  <2>3. r.from \in BookingState /\ r.event \in PendingEvents
    BY <2>1 DEF BookingState, Holding, PendingEvents
  <2>4. Guard(r.event, ctx) /\ RequiredActor(r.event) = ctx.actor
    BY <1>2, <2>1, Takers, Guards
  <2>5. Permits(r.from, r.event, ctx)
    BY <2>1, <2>3, <2>4, PermitsExactly DEF BookingEvent
  <2>6. Answer("PENDING", "ProviderDeclines", ctx) = r
    BY <1>2, <2>1, Destinations, EffectLists, Addressees, SlotsFreed DEF Answer
  <2> QED
    BY <2>1, <2>5, <2>6
<1>3. ASSUME r = Line("PENDING", "CustomerCancels", "customer", "CANCELLED_BY_CUSTOMER",
                      <<"ReleaseAuth">>, TRUE, {"provider"})
      PROVE  Answered
  <2>1. r.from = "PENDING" /\ r.event = "CustomerCancels" /\ ctx.actor = "customer"
    BY <1>3 DEF Line
  <2>3. r.from \in BookingState /\ r.event \in PendingEvents
    BY <2>1 DEF BookingState, Holding, PendingEvents
  <2>4. Guard(r.event, ctx) /\ RequiredActor(r.event) = ctx.actor
    BY <1>3, <2>1, Takers, Guards
  <2>5. Permits(r.from, r.event, ctx)
    BY <2>1, <2>3, <2>4, PermitsExactly DEF BookingEvent
  <2>6. Answer("PENDING", "CustomerCancels", ctx) = r
    BY <1>3, <2>1, Destinations, EffectLists, Addressees, SlotsFreed DEF Answer
  <2> QED
    BY <2>1, <2>5, <2>6
<1>4. ASSUME r = Line("CONFIRMED", "ProviderCancels", "provider", "CANCELLED_BY_PROVIDER",
                      <<FullReturn(ctx), "RecordStanding">>, TRUE, {"customer"})
      PROVE  Answered
  <2>1. r.from = "CONFIRMED" /\ r.event = "ProviderCancels" /\ ctx.actor = "provider"
    BY <1>4 DEF Line
  <2>3. r.from \in BookingState /\ r.event \in ConfirmedEvents
    BY <2>1 DEF BookingState, Holding, ConfirmedEvents
  <2>4. Guard(r.event, ctx) /\ RequiredActor(r.event) = ctx.actor
    BY <1>4, <2>1, Takers, Guards
  <2>5. Permits(r.from, r.event, ctx)
    BY <2>1, <2>3, <2>4, PermitsExactly DEF BookingEvent
  <2>6. Answer("CONFIRMED", "ProviderCancels", ctx) = r
    BY <1>4, <2>1, Destinations, EffectLists, Addressees, SlotsFreed DEF Answer
  <2> QED
    BY <2>1, <2>5, <2>6
<1>5. ASSUME r = Line("CONFIRMED", "AutoCompleteElapsed", "system", "COMPLETED",
                      <<"Capture100", "Split">>, FALSE, {"customer", "provider"})
      PROVE  Answered
  <2>1. r.from = "CONFIRMED" /\ r.event = "AutoCompleteElapsed" /\ ctx.actor = "system"
    BY <1>5 DEF Line
  <2>3. r.from \in BookingState /\ r.event \in ConfirmedEvents
    BY <2>1 DEF BookingState, Holding, ConfirmedEvents
  <2>4. Guard(r.event, ctx) /\ RequiredActor(r.event) = ctx.actor
    BY <1>5, <2>1, Takers, Guards
  <2>5. Permits(r.from, r.event, ctx)
    BY <2>1, <2>3, <2>4, PermitsExactly DEF BookingEvent
  <2>6. Answer("CONFIRMED", "AutoCompleteElapsed", ctx) = r
    BY <1>5, <2>1, Destinations, EffectLists, Addressees, SlotsFreed DEF Answer
  <2> QED
    BY <2>1, <2>5, <2>6
<1>6. ASSUME r = Line("PENDING", "ResponseDeadlinePassed", "system", "EXPIRED",
                      <<"ReleaseAuth", "RecordStanding">>, TRUE, {"customer", "provider"}),
             ResponseDeadlinePassed(ctx)
      PROVE  Answered
  <2>1. r.from = "PENDING" /\ r.event = "ResponseDeadlinePassed" /\ ctx.actor = "system"
    BY <1>6 DEF Line
  <2>3. r.from \in BookingState /\ r.event \in PendingEvents
    BY <2>1 DEF BookingState, Holding, PendingEvents
  <2>4. Guard(r.event, ctx) /\ RequiredActor(r.event) = ctx.actor
    BY <1>6, <2>1, Takers, Guards
  <2>5. Permits(r.from, r.event, ctx)
    BY <2>1, <2>3, <2>4, PermitsExactly DEF BookingEvent
  <2>6. Answer("PENDING", "ResponseDeadlinePassed", ctx) = r
    BY <1>6, <2>1, Destinations, EffectLists, Addressees, SlotsFreed DEF Answer
  <2> QED
    BY <2>1, <2>5, <2>6
<1>7. ASSUME r = Line("CONFIRMED", "CustomerCancels", "customer", "CANCELLED_BY_CUSTOMER",
                      <<FullReturn(ctx)>>, TRUE, {"provider"}),
             ctx.slotStart - ctx.clock > ctx.cancelFullRefundHours
      PROVE  Answered
  <2>1. r.from = "CONFIRMED" /\ r.event = "CustomerCancels" /\ ctx.actor = "customer"
    BY <1>7 DEF Line
  <2>2. ~LateCancel(ctx)
    BY <1>7 DEF LateCancel, AnyContext
  <2>3. r.from \in BookingState /\ r.event \in ConfirmedEvents
    BY <2>1 DEF BookingState, Holding, ConfirmedEvents
  <2>4. Guard(r.event, ctx) /\ RequiredActor(r.event) = ctx.actor
    BY <1>7, <2>1, Takers, Guards
  <2>5. Permits(r.from, r.event, ctx)
    BY <2>1, <2>3, <2>4, PermitsExactly DEF BookingEvent
  <2>6. Answer("CONFIRMED", "CustomerCancels", ctx) = r
    BY <1>7, <2>1, <2>2, Destinations, EffectLists, Addressees, SlotsFreed DEF Answer
  <2> QED
    BY <2>1, <2>5, <2>6
<1>8. ASSUME r = Line("CONFIRMED", "CustomerCancels", "customer", "CANCELLED_BY_CUSTOMER",
                      <<Half(ctx), "Split">>, TRUE, {"provider"}),
             LateCancel(ctx)
      PROVE  Answered
  <2>1. r.from = "CONFIRMED" /\ r.event = "CustomerCancels" /\ ctx.actor = "customer"
    BY <1>8 DEF Line
  <2>3. r.from \in BookingState /\ r.event \in ConfirmedEvents
    BY <2>1 DEF BookingState, Holding, ConfirmedEvents
  <2>4. Guard(r.event, ctx) /\ RequiredActor(r.event) = ctx.actor
    BY <1>8, <2>1, Takers, Guards
  <2>5. Permits(r.from, r.event, ctx)
    BY <2>1, <2>3, <2>4, PermitsExactly DEF BookingEvent
  <2>6. Answer("CONFIRMED", "CustomerCancels", ctx) = r
    BY <1>8, <2>1, Destinations, EffectLists, Addressees, SlotsFreed DEF Answer
  <2> QED
    BY <2>1, <2>5, <2>6
<1>9. ASSUME r = Line("CONFIRMED", "ProviderCompletes", "provider", "COMPLETED",
                      <<"Capture100", "Split">>, FALSE, {"customer", "provider"}),
             ctx.clock >= ctx.slotStart
      PROVE  Answered
  <2>1. r.from = "CONFIRMED" /\ r.event = "ProviderCompletes" /\ ctx.actor = "provider"
    BY <1>9 DEF Line
  <2>3. r.from \in BookingState /\ r.event \in ConfirmedEvents
    BY <2>1 DEF BookingState, Holding, ConfirmedEvents
  <2>4. Guard(r.event, ctx) /\ RequiredActor(r.event) = ctx.actor
    BY <1>9, <2>1, Takers, Guards
  <2>5. Permits(r.from, r.event, ctx)
    BY <2>1, <2>3, <2>4, PermitsExactly DEF BookingEvent
  <2>6. Answer("CONFIRMED", "ProviderCompletes", ctx) = r
    BY <1>9, <2>1, Destinations, EffectLists, Addressees, SlotsFreed DEF Answer
  <2> QED
    BY <2>1, <2>5, <2>6
<1>10. ASSUME r = Line("CONFIRMED", "ProviderReportsCustomerNoShow", "provider",
                       "NO_SHOW_CUSTOMER", <<"Capture100", "Split">>, FALSE, {"customer"}),
             ctx.clock >= ctx.slotStart
      PROVE  Answered
  <2>1. r.from = "CONFIRMED" /\ r.event = "ProviderReportsCustomerNoShow" /\ ctx.actor = "provider"
    BY <1>10 DEF Line
  <2>3. r.from \in BookingState /\ r.event \in ConfirmedEvents
    BY <2>1 DEF BookingState, Holding, ConfirmedEvents
  <2>4. Guard(r.event, ctx) /\ RequiredActor(r.event) = ctx.actor
    BY <1>10, <2>1, Takers, Guards
  <2>5. Permits(r.from, r.event, ctx)
    BY <2>1, <2>3, <2>4, PermitsExactly DEF BookingEvent
  <2>6. Answer("CONFIRMED", "ProviderReportsCustomerNoShow", ctx) = r
    BY <1>10, <2>1, Destinations, EffectLists, Addressees, SlotsFreed DEF Answer
  <2> QED
    BY <2>1, <2>5, <2>6
<1>11. ASSUME r = Line("CONFIRMED", "CustomerReportsProviderNoShow", "customer",
                       "NO_SHOW_PROVIDER", <<FullReturn(ctx), "RecordStanding">>,
                       FALSE, {"provider"}),
             ctx.clock >= ctx.slotStart
      PROVE  Answered
  <2>1. r.from = "CONFIRMED" /\ r.event = "CustomerReportsProviderNoShow" /\ ctx.actor = "customer"
    BY <1>11 DEF Line
  <2>3. r.from \in BookingState /\ r.event \in ConfirmedEvents
    BY <2>1 DEF BookingState, Holding, ConfirmedEvents
  <2>4. Guard(r.event, ctx) /\ RequiredActor(r.event) = ctx.actor
    BY <1>11, <2>1, Takers, Guards
  <2>5. Permits(r.from, r.event, ctx)
    BY <2>1, <2>3, <2>4, PermitsExactly DEF BookingEvent
  <2>6. Answer("CONFIRMED", "CustomerReportsProviderNoShow", ctx) = r
    BY <1>11, <2>1, Destinations, EffectLists, Addressees, SlotsFreed DEF Answer
  <2> QED
    BY <2>1, <2>5, <2>6
<1> QED
  BY <1>1, <1>2, <1>3, <1>4, <1>5, <1>6, <1>7, <1>8, <1>9, <1>10, <1>11 DEF Listed

\* And every answer is a row of the table.
LEMMA AnsweredIsListed ==
  ASSUME NEW ctx \in AnyContext, NEW s \in BookingState, NEW e \in BookingEvent,
         Permits(s, e, ctx)
  PROVE  Listed(Answer(s, e, ctx), ctx)
<1>1. /\ \/ s = "PENDING" /\ e \in PendingEvents
         \/ s = "CONFIRMED" /\ e \in ConfirmedEvents
      /\ ctx.actor = RequiredActor(e)
      /\ Guard(e, ctx)
  BY PermitsExactly
<1>2. ASSUME s = "PENDING", e = "ProviderAccepts"
      PROVE  Listed(Answer(s, e, ctx), ctx)
  <2>1. Answer(s, e, ctx) = Line("PENDING", "ProviderAccepts", "provider", "CONFIRMED",
                                 << >>, FALSE, {"customer", "provider"})
    BY <1>1, <1>2, Takers, Destinations, EffectLists, Addressees, SlotsFreed DEF Answer
  <2> QED
    BY <2>1, <1>2 DEF Listed
<1>3. ASSUME s = "PENDING", e = "ProviderDeclines"
      PROVE  Listed(Answer(s, e, ctx), ctx)
  <2>1. Answer(s, e, ctx) = Line("PENDING", "ProviderDeclines", "provider", "DECLINED",
                                 <<"ReleaseAuth">>, TRUE, {"customer"})
    BY <1>1, <1>3, Takers, Destinations, EffectLists, Addressees, SlotsFreed DEF Answer
  <2> QED
    BY <2>1, <1>3 DEF Listed
<1>4. ASSUME s = "PENDING", e = "CustomerCancels"
      PROVE  Listed(Answer(s, e, ctx), ctx)
  <2>1. Answer(s, e, ctx) = Line("PENDING", "CustomerCancels", "customer",
                                 "CANCELLED_BY_CUSTOMER", <<"ReleaseAuth">>, TRUE, {"provider"})
    BY <1>1, <1>4, Takers, Destinations, EffectLists, Addressees, SlotsFreed DEF Answer
  <2> QED
    BY <2>1, <1>4 DEF Listed
<1>5. ASSUME s = "CONFIRMED", e = "ProviderCancels"
      PROVE  Listed(Answer(s, e, ctx), ctx)
  <2>1. Answer(s, e, ctx) = Line("CONFIRMED", "ProviderCancels", "provider",
                                 "CANCELLED_BY_PROVIDER", <<FullReturn(ctx), "RecordStanding">>,
                                 TRUE, {"customer"})
    BY <1>1, <1>5, Takers, Destinations, EffectLists, Addressees, SlotsFreed DEF Answer
  <2> QED
    BY <2>1, <1>5 DEF Listed
<1>6. ASSUME s = "CONFIRMED", e = "AutoCompleteElapsed"
      PROVE  Listed(Answer(s, e, ctx), ctx)
  <2>1. Answer(s, e, ctx) = Line("CONFIRMED", "AutoCompleteElapsed", "system", "COMPLETED",
                                 <<"Capture100", "Split">>, FALSE, {"customer", "provider"})
    BY <1>1, <1>6, Takers, Destinations, EffectLists, Addressees, SlotsFreed DEF Answer
  <2> QED
    BY <2>1, <1>6 DEF Listed
<1>7. ASSUME s = "PENDING", e = "ResponseDeadlinePassed"
      PROVE  Listed(Answer(s, e, ctx), ctx)
  <2>1. Answer(s, e, ctx) = Line("PENDING", "ResponseDeadlinePassed", "system", "EXPIRED",
                                 <<"ReleaseAuth", "RecordStanding">>,
                                 TRUE, {"customer", "provider"})
    BY <1>1, <1>7, Takers, Destinations, EffectLists, Addressees, SlotsFreed DEF Answer
  <2>2. ResponseDeadlinePassed(ctx)
    BY <1>1, <1>7, Guards DEF LateCancel, AnyContext
  <2> QED
    BY <2>1, <2>2, <1>7 DEF Listed
<1>8. ASSUME s = "CONFIRMED", e = "CustomerCancels", ~LateCancel(ctx)
      PROVE  Listed(Answer(s, e, ctx), ctx)
  <2>1. Answer(s, e, ctx) = Line("CONFIRMED", "CustomerCancels", "customer",
                                 "CANCELLED_BY_CUSTOMER", <<FullReturn(ctx)>>,
                                 TRUE, {"provider"})
    BY <1>1, <1>8, Takers, Destinations, EffectLists, Addressees, SlotsFreed DEF Answer
  <2>2. ctx.slotStart - ctx.clock > ctx.cancelFullRefundHours
    BY <1>1, <1>8, Guards DEF LateCancel, AnyContext
  <2> QED
    BY <2>1, <2>2, <1>8 DEF Listed
<1>9. ASSUME s = "CONFIRMED", e = "CustomerCancels", LateCancel(ctx)
      PROVE  Listed(Answer(s, e, ctx), ctx)
  <2>1. Answer(s, e, ctx) = Line("CONFIRMED", "CustomerCancels", "customer",
                                 "CANCELLED_BY_CUSTOMER", <<Half(ctx), "Split">>,
                                 TRUE, {"provider"})
    BY <1>1, <1>9, Takers, Destinations, EffectLists, Addressees, SlotsFreed DEF Answer
  <2>2. LateCancel(ctx)
    BY <1>1, <1>9, Guards DEF LateCancel, AnyContext
  <2> QED
    BY <2>1, <2>2, <1>9 DEF Listed
<1>10. ASSUME s = "CONFIRMED", e = "ProviderCompletes"
      PROVE  Listed(Answer(s, e, ctx), ctx)
  <2>1. Answer(s, e, ctx) = Line("CONFIRMED", "ProviderCompletes", "provider", "COMPLETED",
                                 <<"Capture100", "Split">>, FALSE, {"customer", "provider"})
    BY <1>1, <1>10, Takers, Destinations, EffectLists, Addressees, SlotsFreed DEF Answer
  <2>2. ctx.clock >= ctx.slotStart
    BY <1>1, <1>10, Guards DEF LateCancel, AnyContext
  <2> QED
    BY <2>1, <2>2, <1>10 DEF Listed
<1>11. ASSUME s = "CONFIRMED", e = "ProviderReportsCustomerNoShow"
      PROVE  Listed(Answer(s, e, ctx), ctx)
  <2>1. Answer(s, e, ctx) = Line("CONFIRMED", "ProviderReportsCustomerNoShow", "provider",
                                 "NO_SHOW_CUSTOMER", <<"Capture100", "Split">>,
                                 FALSE, {"customer"})
    BY <1>1, <1>11, Takers, Destinations, EffectLists, Addressees, SlotsFreed DEF Answer
  <2>2. ctx.clock >= ctx.slotStart
    BY <1>1, <1>11, Guards DEF LateCancel, AnyContext
  <2> QED
    BY <2>1, <2>2, <1>11 DEF Listed
<1>12. ASSUME s = "CONFIRMED", e = "CustomerReportsProviderNoShow"
      PROVE  Listed(Answer(s, e, ctx), ctx)
  <2>1. Answer(s, e, ctx) = Line("CONFIRMED", "CustomerReportsProviderNoShow", "customer",
                                 "NO_SHOW_PROVIDER", <<FullReturn(ctx), "RecordStanding">>,
                                 FALSE, {"provider"})
    BY <1>1, <1>12, Takers, Destinations, EffectLists, Addressees, SlotsFreed DEF Answer
  <2>2. ctx.clock >= ctx.slotStart
    BY <1>1, <1>12, Guards DEF LateCancel, AnyContext
  <2> QED
    BY <2>1, <2>2, <1>12 DEF Listed
<1> QED
  BY <1>1, <1>2, <1>3, <1>4, <1>5, <1>6, <1>7, <1>8, <1>9, <1>10, <1>11, <1>12
     DEF PendingEvents, ConfirmedEvents

\* A question about the machine is answered as the table says.
LEMMA AnswersMatch == question \in Question => MachineMatchesDesign
<1> SUFFICES ASSUME question \in Question
             PROVE  MachineMatchesDesign
  OBVIOUS
<1> DEFINE s == question.state
           e == question.event
           c == question.ctx
<1>1. s \in BookingState /\ e \in BookingEvent /\ c \in AnyContext
  BY DEF Question
<1>2. ASSUME NEW r
      PROVE  (r \in Rows(c) /\ r.from = s /\ r.event = e /\ r.actor = c.actor)
               <=> (Permits(s, e, c) /\ r = Answer(s, e, c))
  <2>1. r = Answer(s, e, c) => r.from = s /\ r.event = e /\ r.actor = c.actor
    BY DEF Answer, Line
  <2> QED
    BY <1>1, <2>1, TableIsListed, ListedIsAnswered, AnsweredIsListed
<1>3. RowsFor(question) = IF Permits(s, e, c) THEN {Answer(s, e, c)} ELSE {}
  BY <1>2 DEF RowsFor
<1>4. /\ Effects(s, e, c).run = RunEffects(s, e, c)
      /\ Effects(s, e, c).releasesHold = FreesTheSlot(e)
      /\ Effects(s, e, c).notify = Recipients(e)
  BY DEF Effects, FreesTheSlot
<1> QED
  BY <1>3, <1>4 DEF MachineMatchesDesign, Answer

\* What an hour changes in an answer.
LEMMA AnHourLater ==
  ASSUME NEW s \in BookingState, NEW e \in BookingEvent, NEW ctx \in AnyContext,
         NEW later, later = [ctx EXCEPT !.clock = @ + 1], Permits(s, e, ctx)
  PROVE  /\ Permits(s, e, later)
         /\ \/ Effects(s, e, later) = Effects(s, e, ctx)
            \/ /\ s = "CONFIRMED" /\ e = "CustomerCancels"
               /\ ~LateCancel(ctx) /\ LateCancel(later)
<1>1. /\ ctx.clock \in Int /\ ctx.slotStart \in Int /\ ctx.responseDeadline \in Int
      /\ ctx.cancelFullRefundHours \in Int
      /\ later.clock = ctx.clock + 1 /\ later.slotStart = ctx.slotStart
      /\ later.responseDeadline = ctx.responseDeadline /\ later.actor = ctx.actor
      /\ later.cancelFullRefundHours = ctx.cancelFullRefundHours
      /\ later.alreadyCaptured = ctx.alreadyCaptured
  BY DEF AnyContext
<1>2. Guard(e, ctx) => Guard(e, later)
  BY <1>1 DEF Guard, ResponseDeadlinePassed
<1>3. Permits(s, e, later)
  BY <1>1, <1>2, PermitsExactly
<1>4. FullReturn(later) = FullReturn(ctx)
  BY <1>1 DEF FullReturn
<1>5. LateCancel(ctx) => LateCancel(later)
  BY <1>1 DEF LateCancel
<1>6. CASE (s = "CONFIRMED" /\ e = "CustomerCancels") => LateCancel(ctx) \/ ~LateCancel(later)
  <2>1. RunEffects(s, e, later) = RunEffects(s, e, ctx)
    BY <1>1, <1>4, <1>5, <1>6 DEF RunEffects
  <2> QED
    BY <1>3, <2>1 DEF Effects
<1> QED
  BY <1>3, <1>6

\* The questions asked about the machine are well formed.
LEMMA QuestionsType == Questions \subseteq Question
<1>1. Contexts \subseteq AnyContext
  BY TimesAreIntegers DEF Contexts, AnyContext
<1> QED
  BY <1>1 DEF Questions, Question

\* The machine of booking-state-machine/src/index.ts takes exactly the events the
\* design's table lists, when it lists them, and answers each with the listed state and
\* effects: in any state, at any hour, for any slot, deadline and window.
THEOREM MachineIsTheDesign == OracleSpec => []MachineMatchesDesign
<1>1. QuestionsStay => MachineMatchesDesign
  <2> SUFFICES ASSUME QuestionsStay, AboutBooking
               PROVE  MachineMatchesDesign
    BY DEF MachineMatchesDesign
  <2> QED
    BY AnswersMatch, KindsOfQuestion, QuestionsType
<1> QED
  BY <1>1, QuestionsKeepTheirKind, PTL

\* Time opens doors and closes none: what the machine has once answered it answers an
\* hour later too, but that a cancellation may have become late.
THEOREM AnswersOnlyGrowDearer == OracleSpec => TimeOnlyMakesCancellingDearer
<1>1. ASSUME QuestionsStay, Advance
      PROVE  OnlyDearerStep
  <2>1. question \in Questions
    BY <1>1, KindsOfQuestion DEF Advance
  <2>2. question.ctx \in AnyContext
    BY <2>1, QuestionsType DEF Question
  <2>3. /\ question.state \in BookingState /\ question.event \in BookingEvent
        /\ question'.ctx = [question.ctx EXCEPT !.clock = @ + 1]
    BY <1>1, <2>1 DEF Advance, Questions
  <2> QED
    BY <2>2, <2>3, AnHourLater DEF OnlyDearerStep
<1>2. ASSUME ScheduleChanges, QuestionsStay
      PROVE  ~AboutBooking
  <2>1. AboutSchedule
    BY <1>2 DEF ScheduleChanges, TimePasses, ReplaceRules, AddBlock, AddExtra
  <2>2. question \in ScheduleStates
    BY <1>2, <2>1, KindsOfQuestion
  <2> QED
    BY <2>2 DEF ScheduleStates, AboutBooking
<1>3. QuestionsStay /\ [OracleNext]_question => [AboutBooking => OnlyDearerStep]_question
  BY <1>1, <1>2 DEF OracleNext
<1> QED
  BY <1>3, QuestionsStayThemselves, PTL DEF OracleSpec, TimeOnlyMakesCancellingDearer

---------------------------------------------------------------------------
(* The slots of a schedule.                                                *)

\* listWeekly lists the rules there are.
LEMMA WeeklyListed ==
  ASSUME NEW rules \in Patterns
  PROVE  ListWeekly(rules) \in Seq(rules) /\ Range(ListWeekly(rules)) = rules
<1> DEFINE R == {e \in rules \X rules : Earlier(e[1], e[2])}
<1>1. /\ IsFiniteSet(rules)
      /\ \A r \in rules : r.weekday \in Int /\ r.start \in Int /\ r.end \in Int
  BY RulesAreWindows
<1>2. \A a, b \in rules : <<a, b>> \in R <=> Earlier(a, b)
  OBVIOUS
<1>3. Orders(R, rules)
  <2>1. \A x \in rules : ~Earlier(x, x)
    BY <1>1 DEF Earlier
  <2>2. \A x, y, z \in rules : Earlier(x, y) /\ Earlier(y, z) => Earlier(x, z)
    BY <1>1 DEF Earlier
  <2> HIDE DEF R
  <2> QED
    BY <1>2, <2>1, <2>2 DEF Orders
<1> HIDE DEF R
<1>4. PICK s \in SetToSeqs(rules) : InOrderOf(s, R)
  BY <1>1, <1>3, OrderExists
<1>5. /\ s \in Seq(rules)
      /\ Range(s) = rules
  BY <1>1, ListsOfSet
<1>6. \A i, j \in DOMAIN s : i < j => ~Earlier(s[j], s[i])
  <2>1. \A i \in DOMAIN s : s[i] \in rules
    BY <1>5, ElementOfSeq, LenProperties
  <2> QED
    BY <1>2, <1>4, <2>1 DEF InOrderOf
<1>7. ListWeekly(rules) \in SetToSeqs(rules)
  BY <1>4, <1>6 DEF ListWeekly, InOrder
<1> QED
  BY <1>1, <1>7, ListsOfSet

\* The windows of a day are the hours the provider is open.
LEMMA WindowsAreOpenHours ==
  ASSUME NEW q \in ScheduleStates, NEW day \in Int
  PROVE  /\ WindowsForDay(q, day) \in Seq(q.weekly \cup Extras)
         /\ Range(WindowsForDay(q, day)) = OpenHours(q, day)
<1> DEFINE E == Blocks \cup Extras
           X == q.exceptions
           T == {x \in E : x.day = day}
           P == {x \in E : x.kind = "extra"}
           W == {r \in q.weekly : r.weekday = day % WeekLength}
           today == Kept(X, LAMBDA x : x.day = day)
           extras == Kept(today, LAMBDA x : x.kind = "extra")
           ruled == Kept(ListWeekly(q.weekly), LAMBDA r : r.weekday = day % WeekLength)
<1>1. X \in Seq(E) /\ q.weekly \in Patterns
  BY DEF ScheduleStates
<1>2. today \in Seq(E) /\ Range(today) = Range(X) \cap T
  <2>1. \A i \in DOMAIN X : X[i] \in E
    BY <1>1, ElementOfSeq, LenProperties
  <2>2. [i \in DOMAIN X |-> IF X[i].day = day THEN <<X[i]>> ELSE << >>]
          = [i \in DOMAIN X |-> IF X[i] \in T THEN <<X[i]>> ELSE << >>]
    BY <2>1
  <2>3. today = Only(X, T)
    BY <2>2, Zenon DEF Kept, Only
  <2> HIDE DEF E, T, X, today
  <2>4. Only(X, T) \in Seq(E) /\ Range(Only(X, T)) = Range(X) \cap T
    BY <1>1, OnlyElements
  <2> QED
    BY <2>3, <2>4
<1>3. extras \in Seq(E) /\ Range(extras) = Range(today) \cap P
  <2> HIDE DEF today
  <2>1. \A i \in DOMAIN today : today[i] \in E
    BY <1>2, ElementOfSeq, LenProperties
  <2>2. [i \in DOMAIN today |-> IF today[i].kind = "extra" THEN <<today[i]>> ELSE << >>]
          = [i \in DOMAIN today |-> IF today[i] \in P THEN <<today[i]>> ELSE << >>]
    BY <2>1
  <2>3. extras = Only(today, P)
    BY <2>2, Zenon DEF Kept, Only
  <2> HIDE DEF E, P, X
  <2> QED
    BY <1>2, <2>3, OnlyElements
<1>4. ruled \in Seq(q.weekly) /\ Range(ruled) = W
  <2> DEFINE L == ListWeekly(q.weekly)
  <2>1. L \in Seq(q.weekly) /\ Range(L) = q.weekly
    BY <1>1, WeeklyListed
  <2> HIDE DEF L
  <2>2. \A i \in DOMAIN L : L[i] \in q.weekly
    BY <2>1, ElementOfSeq, LenProperties
  <2>3. [i \in DOMAIN L |-> IF L[i].weekday = day % WeekLength THEN <<L[i]>> ELSE << >>]
          = [i \in DOMAIN L |-> IF L[i] \in W THEN <<L[i]>> ELSE << >>]
    BY <2>2
  <2>4. ruled = Only(L, W)
    BY <2>3, Zenon DEF Kept, Only, L
  <2>5. q.weekly \cap W = W
    OBVIOUS
  <2> HIDE DEF W, ruled
  <2>6. Only(L, W) \in Seq(q.weekly) /\ Range(Only(L, W)) = Range(L) \cap W
    BY <2>1, OnlyElements
  <2> QED
    BY <2>1, <2>4, <2>5, <2>6
<1>5. WindowsForDay(q, day) = IF \E i \in DOMAIN today : today[i].kind = "block" THEN << >>
                              ELSE IF extras # << >> THEN extras
                              ELSE ruled
  BY Zenon DEF WindowsForDay
<1> DEFINE B == {i \in DOMAIN X : X[i].day = day /\ X[i].kind = "block"}
           F == {i \in DOMAIN X : X[i].day = day /\ X[i].kind = "extra"}
<1>6. OpenHours(q, day) = IF B # {} THEN {}
                          ELSE IF F # {} THEN {X[i] : i \in F}
                          ELSE W
  BY Zenon DEF OpenHours
<1>7. (\E i \in DOMAIN today : today[i].kind = "block") <=> B # {}
  <2> HIDE DEF today
  <2>1. (\E i \in DOMAIN today : today[i].kind = "block")
           <=> \E x \in Range(today) : x.kind = "block"
    BY DEF Range
  <2>2. \A i \in DOMAIN X : X[i] \in E
    BY <1>1, ElementOfSeq, LenProperties
  <2>3. (\E x \in Range(X) \cap T : x.kind = "block") <=> B # {}
    BY <2>2 DEF Range
  <2> QED
    BY <1>2, <2>1, <2>3
<1>8. Range(extras) = {X[i] : i \in F}
  <2> HIDE DEF today, extras
  <2>2. \A i \in DOMAIN X : X[i] \in E
    BY <1>1, ElementOfSeq, LenProperties
  <2>3. Range(X) \cap T \cap P = {X[i] : i \in F}
    BY <2>2 DEF Range
  <2> QED
    BY <1>2, <1>3, <2>3
<1>9. extras # << >> <=> F # {}
  <2> HIDE DEF extras, F
  <2>1. Range(extras) = {} <=> extras = << >>
    BY <1>3, EmptyList
  <2> QED
    BY <1>8, <2>1
<1>10. Range(extras) \subseteq Extras /\ extras \in Seq(Extras)
  <2> HIDE DEF extras, today
  <2>1. Range(extras) \subseteq Extras
    BY <1>3 DEF Blocks, Extras
  <2> QED
    BY <1>3, <2>1, LenProperties, SeqDef DEF Range
<1> HIDE DEF today, extras, ruled, B, F, E, T, P, W, X
<1>11. /\ Seq(Extras) \subseteq Seq(q.weekly \cup Extras)
       /\ Seq(q.weekly) \subseteq Seq(q.weekly \cup Extras)
  BY SeqDef
<1>12. Range(<< >>) = {} /\ << >> \in Seq(q.weekly \cup Extras)
  BY DEF Range
<1>13. CASE B # {}
  <2>1. WindowsForDay(q, day) = << >>
    BY <1>5, <1>7, <1>13, Zenon
  <2>2. OpenHours(q, day) = {}
    BY <1>6, <1>13, Zenon
  <2> QED
    BY <1>12, <2>1, <2>2, Zenon
<1>14. CASE B = {} /\ F # {}
  BY <1>5, <1>6, <1>7, <1>8, <1>9, <1>10, <1>11, <1>14
<1>15. CASE B = {} /\ F = {}
  BY <1>4, <1>5, <1>6, <1>7, <1>9, <1>11, <1>15
<1> QED
  BY <1>13, <1>14, <1>15

Times == [start : Int, end : Int]

\* The times of a day's windows.
OpeningsOf(q, day) ==
    [i \in DOMAIN WindowsForDay(q, day) |-> Opening(day, WindowsForDay(q, day)[i])]

\* A day's openings are its open hours, at their time.
LEMMA DayOpenings ==
  ASSUME NEW q \in ScheduleStates, NEW day \in Int
  PROVE  /\ OpeningsOf(q, day) \in Seq(Times)
         /\ Range(OpeningsOf(q, day)) = {Opening(day, w) : w \in OpenHours(q, day)}
<1> DEFINE s == WindowsForDay(q, day)
           W == q.weekly \cup Extras
           o == OpeningsOf(q, day)
<1>1. s \in Seq(W) /\ Range(s) = OpenHours(q, day)
  BY WindowsAreOpenHours
<1>2. \A w \in W : w.start \in Int /\ w.end \in Int
  BY RulesAreWindows DEF Extras, ScheduleStates
<1>3. \A w \in W : Opening(day, w) \in Times
  BY <1>2, DaysAreDays DEF Opening, Times
<1>4. o = [i \in DOMAIN s |-> Opening(day, s[i])]
  BY DEF OpeningsOf
<1> HIDE DEF s, W, o
<1>5. Len(s) \in Nat /\ DOMAIN s = 1..Len(s) /\ \A i \in 1..Len(s) : s[i] \in W
  BY <1>1, LenProperties, ElementOfSeq
<1>6. o \in [1..Len(s) -> Times]
  BY <1>3, <1>4, <1>5
<1>7. o \in Seq(Times)
  BY <1>5, <1>6, SeqDef
<1>8. Range(o) = {Opening(day, w) : w \in Range(s)}
  BY <1>4 DEF Range
<1> QED
  BY <1>1, <1>7, <1>8 DEF o

\* The days asked about are days.
LEMMA DaysCount ==
  ASSUME NEW q \in ScheduleStates
  PROVE  q.now \in Nat /\ FirstDay(q) \in Int /\ LastDay(q) \in Int
<1>1. q.now \in Nat /\ DayLength \in Nat \ {0} /\ q.query \in Queries
  BY DaysAreDays DEF ScheduleStates
<1>2. FromOf(q) \in Int /\ ToOf(q) \in Int
  BY <1>1, QueriesAreTimes DEF FromOf, ToOf
<1>3. \A d \in Nat \ {0}, a \in Int : a \div d \in Int
  OBVIOUS
<1> QED
  BY <1>1, <1>2, <1>3 DEF FirstDay, LastDay

\* The windows looked at are the hours the provider is open.
LEMMA OpeningsAreOpenTimes ==
  ASSUME NEW q \in ScheduleStates
  PROVE  /\ Openings(q) \in Seq(Times)
         /\ Range(Openings(q)) = OpenTimes(q, FirstDay(q), LastDay(q))
<1> DEFINE F == FirstDay(q)
           L == LastDay(q)
<1>1. F \in Int /\ L \in Int
  BY DaysCount
<1>0. PICK n \in Nat : 1..n = 1..(L - F + 1) /\ (L - F + 1 >= 0 => n = L - F + 1)
  <2>1. CASE L - F + 1 >= 0
    BY <1>1, <2>1
  <2>2. CASE ~(L - F + 1 >= 0)
    <3>1. 1..0 = 1..(L - F + 1) /\ 0 \in Nat
      BY <1>1, <2>2
    <3> QED
      BY <2>2, <3>1
  <2> QED
    BY <2>1, <2>2
<1> DEFINE s == [i \in 1..n |-> OpeningsOf(q, F + i - 1)]
<1>2. Openings(q) = FlattenSeq(s)
  <2>1. Openings(q) = FlattenSeq([i \in 1..(L - F + 1) |-> OpeningsOf(q, F + i - 1)])
    BY Zenon DEF Openings, OpeningsOf
  <2> QED
    BY <1>0, <2>1
<1> HIDE DEF F, L
<1>3. \A i \in 1..n : F + i - 1 \in Int
  BY <1>1
<1>4. \A i \in 1..n : OpeningsOf(q, F + i - 1) \in Seq(Times)
  BY <1>3, DayOpenings
<1>5. s \in Seq(Seq(Times)) /\ Len(s) = n
  <2>1. s \in [1..n -> Seq(Times)]
    BY <1>4
  <2> HIDE DEF s
  <2> QED
    BY <2>1, SeqDef
<1>6. /\ FlattenSeq(s) \in Seq(Times)
      /\ Range(FlattenSeq(s)) = Elements(s, n)
  <2> HIDE DEF s
  <2> QED
    BY <1>5, FlattenElements
<1>7. Elements(s, n) = UNION {Range(OpeningsOf(q, F + i - 1)) : i \in 1..n}
  BY DEF Elements
<1>8. Elements(s, n) = UNION {{Opening(day, w) : w \in OpenHours(q, day)} : day \in F..L}
  <2>1. \A day \in F..L : Range(OpeningsOf(q, day)) = {Opening(day, w) : w \in OpenHours(q, day)}
    BY <1>1, DayOpenings
  <2>2. Elements(s, n) = UNION {Range(OpeningsOf(q, day)) : day \in F..L}
    <3>1. \A i \in 1..n : F + i - 1 \in F..L
      BY <1>0, <1>1
    <3>2. \A day \in F..L : \E i \in 1..n : day = F + i - 1
      <4> SUFFICES ASSUME NEW day \in F..L
                   PROVE  \E i \in 1..n : day = F + i - 1
        OBVIOUS
      <4>1. day - F + 1 \in 1..n /\ day = F + (day - F + 1) - 1
        BY <1>0, <1>1
      <4> QED
        BY <4>1
    <3> HIDE DEF s
    <3> QED
      BY <1>7, <3>1, <3>2
  <2> HIDE DEF s
  <2>3. UNION {Range(OpeningsOf(q, day)) : day \in F..L}
          = UNION {{Opening(day, w) : w \in OpenHours(q, day)} : day \in F..L}
    BY <2>1
  <2> QED
    BY <2>2, <2>3
<1> QED
  BY <1>2, <1>6, <1>8, Zenon DEF OpenTimes, F, L

\* Pairs of which one ends before the other begins.
Ascending == {e \in Times \X Times : Apart(e[1], e[2])}

\* The slots on the grid of a window.
OnGrid(q, w) ==
    {slot \in {Slot(t, q.duration) : t \in w.start..w.end} : Fits(q, slot, w)}

\* How often a length goes into another.
LEMMA WholeParts ==
  ASSUME NEW d \in Nat \ {0}, NEW a \in Int
  PROVE  /\ a \div d \in Int
         /\ \A k \in Int : k <= a \div d <=> k * d <= a
         /\ \A k \in Int : k * d \in Int /\ (k * d) % d = 0
         /\ a % d = 0 => a = (a \div d) * d
OBVIOUS

\* A window is cut into the slots that fit its grid, one after the other, all inside it.
LEMMA GridFits ==
  ASSUME NEW q \in ScheduleStates, NEW w \in Times
  PROVE  /\ Grid(q, w) \in Seq(Times)
         /\ Range(Grid(q, w)) = OnGrid(q, w)
         /\ Follows(Grid(q, w), Ascending)
         /\ \A slot \in Range(Grid(q, w)) : w.start <= slot.start /\ slot.end <= w.end
<1> DEFINE d == q.duration
           n == (w.end - w.start) \div d
           g == Grid(q, w)
<1>1. d \in Nat \ {0} /\ w.start \in Int /\ w.end \in Int
  BY DEF ScheduleStates, Times
<1>2. g = [i \in 1..n |-> Slot(w.start + (i - 1) * d, d)]
  BY DEF Grid
<1> HIDE DEF d, n, g
<1>3. n \in Int /\ (\A k \in Int : k <= n <=> k * d <= w.end - w.start)
  BY <1>1, WholeParts DEF n
<1>4. \A k \in Int : k * d \in Int /\ (k * d) % d = 0 /\ (k + 1) * d = k * d + d
  BY <1>1, WholeParts
<1>5. \A i \in 1..n : g[i] = [start |-> w.start + (i - 1) * d, end |-> w.start + (i - 1) * d + d]
  BY <1>2 DEF Slot
<1>6. \A i \in 1..n : g[i] \in Times
  <2> SUFFICES ASSUME NEW i \in 1..n
               PROVE  g[i] \in Times
    OBVIOUS
  <2>1. PICK a \in Int : a = (i - 1) * d
    BY <1>3, <1>4
  <2>2. g[i] = [start |-> w.start + a, end |-> w.start + a + d]
    BY <1>5, <2>1
  <2> QED
    BY <1>1, <2>2 DEF Times
<1>7. g \in Seq(Times) /\ DOMAIN g = 1..n
  <2>1. PICK m \in Nat : 1..n = 1..m
    <3>1. CASE n \in Nat
      BY <3>1
    <3>2. CASE n \notin Nat
      <4>1. 1..n = 1..0
        BY <1>3, <3>2
      <4> QED
        BY <4>1
    <3> QED
      BY <3>1, <3>2
  <2>2. g \in [1..m -> Times]
    BY <1>2, <1>6, <2>1
  <2> QED
    BY <1>2, <2>1, <2>2, SeqDef
<1>8. ASSUME NEW i \in 1..n
      PROVE  /\ g[i] \in OnGrid(q, w)
             /\ w.start <= g[i].start /\ g[i].end <= w.end
  <2>1. PICK k \in Nat : k = i - 1
    BY <1>3
  <2>2. PICK t \in Int : t = w.start + k * d
    BY <1>1, <1>4
  <2>3. k * d \in Int /\ 0 <= k * d /\ (k + 1) * d = k * d + d /\ (k * d) % d = 0
    BY <1>1, <1>4
  <2>4. k + 1 <= n
    BY <1>3, <2>1
  <2>5. (k + 1) * d <= w.end - w.start
    BY <1>3, <2>4
  <2>6. t \in w.start..w.end /\ t + d <= w.end /\ t - w.start = k * d
    BY <1>1, <2>2, <2>3, <2>5
  <2>7. g[i] = [start |-> t, end |-> t + d]
    BY <1>5, <2>1, <2>2
  <2>8. g[i].start = t /\ g[i].end = t + d
    BY <2>7
  <2>9. g[i] = Slot(t, d) /\ Fits(q, g[i], w)
    BY <2>3, <2>6, <2>7, <2>8 DEF Slot, Fits, d
  <2> QED
    BY <1>1, <2>6, <2>8, <2>9 DEF OnGrid, d
<1>9. ASSUME NEW slot \in OnGrid(q, w)
      PROVE  \E i \in 1..n : slot = g[i]
  <2>1. PICK t \in w.start..w.end : slot = Slot(t, d) /\ Fits(q, slot, w)
    BY DEF OnGrid, d
  <2>2. slot.start = t /\ slot.end = t + d
    BY <2>1 DEF Slot
  <2>3. t \in Int /\ t + d <= w.end /\ w.start <= t /\ (t - w.start) % d = 0
    BY <1>1, <2>1, <2>2 DEF Fits, d
  <2>10. PICK a \in Nat : a = t - w.start
    BY <1>1, <2>3
  <2>4. PICK k \in Int : k = a \div d
    BY <1>1, <2>10, WholeParts
  <2>5. t - w.start = k * d
    <3>1. a % d = 0
      BY <2>3, <2>10
    <3>2. a = (a \div d) * d
      BY <1>1, <3>1, WholeParts
    <3> QED
      BY <2>4, <2>10, <3>2
  <2>6. 0 <= k
    <3>1. 0 * d <= a
      BY <1>1
    <3> QED
      BY <1>1, <2>4, <3>1, WholeParts
  <2>7. k + 1 <= n
    <3>1. (k + 1) * d = k * d + d /\ k * d \in Int
      BY <1>4
    <3>2. (k + 1) * d <= w.end - w.start
      BY <1>1, <2>3, <2>5, <3>1
    <3> QED
      BY <1>3, <3>2
  <2>8. PICK i \in 1..n : i - 1 = k
    <3>1. k + 1 \in 1..n /\ k + 1 - 1 = k
      BY <1>3, <2>6, <2>7
    <3> QED
      BY <3>1
  <2>9. t = w.start + (i - 1) * d
    BY <1>1, <1>4, <2>3, <2>5, <2>8
  <2> QED
    BY <1>5, <2>1, <2>9 DEF Slot
<1>10. Range(g) = OnGrid(q, w)
  BY <1>7, <1>8, <1>9 DEF Range
<1>11. Follows(g, Ascending)
  <2> SUFFICES ASSUME NEW i \in 1..n, NEW j \in 1..n, i < j
               PROVE  <<g[i], g[j]>> \in Ascending
    BY <1>7 DEF Follows
  <2>1. i * d <= (j - 1) * d /\ i * d \in Int /\ (j - 1) * d \in Int /\ (i - 1) * d \in Int
    <3>1. i \in Int /\ j - 1 \in Int /\ i <= j - 1 /\ i - 1 \in Int
      BY <1>3
    <3>2. \A k, l \in Int : k <= l => k * d <= l * d
      BY <1>1
    <3> QED
      BY <1>4, <3>1, <3>2
  <2>2. i * d = (i - 1) * d + d
    BY <1>1, <1>3
  <2>3. g[i].end <= g[j].start
    <3>1. PICK a \in Int, b \in Int : a = (i - 1) * d /\ b = (j - 1) * d
      BY <2>1
    <3>4. /\ g[i] = [start |-> w.start + a, end |-> w.start + a + d]
          /\ g[j] = [start |-> w.start + b, end |-> w.start + b + d]
      BY <1>5, <3>1
    <3>2. g[i].end = w.start + a + d /\ g[j].start = w.start + b
      BY <3>4
    <3>3. a + d <= b
      BY <2>1, <2>2, <3>1
    <3> QED
      BY <1>1, <3>2, <3>3
  <2> QED
    BY <1>6, <2>3 DEF Ascending, Apart
<1>12. \A slot \in Range(g) : w.start <= slot.start /\ slot.end <= w.end
  BY <1>7, <1>8 DEF Range
<1> QED
  BY <1>7, <1>10, <1>11, <1>12 DEF g

\* Not overlapping is being out of reach.
LEMMA FreeIsUndisturbed ==
  ASSUME NEW q \in ScheduleStates, NEW slot \in Times
  PROVE  Free(q, slot) <=> slot.start >= q.now /\ Undisturbed(q, slot)
<1>1. ASSUME NEW occ \in q.occupied
      PROVE  ~Overlaps(slot, occ) <=> \/ slot.end + Buffer + occ.band <= occ.start
                                      \/ slot.start >= occ.end + Buffer + occ.band
  <2>1. /\ occ.start \in Int /\ occ.end \in Int /\ occ.band \in Int
        /\ slot.start \in Int /\ slot.end \in Int /\ Buffer \in Int
    BY OccupanciesAreTimes, BufferIsTime DEF ScheduleStates, Times
  <2> QED
    BY <2>1 DEF Overlaps, Pad
<1> QED
  BY <1>1 DEF Free, Undisturbed

\* The slots of all openings, before any is taken.
AllSlots(q) == FlattenSeq([i \in DOMAIN Openings(q) |-> Grid(q, Openings(q)[i])])

\* The openings cut up are the whole grid, in the order of the windows.
LEMMA AllSlotsAreTheGrid ==
  ASSUME NEW q \in ScheduleStates
  PROVE  /\ AllSlots(q) \in Seq(Times)
         /\ Range(AllSlots(q)) =
              UNION {OnGrid(q, w) : w \in OpenTimes(q, FirstDay(q), LastDay(q))}
         /\ WindowsAscend(q) => Follows(AllSlots(q), Ascending)
<1> DEFINE o == Openings(q)
           s == [i \in DOMAIN o |-> Grid(q, o[i])]
           O == OpenTimes(q, FirstDay(q), LastDay(q))
<1>1. o \in Seq(Times) /\ Range(o) = O
  BY OpeningsAreOpenTimes
<1>2. AllSlots(q) = FlattenSeq(s)
  BY DEF AllSlots
<1>3. WindowsAscend(q) <=> \A i, j \in DOMAIN o : i < j => Apart(o[i], o[j])
  BY DEF WindowsAscend
<1> HIDE DEF o, O
<1>4. Len(o) \in Nat /\ DOMAIN o = 1..Len(o) /\ \A i \in 1..Len(o) : o[i] \in Times
  BY <1>1, LenProperties, ElementOfSeq
<1>5. s \in Seq(Seq(Times)) /\ Len(s) = Len(o)
  <2>1. \A i \in 1..Len(o) : Grid(q, o[i]) \in Seq(Times)
    BY <1>4, GridFits
  <2>2. s \in [1..Len(o) -> Seq(Times)]
    BY <1>4, <2>1
  <2> HIDE DEF s
  <2> QED
    BY <1>4, <2>2, SeqDef
<1>6. \A i \in 1..Len(o) : s[i] = Grid(q, o[i])
  BY <1>4
<1> HIDE DEF s
<1>7. FlattenSeq(s) \in Seq(Times) /\ Range(FlattenSeq(s)) = Elements(s, Len(o))
  BY <1>5, FlattenElements
<1>8. Elements(s, Len(o)) = UNION {OnGrid(q, w) : w \in O}
  <2>1. Elements(s, Len(o)) = UNION {Range(Grid(q, o[i])) : i \in 1..Len(o)}
    BY <1>6 DEF Elements
  <2>2. \A i \in 1..Len(o) : Range(Grid(q, o[i])) = OnGrid(q, o[i])
    BY <1>4, GridFits
  <2>3. O = {o[i] : i \in 1..Len(o)}
    BY <1>1, <1>4 DEF Range
  <2> QED
    BY <2>1, <2>2, <2>3
<1>9. ASSUME WindowsAscend(q)
      PROVE  Follows(FlattenSeq(s), Ascending)
  <2>1. \A i \in 1..Len(s) : Follows(s[i], Ascending)
    BY <1>4, <1>5, <1>6, GridFits
  <2>2. \A i, j \in 1..Len(s) : i < j => Precedes(s[i], s[j], Ascending)
    <3> SUFFICES ASSUME NEW i \in 1..Len(o), NEW j \in 1..Len(o), i < j,
                        NEW x \in Range(s[i]), NEW y \in Range(s[j])
                 PROVE  <<x, y>> \in Ascending
      BY <1>5 DEF Precedes
    <3>1. x \in Range(Grid(q, o[i])) /\ y \in Range(Grid(q, o[j]))
      BY <1>6
    <3>2. /\ x.end <= o[i].end /\ o[j].start <= y.start
      BY <1>4, <3>1, GridFits
    <3>3. x \in Times /\ y \in Times
      <4>1. Grid(q, o[i]) \in Seq(Times) /\ Grid(q, o[j]) \in Seq(Times)
        BY <1>4, GridFits
      <4> QED
        BY <3>1, <4>1, ElementOfSeq, LenProperties DEF Range
    <3>4. o[i].end <= o[j].start
      BY <1>3, <1>4, <1>9 DEF Apart
    <3>5. o[i] \in Times /\ o[j] \in Times
      BY <1>4
    <3>6. x.end <= y.start
      BY <3>2, <3>3, <3>4, <3>5 DEF Times
    <3> QED
      BY <3>3, <3>6 DEF Ascending, Apart
  <2> QED
    BY <1>5, <2>1, <2>2, FlattenFollows
<1> QED
  BY <1>2, <1>7, <1>8, <1>9, Zenon DEF O

\* What is computed is the free grid.
LEMMA SlotsOfSchedule ==
  ASSUME NEW q \in ScheduleStates
  PROVE  /\ ComputeSlots(q) \in Seq(Times)
         /\ Range(ComputeSlots(q)) = FreeGrid(q)
         /\ WindowsAscend(q) => Follows(ComputeSlots(q), Ascending)
<1> DEFINE s == AllSlots(q)
           T == {slot \in Times : Free(q, slot)}
           O == OpenTimes(q, FirstDay(q), LastDay(q))
<1>1. /\ s \in Seq(Times)
      /\ Range(s) = UNION {OnGrid(q, w) : w \in O}
      /\ WindowsAscend(q) => Follows(s, Ascending)
  BY AllSlotsAreTheGrid
<1>2. ComputeSlots(q) = Kept(s, LAMBDA slot : Free(q, slot))
  BY Zenon DEF ComputeSlots, AllSlots
<1> HIDE DEF s, O
<1>3. \A i \in DOMAIN s : s[i] \in Times
  BY <1>1, LenProperties, ElementOfSeq
<1>4. ComputeSlots(q) = Only(s, T)
  <2>1. [i \in DOMAIN s |-> IF Free(q, s[i]) THEN <<s[i]>> ELSE << >>]
          = [i \in DOMAIN s |-> IF s[i] \in T THEN <<s[i]>> ELSE << >>]
    BY <1>3
  <2> QED
    BY <1>2, <2>1, Zenon DEF Kept, Only
<1>5. Range(s) \cap T = FreeGrid(q)
  <2>1. Range(s) \subseteq Times
    BY <1>3 DEF Range
  <2>3. FreeGrid(q) = UNION { {slot \in OnGrid(q, w) :
                                 slot.start >= q.now /\ Undisturbed(q, slot)} : w \in O }
    <3>1. \A w \in O : {slot \in OnGrid(q, w) : slot.start >= q.now /\ Undisturbed(q, slot)}
             = {slot \in {Slot(t, q.duration) : t \in w.start..w.end} :
                Fits(q, slot, w) /\ slot.start >= q.now /\ Undisturbed(q, slot)}
      BY DEF OnGrid
    <3> QED
      BY <3>1 DEF FreeGrid, O
  <2>4. \A slot \in Range(s) : slot \in T <=> slot.start >= q.now /\ Undisturbed(q, slot)
    BY <2>1, FreeIsUndisturbed
  <2>5. Range(s) \cap T = {slot \in Range(s) : slot.start >= q.now /\ Undisturbed(q, slot)}
    BY <2>4
  <2> HIDE DEF T
  <2> QED
    BY <1>1, <2>3, <2>5
<1> HIDE DEF T
<1>6. Only(s, T) \in Seq(Times) /\ Range(Only(s, T)) = Range(s) \cap T
  BY <1>1, OnlyElements
<1>7. WindowsAscend(q) => Follows(Only(s, T), Ascending)
  BY <1>1, OnlyFollows
<1> QED
  BY <1>4, <1>5, <1>6, <1>7

\* The slots of a schedule are right, of any schedule question.
LEMMA ScheduleIsFreeGrid == QuestionsStay => SlotsAreTheFreeGrid
<1> SUFFICES ASSUME QuestionsStay, AboutSchedule
             PROVE  /\ Range(ComputeSlots(question)) = FreeGrid(question)
                    /\ WindowsAscend(question) =>
                         \A i, j \in DOMAIN ComputeSlots(question) :
                           i < j => Apart(ComputeSlots(question)[i], ComputeSlots(question)[j])
  BY Zenon DEF SlotsAreTheFreeGrid
<1>1. question \in ScheduleStates
  BY KindsOfQuestion
<1> QED
  BY <1>1, SlotsOfSchedule DEF Follows, Ascending

\* For the occupied times it is passed, computeSlots (slot-computation/src/index.ts)
\* answers with the whole free grid of the open hours and nothing else, the earliest
\* first unless windows cross: for any weekly rules, exceptions, query, duration and
\* buffer.  Which times a caller passes is not its business; those of the routes pass none.
THEOREM SlotsAreTheFreeGridAlways == OracleSpec => []SlotsAreTheFreeGrid
  BY ScheduleIsFreeGrid, QuestionsKeepTheirKind, PTL

\* A later look at the same schedule.
LEMMA LaterIsLess ==
  ASSUME NEW q \in ScheduleStates, NEW r \in ScheduleStates,
         r.duration = q.duration, r.weekly = q.weekly, r.exceptions = q.exceptions,
         q.now <= r.now, r.occupied = q.occupied, r.query = q.query,
         NEW slot \in FreeGrid(r), slot \notin FreeGrid(q)
  PROVE  \E w \in OpenTimes(q, LastDay(q) + 1, LastDay(r)) : Fits(q, slot, w)
<1>1. PICK w \in OpenTimes(r, FirstDay(r), LastDay(r)) :
              /\ slot \in {Slot(t, r.duration) : t \in w.start..w.end}
              /\ Fits(r, slot, w) /\ slot.start >= r.now /\ Undisturbed(r, slot)
  BY DEF FreeGrid
<1>2. slot \in {Slot(t, q.duration) : t \in w.start..w.end}
  BY <1>1
<1>3. Fits(q, slot, w)
  BY <1>1 DEF Fits
<1>4. PICK day \in FirstDay(r)..LastDay(r) : w \in {Opening(day, h) : h \in OpenHours(r, day)}
  BY <1>1 DEF OpenTimes
<1>5. OpenHours(r, day) = OpenHours(q, day)
  BY Zenon DEF OpenHours
<1>6. /\ FirstDay(q) \in Int /\ LastDay(q) \in Int /\ FirstDay(r) \in Int /\ LastDay(r) \in Int
      /\ q.now \in Nat /\ r.now \in Nat
  BY DaysCount
<1>7. FirstDay(q) <= FirstDay(r)
  <2>1. \A d \in Nat \ {0}, a \in Int, b \in Int : a <= b => a \div d <= b \div d
    OBVIOUS
  <2>2. q.query.from \in Int
    BY QueriesAreTimes DEF ScheduleStates
  <2>3. FromOf(q) \in Int /\ FromOf(r) \in Int /\ FromOf(q) <= FromOf(r)
    BY <1>6, <2>2 DEF FromOf
  <2> QED
    BY <2>1, <2>3, DaysAreDays DEF FirstDay
<1>8. day \notin FirstDay(q)..LastDay(q)
  <2> SUFFICES ASSUME day \in FirstDay(q)..LastDay(q)
               PROVE  slot \in FreeGrid(q)
    OBVIOUS
  <2>1. w \in OpenTimes(q, FirstDay(q), LastDay(q))
    BY <1>4, <1>5 DEF OpenTimes
  <2>2. slot.start \in Int
    <3>1. PICK h \in OpenHours(q, day) : w = Opening(day, h)
      BY <1>4, <1>5
    <3>2. PICK t \in w.start..w.end : slot = Slot(t, q.duration)
      BY <1>2
    <3>3. t \in Int /\ slot.start = t
      BY <3>2 DEF Slot
    <3> QED
      BY <3>3
  <2>3. slot.start >= q.now
    BY <1>1, <1>6, <2>2
  <2>4. Undisturbed(q, slot)
    BY <1>1 DEF Undisturbed
  <2> QED
    BY <1>2, <1>3, <2>1, <2>3, <2>4 DEF FreeGrid
<1>9. day \in (LastDay(q) + 1)..LastDay(r)
  BY <1>6, <1>7, <1>8
<1> QED
  BY <1>3, <1>4, <1>5, <1>9 DEF OpenTimes

\* A slot that computeSlots does not answer with is not there later either, to the same
\* query of the same schedule, but for the days that come into view with the time
\* (slot-computation/src/index.ts).
THEOREM NoSlotEverComesBack == OracleSpec => NoSlotComesBack
<1>1. ASSUME QuestionsStay, ScheduleChanges
      PROVE  NoSlotComesBackStep
  <2> SUFFICES ASSUME AboutSchedule,
                      question' = [question EXCEPT !.now = question'.now],
                      NEW slot \in Range(ComputeSlots(question'))
                                     \ Range(ComputeSlots(question))
               PROVE  \E w \in OpenTimes(question, LastDay(question) + 1, LastDay(question')) :
                        Fits(question, slot, w)
    BY Zenon DEF NoSlotComesBackStep
  <2>1. question \in ScheduleStates
    BY <1>1, KindsOfQuestion
  <2>2. question' \in ScheduleStates /\ question.now <= question'.now
    BY <1>1, <2>1, ScheduleSteps
  <2>3. /\ question'.duration = question.duration
        /\ question'.weekly = question.weekly
        /\ question'.exceptions = question.exceptions
        /\ question'.occupied = question.occupied
        /\ question'.query = question.query
    <3>1. PICK n : question' = [question EXCEPT !.now = n]
      OBVIOUS
    <3> QED
      BY <2>1, <3>1 DEF ScheduleStates
  <2>4. slot \in FreeGrid(question') /\ slot \notin FreeGrid(question)
    BY <2>1, <2>2, SlotsOfSchedule
  <2> QED
    BY <2>1, <2>2, <2>3, <2>4, LaterIsLess
<1>2. ASSUME QuestionsStay, Advance
      PROVE  NoSlotComesBackStep
  <2>1. ~AboutSchedule
    <3>1. question \in Questions
      BY <1>2, KindsOfQuestion DEF Advance
    <3> QED
      BY <3>1 DEF Questions, AboutSchedule, About
  <2> QED
    BY <2>1 DEF NoSlotComesBackStep
<1>3. QuestionsStay /\ [OracleNext]_question => [NoSlotComesBackStep]_question
  BY <1>1, <1>2 DEF OracleNext
<1> QED
  BY <1>3, QuestionsStayThemselves, PTL DEF OracleSpec, NoSlotComesBack

---------------------------------------------------------------------------
(* The cards of a search.                                                  *)

\* The figures of a provider.
Figures(p) ==
    /\ p.id \in Int /\ p.km \in Nat /\ p.next \in Nat \cup {NoNumber}
    /\ p.sum \in Nat /\ p.count \in Nat /\ p.completions \in Completions

\* Cutting off a figure turns no order round.
LEMMA ClampGrows ==
  ASSUME NEW a \in Int, NEW b \in Int, a >= b
  PROVE  Clamp(a) >= Clamp(b) /\ Clamp(a) \in Nat /\ Clamp(b) \in Nat
BY DEF Clamp, Thousand

\* More completed bookings never count for less.
LEMMA CompletionsGrow ==
  ASSUME NEW a, NEW b, Figures(a), Figures(b), a.completions >= b.completions
  PROVE  /\ CompletionSignal(a) \in Int /\ CompletionSignal(b) \in Int
         /\ CompletionSignal(a) >= CompletionSignal(b)
<1>1. PICK m \in Completions, n \in Completions : m = a.completions /\ n = b.completions
  BY DEF Figures
<1>2. m \in Nat /\ n \in Nat /\ n <= m
  BY <1>1, WorthGrows
<1>3. /\ CompletionWorth[m] \in Nat /\ CompletionWorth[n] \in Nat
      /\ CompletionWorth[n] <= CompletionWorth[m]
  BY <1>2, WorthGrows
<1> QED
  BY <1>1, <1>3 DEF CompletionSignal

\* Reviews above the prior never count for less than it.
LEMMA RatingsGrow ==
  ASSUME NEW a, NEW b, Figures(a), Figures(b), a.count >= b.count,
         RatingAvg(a) >= (IF b.count < Threshold /\ a.count >= Threshold
                          THEN Prior ELSE RatingAvg(b))
  PROVE  /\ RatingSignal(a) \in Int /\ RatingSignal(b) \in Int
         /\ RatingSignal(a) >= RatingSignal(b)
<1> DEFINE avg(p) == IF p.count < Threshold THEN Prior ELSE RatingAvg(p)
           confidence(p) == Clamp((p.count * Thousand) \div Threshold)
<1>1. Threshold \in Nat \ {0}
  BY ThresholdIsPositive
<1>2. \A p : Figures(p) /\ p.count >= Threshold => RatingAvg(p) \in Nat
  <2> SUFFICES ASSUME NEW p, Figures(p), p.count >= Threshold
               PROVE  RatingAvg(p) \in Nat
    OBVIOUS
  <2>1. PICK d \in Nat \ {0}, x \in Nat : d = p.count /\ x = p.sum * 1000
    BY <1>1 DEF Figures
  <2>2. x \div d \in Nat
    BY <2>1
  <2> QED
    BY <2>1, <2>2 DEF RatingAvg, Thousand
<1>3. avg(a) \in Nat /\ avg(b) \in Nat /\ avg(a) >= avg(b)
  <2>1. a.count \in Nat /\ b.count \in Nat
    BY DEF Figures
  <2>2. CASE a.count < Threshold
    BY <1>1, <2>1, <2>2 DEF Prior
  <2>3. CASE ~(a.count < Threshold) /\ b.count < Threshold
    BY <1>1, <1>2, <2>1, <2>3 DEF Prior
  <2>4. CASE ~(b.count < Threshold)
    BY <1>1, <1>2, <2>1, <2>4 DEF Prior
  <2> QED
    BY <1>1, <2>1, <2>2, <2>3, <2>4
<1>4. confidence(a) \in Nat /\ confidence(b) \in Nat /\ confidence(a) >= confidence(b)
  <2>1. PICK x \in Nat, y \in Nat : x = a.count * 1000 /\ y = b.count * 1000 /\ x >= y
    BY DEF Figures
  <2>2. \A d \in Nat \ {0}, m \in Nat, n \in Nat : m >= n =>
          m \div d \in Int /\ n \div d \in Int /\ m \div d >= n \div d
    OBVIOUS
  <2>3. x \div Threshold \in Int /\ y \div Threshold \in Int
        /\ x \div Threshold >= y \div Threshold
    BY <1>1, <2>1, <2>2
  <2> QED
    BY <2>1, <2>3, ClampGrows DEF Thousand
<1>5. /\ RatingSignal(a) = ((avg(a) \div 5) * (1000 + confidence(a))) \div 2000
      /\ RatingSignal(b) = ((avg(b) \div 5) * (1000 + confidence(b))) \div 2000
  BY DEF RatingSignal, Thousand
<1> HIDE DEF avg, confidence
<1>6. PICK u \in Nat, v \in Nat : u = avg(a) \div 5 /\ v = avg(b) \div 5 /\ u >= v
  BY <1>3
<1>7. PICK m \in Nat, n \in Nat : m = 1000 + confidence(a) /\ n = 1000 + confidence(b) /\ m >= n
  BY <1>4
<1>8. u * m >= v * n /\ u * m \in Nat /\ v * n \in Nat
  <2>1. u * m >= v * m
    BY <1>6
  <2>2. v * m >= v * n
    BY <1>7
  <2>3. u * m \in Nat /\ v * n \in Nat /\ v * m \in Nat
    OBVIOUS
  <2> QED
    BY <2>1, <2>2, <2>3
<1>9. PICK x \in Nat, y \in Nat : x = u * m /\ y = v * n /\ x >= y
  BY <1>8
<1>10. RatingSignal(a) = x \div 2000 /\ RatingSignal(b) = y \div 2000
  BY <1>5, <1>6, <1>7, <1>9
<1> QED
  BY <1>9, <1>10

\* Closer and sooner never count for less.
LEMMA NearAndSoonGrow ==
  ASSUME NEW a, NEW b, Figures(a), Figures(b), a.km <= b.km,
         b.next # NoNumber => (a.next # NoNumber /\ a.next <= b.next)
  PROVE  /\ Clamp(Thousand - (a.km * Thousand) \div 15) \in Nat
         /\ Clamp(Thousand - (b.km * Thousand) \div 15) \in Nat
         /\ Clamp(Thousand - (a.km * Thousand) \div 15)
              >= Clamp(Thousand - (b.km * Thousand) \div 15)
         /\ Clamp(Thousand - (HoursAhead(a) * Thousand) \div WeekHours) \in Nat
         /\ Clamp(Thousand - (HoursAhead(b) * Thousand) \div WeekHours) \in Nat
         /\ Clamp(Thousand - (HoursAhead(a) * Thousand) \div WeekHours)
              >= Clamp(Thousand - (HoursAhead(b) * Thousand) \div WeekHours)
<1>1. PICK k \in Nat, l \in Nat : k = a.km /\ l = b.km /\ k <= l
  BY DEF Figures
<1>2. 1000 - (k * 1000) \div 15 >= 1000 - (l * 1000) \div 15
  BY <1>1
<1>3. PICK h \in Nat, g \in Nat : h = HoursAhead(a) /\ g = HoursAhead(b)
  BY DEF HoursAhead, Figures, WeekHours
<1>4. h <= g \/ g = 168
  BY <1>3 DEF HoursAhead, Figures, WeekHours, NoNumber
<1>5. Clamp(1000 - (h * 1000) \div 168) >= Clamp(1000 - (g * 1000) \div 168)
  BY <1>3, <1>4 DEF Clamp, Thousand
<1> QED
  BY <1>1, <1>2, <1>3, <1>5, ClampGrows DEF Thousand, WeekHours

\* No better, no higher: the score respects every one of its signals.
LEMMA ScoreGrows ==
  ASSUME NEW a, NEW b, Figures(a), Figures(b), NoWorse(a, b)
  PROVE  Score(a) >= Score(b)
<1>1. /\ a.km <= b.km
      /\ b.next # NoNumber => (a.next # NoNumber /\ a.next <= b.next)
      /\ a.completions >= b.completions
      /\ a.count >= b.count
      /\ RatingAvg(a) >= (IF b.count < Threshold /\ a.count >= Threshold
                          THEN Prior ELSE RatingAvg(b))
  BY DEF NoWorse
<1> DEFINE near(p) == Clamp(Thousand - (p.km * Thousand) \div 15)
           soon(p) == Clamp(Thousand - (HoursAhead(p) * Thousand) \div WeekHours)
<1>2. /\ near(a) \in Nat /\ near(b) \in Nat /\ near(a) >= near(b)
      /\ soon(a) \in Nat /\ soon(b) \in Nat /\ soon(a) >= soon(b)
  BY <1>1, NearAndSoonGrow
<1>3. \A p : Score(p) = near(p) + soon(p) + RatingSignal(p) + CompletionSignal(p)
  BY DEF Score
<1>4. /\ RatingSignal(a) \in Int /\ RatingSignal(b) \in Int
      /\ RatingSignal(a) >= RatingSignal(b)
  BY <1>1, RatingsGrow
<1>5. /\ CompletionSignal(a) \in Int /\ CompletionSignal(b) \in Int
      /\ CompletionSignal(a) >= CompletionSignal(b)
  BY <1>1, CompletionsGrow
<1> HIDE DEF near, soon
<1> QED
  BY <1>2, <1>3, <1>4, <1>5

\* A score is a number, and so is a rating.
LEMMA ScoreType ==
  ASSUME NEW p, Figures(p)
  PROVE  Score(p) \in Int /\ RatingAvg(p) \in Int
<1>1. RatingAvg(p) \in Int
  <2>1. CASE p.count < 1
    BY <2>1 DEF RatingAvg, NoNumber
  <2>2. CASE ~(p.count < 1)
    <3>1. PICK d \in Nat \ {0}, x \in Nat : d = p.count /\ x = p.sum * 1000
      BY <2>2 DEF Figures
    <3>2. x \div d \in Nat
      BY <3>1
    <3> QED
      BY <2>2, <3>1, <3>2 DEF RatingAvg, Thousand
  <2> QED
    BY <2>1, <2>2
<1> DEFINE near == Clamp(Thousand - (p.km * Thousand) \div 15)
           soon == Clamp(Thousand - (HoursAhead(p) * Thousand) \div WeekHours)
<1>2. /\ p.km <= p.km /\ p.count >= p.count /\ p.completions >= p.completions
      /\ p.next # NoNumber => p.next <= p.next
  <2>1. p.completions \in Nat
    BY WorthGrows DEF Figures
  <2> QED
    BY <2>1 DEF Figures, NoNumber
<1>3. near \in Nat /\ soon \in Nat
  BY <1>2, NearAndSoonGrow
<1>4. RatingSignal(p) \in Int
  <2>1. RatingAvg(p) >= (IF p.count < Threshold /\ p.count >= Threshold
                         THEN Prior ELSE RatingAvg(p))
    BY <1>1, ThresholdIsPositive DEF Figures
  <2> QED
    BY <1>2, <2>1, RatingsGrow
<1>5. CompletionSignal(p) \in Int
  BY <1>2, CompletionsGrow
<1>6. Score(p) = near + soon + RatingSignal(p) + CompletionSignal(p)
  BY DEF Score
<1> HIDE DEF near, soon
<1> QED
  BY <1>1, <1>3, <1>4, <1>5, <1>6

\* Whom a search can be sorted among.
Sortable(S) == IsFiniteSet(S) /\ \A p \in S : Figures(p)

\* The rows in a radius can be sorted by distance, and are.
LEMMA SortedByNearness ==
  ASSUME NEW S, Sortable(S)
  PROVE  InOrder(S, Nearer) \in SetToSeqs(S)
<1> DEFINE R == {e \in S \X S : Nearer(e[1], e[2])}
<1>1. \A p \in S : p.id \in Int /\ p.km \in Int
  BY DEF Sortable, Figures
<1>2. \A a, b \in S : <<a, b>> \in R <=> Nearer(a, b)
  OBVIOUS
<1>3. Orders(R, S)
  <2>1. \A x \in S : ~Nearer(x, x)
    BY <1>1 DEF Nearer
  <2>2. \A x, y, z \in S : Nearer(x, y) /\ Nearer(y, z) => Nearer(x, z)
    BY <1>1 DEF Nearer
  <2> HIDE DEF R
  <2> QED
    BY <1>2, <2>1, <2>2 DEF Orders
<1> HIDE DEF R
<1>4. PICK s \in SetToSeqs(S) : InOrderOf(s, R)
  BY <1>3, OrderExists DEF Sortable
<1>5. \A i, j \in DOMAIN s : i < j => ~Nearer(s[j], s[i])
  <2>1. \A i \in DOMAIN s : s[i] \in S
    BY ListsOfSet, ElementOfSeq, LenProperties DEF Sortable
  <2> QED
    BY <1>2, <1>4, <2>1 DEF InOrderOf
<1> QED
  BY <1>4, <1>5 DEF InOrder

\* So can the cards by the default order.
LEMMA SortedByDistance ==
  ASSUME NEW S, Sortable(S)
  PROVE  InOrder(S, ByDistance) \in SetToSeqs(S)
<1> DEFINE R == {e \in S \X S : ByDistance(e[1], e[2])}
<1>1. \A p \in S : p.id \in Int /\ p.km \in Int /\ OrZero(RatingAvg(p)) \in Int
  BY ScoreType DEF Sortable, Figures, OrZero
<1>2. \A a, b \in S : <<a, b>> \in R <=> ByDistance(a, b)
  OBVIOUS
<1>3. Orders(R, S)
  <2>1. \A x \in S : ~ByDistance(x, x)
    BY <1>1 DEF ByDistance
  <2>2. \A x, y, z \in S : ByDistance(x, y) /\ ByDistance(y, z) => ByDistance(x, z)
    BY <1>1 DEF ByDistance
  <2> HIDE DEF R
  <2> QED
    BY <1>2, <2>1, <2>2 DEF Orders
<1> HIDE DEF R
<1>4. PICK s \in SetToSeqs(S) : InOrderOf(s, R)
  BY <1>3, OrderExists DEF Sortable
<1>5. \A i, j \in DOMAIN s : i < j => ~ByDistance(s[j], s[i])
  <2>1. \A i \in DOMAIN s : s[i] \in S
    BY ListsOfSet, ElementOfSeq, LenProperties DEF Sortable
  <2> QED
    BY <1>2, <1>4, <2>1 DEF InOrderOf
<1> QED
  BY <1>4, <1>5 DEF InOrder

\* And by their score, with none below one it beats.
LEMMA SortedByScore ==
  ASSUME NEW S, Sortable(S)
  PROVE  /\ InOrder(S, ByScore) \in SetToSeqs(S)
         /\ \A i, j \in DOMAIN InOrder(S, ByScore) :
              i < j => ~ByScore(InOrder(S, ByScore)[j], InOrder(S, ByScore)[i])
<1> DEFINE R == {e \in S \X S : ByScore(e[1], e[2])}
<1>1. \A p \in S : p.id \in Int /\ Score(p) \in Int
  BY ScoreType DEF Sortable, Figures
<1>2. \A a, b \in S : <<a, b>> \in R <=> ByScore(a, b)
  OBVIOUS
<1>3. Orders(R, S)
  <2>1. \A x \in S : ~ByScore(x, x)
    BY <1>1 DEF ByScore
  <2>2. \A x, y, z \in S : ByScore(x, y) /\ ByScore(y, z) => ByScore(x, z)
    BY <1>1 DEF ByScore
  <2> HIDE DEF R
  <2> QED
    BY <1>2, <2>1, <2>2 DEF Orders
<1> HIDE DEF R
<1>4. PICK s \in SetToSeqs(S) : InOrderOf(s, R)
  BY <1>3, OrderExists DEF Sortable
<1>5. \A i, j \in DOMAIN s : i < j => ~ByScore(s[j], s[i])
  <2>1. \A i \in DOMAIN s : s[i] \in S
    BY ListsOfSet, ElementOfSeq, LenProperties DEF Sortable
  <2> QED
    BY <1>2, <1>4, <2>1 DEF InOrderOf
<1> QED
  BY <1>4, <1>5 DEF InOrder

\* Whom a search comes down to.
Found(q) == {p \in q.rows : Reaches(p) /\ Matches(p, q.filters)}

\* Once each.
NoRepeat(s) == \A i, j \in DOMAIN s : i # j => s[i] # s[j]

\* Those in reach are listed once each, and the filters keep those that match.
LEMMA KeptInRadius ==
  ASSUME NEW q \in SearchQuestions
  PROVE  /\ Sortable(q.rows)
         /\ Range(ListInRadius(q.rows)) = {p \in q.rows : Reaches(p)}
         /\ ListInRadius(q.rows) \in Seq(q.rows)
         /\ Kept(ListInRadius(q.rows), LAMBDA p : Matches(p, q.filters)) \in Seq(q.rows)
         /\ Range(Kept(ListInRadius(q.rows), LAMBDA p : Matches(p, q.filters))) = Found(q)
         /\ NoRepeat(Kept(ListInRadius(q.rows), LAMBDA p : Matches(p, q.filters)))
<1> DEFINE rows == q.rows
           S == {p \in rows : Reaches(p)}
           s == ListInRadius(rows)
           M == {p \in rows : Matches(p, q.filters)}
           D == {e \in rows \X rows : e[1] # e[2]}
           kept == Kept(s, LAMBDA p : Matches(p, q.filters))
<1>1. rows \in Searches
  BY DEF SearchQuestions
<1> HIDE DEF rows
<1>2. Sortable(rows)
  BY <1>1, RowsAreProviders DEF Sortable, Figures
<1>3. Sortable(S)
  BY <1>2, FS_Subset DEF Sortable
<1>4. s \in SetToSeqs(S)
  BY <1>3, SortedByNearness DEF ListInRadius
<1> HIDE DEF s
<1>5. s \in Seq(S) /\ Range(s) = S /\ \A i, j \in DOMAIN s : i # j => s[i] # s[j]
  <2> HIDE DEF S
  <2> QED
    BY <1>3, <1>4, ListsOfSet DEF Sortable
<1>6. s \in Seq(rows)
  BY <1>5, SeqDef
<1>7. \A i \in DOMAIN s : s[i] \in rows
  BY <1>6, LenProperties, ElementOfSeq
<1>8. kept = Only(s, M)
  <2>1. [i \in DOMAIN s |-> IF Matches(s[i], q.filters) THEN <<s[i]>> ELSE << >>]
          = [i \in DOMAIN s |-> IF s[i] \in M THEN <<s[i]>> ELSE << >>]
    BY <1>7
  <2> QED
    BY <2>1, Zenon DEF Kept, Only
<1>9. Follows(s, D)
  <2> SUFFICES ASSUME NEW i \in DOMAIN s, NEW j \in DOMAIN s, i < j
               PROVE  <<s[i], s[j]>> \in D
    BY DEF Follows
  <2>1. i \in Int /\ j \in Int
    BY <1>6, LenProperties
  <2>2. s[i] # s[j]
    BY <1>5, <2>1
  <2> QED
    BY <1>7, <2>2
<1> DEFINE o == Only(s, M)
<1>10. o \in Seq(rows) /\ Range(o) = S \cap M
  <2> HIDE DEF S, M
  <2> QED
    BY <1>5, <1>6, OnlyElements
<1>11. Follows(o, D)
  <2> HIDE DEF M, D
  <2> QED
    BY <1>6, <1>9, OnlyFollows
<1> HIDE DEF o, kept
<1>12. NoRepeat(o)
  <2> SUFFICES ASSUME NEW i \in DOMAIN o, NEW j \in DOMAIN o, i # j
               PROVE  o[i] # o[j]
    BY DEF NoRepeat
  <2>1. i < j \/ j < i
    BY <1>10, LenProperties
  <2>2. <<o[i], o[j]>> \in D \/ <<o[j], o[i]>> \in D
    <3> HIDE DEF D
    <3> QED
      BY <1>11, <2>1 DEF Follows
  <2> QED
    BY <2>2
<1>13. S \cap M = Found(q)
  BY DEF Found, rows
<1>14. kept = o
  BY <1>8 DEF o
<1>15. NoRepeat(kept) /\ kept \in Seq(rows) /\ Range(kept) = Found(q)
  BY <1>10, <1>12, <1>13, <1>14
<1> QED
  BY <1>2, <1>5, <1>6, <1>15, Zenon DEF rows, kept, s

\* Whatever the ranker does, everyone found has one card.
LEMMA CardsOfSearch ==
  ASSUME NEW q \in SearchQuestions
  PROVE  /\ Cards(q) \in Seq(q.rows)
         /\ Range(Cards(q)) = Found(q)
         /\ NoRepeat(Cards(q))
         /\ q.ranker = "deterministic" =>
              \A i, j \in DOMAIN Cards(q) : i < j => ~ByScore(Cards(q)[j], Cards(q)[i])
<1> DEFINE kept == Kept(ListInRadius(q.rows), LAMBDA p : Matches(p, q.filters))
           K == Range(kept)
<1>1. /\ Sortable(q.rows)
      /\ kept \in Seq(q.rows) /\ K = Found(q) /\ NoRepeat(kept)
  BY KeptInRadius
<1>2. q.ranker \in {"deterministic", "stub", "late"}
  BY DEF SearchQuestions
<1>3. /\ q.ranker = "deterministic" => Cards(q) = InOrder(K, ByScore)
      /\ q.ranker = "stub" => Cards(q) = Reverse(kept)
      /\ q.ranker = "late" => Cards(q) = InOrder(K, ByDistance)
  <2> HIDE DEF kept
  <2>1. Cards(q) = CASE q.ranker = "deterministic" -> InOrder(K, ByScore)
                     [] q.ranker = "stub" -> Reverse(kept)
                     [] OTHER -> InOrder(K, ByDistance)
    BY Zenon DEF Cards, kept
  <2> DEFINE x == InOrder(K, ByScore)
             y == Reverse(kept)
             z == InOrder(K, ByDistance)
  <2>2. Cards(q) = CASE q.ranker = "deterministic" -> x
                     [] q.ranker = "stub" -> y
                     [] OTHER -> z
    BY <2>1
  <2> HIDE DEF x, y, z
  <2>3. /\ q.ranker = "deterministic" => Cards(q) = x
        /\ q.ranker = "stub" => Cards(q) = y
        /\ q.ranker = "late" => Cards(q) = z
    BY <2>2
  <2> QED
    BY <2>3, Zenon DEF x, y, z
<1> HIDE DEF kept
<1>4. Sortable(K) /\ K \subseteq q.rows
  <2>1. K \subseteq q.rows
    BY <1>1 DEF Found
  <2> QED
    BY <1>1, <2>1, FS_Subset DEF Sortable
<1> HIDE DEF K
<1>5. ASSUME NEW s \in SetToSeqs(K)
      PROVE  s \in Seq(q.rows) /\ Range(s) = K /\ NoRepeat(s)
  <2>1. s \in Seq(K) /\ Range(s) = K /\ \A i, j \in DOMAIN s : i # j => s[i] # s[j]
    BY <1>4, ListsOfSet DEF Sortable
  <2>2. s \in Seq(q.rows)
    BY <1>4, <2>1, SeqDef
  <2> QED
    BY <2>1, <2>2 DEF NoRepeat
<1>6. CASE q.ranker = "deterministic"
  <2>1. PICK s \in SetToSeqs(K) : /\ s = Cards(q)
                                  /\ \A i, j \in DOMAIN s : i < j => ~ByScore(s[j], s[i])
    BY <1>3, <1>4, <1>6, SortedByScore
  <2> QED
    BY <1>1, <1>5, <2>1 DEF K
<1>7. CASE q.ranker = "stub"
  <2>1. Cards(q) = Reverse(kept)
    BY <1>3, <1>7
  <2>2. /\ Reverse(kept) \in Seq(q.rows) /\ Range(Reverse(kept)) = K
        /\ NoRepeat(Reverse(kept))
    BY <1>1, ReverseElements DEF NoRepeat, K
  <2> QED
    BY <1>1, <1>7, <2>1, <2>2
<1>8. CASE q.ranker = "late"
  <2>1. PICK s \in SetToSeqs(K) : s = Cards(q)
    BY <1>3, <1>4, <1>8, SortedByDistance
  <2> QED
    BY <1>1, <1>5, <1>8, <2>1 DEF K
<1> QED
  BY <1>2, <1>6, <1>7, <1>8

\* What is shown of a search is right, of any search question.
LEMMA SearchFollowsMerit == QuestionsStay => CardsFollowMerit
<1> DEFINE q == question
           cards == Cards(q)
<1> SUFFICES ASSUME QuestionsStay, AboutSearch
             PROVE  /\ Range(cards) = {p \in q.rows : Reaches(p) /\ Matches(p, q.filters)}
                    /\ StateOf(q) = "ok" <=> cards # << >>
                    /\ StateOf(q) = "out_of_area" <=> \A p \in q.rows : ~Reaches(p)
                    /\ Len(cards) = Cardinality(Range(cards))
                    /\ q.ranker = "deterministic" =>
                         \A i, j \in DOMAIN cards :
                           i < j /\ NoWorse(cards[j], cards[i]) =>
                             Score(cards[i]) = Score(cards[j])
  BY Zenon DEF CardsFollowMerit
<1>1. q \in SearchQuestions
  BY KindsOfQuestion
<1>2. /\ cards \in Seq(q.rows) /\ Range(cards) = Found(q) /\ NoRepeat(cards)
      /\ q.ranker = "deterministic" =>
           \A i, j \in DOMAIN cards : i < j => ~ByScore(cards[j], cards[i])
  BY <1>1, CardsOfSearch
<1>3. Sortable(q.rows)
  BY <1>1, KeptInRadius
<1>4. /\ ListInRadius(q.rows) \in Seq(q.rows)
      /\ Range(ListInRadius(q.rows)) = {p \in q.rows : Reaches(p)}
  BY <1>1, KeptInRadius
<1>5. StateOf(q) = IF ListInRadius(q.rows) = << >> THEN "out_of_area"
                   ELSE IF cards = << >> THEN "no_matches" ELSE "ok"
  BY DEF StateOf
<1> HIDE DEF cards, q
<1>6. (ListInRadius(q.rows) = << >> <=> \A p \in q.rows : ~Reaches(p))
      /\ (cards = << >> <=> Found(q) = {})
  BY <1>2, <1>4, EmptyList
<1>7. (\A p \in q.rows : ~Reaches(p)) => Found(q) = {}
  BY DEF Found
<1>8. Len(cards) = Cardinality(Range(cards))
  <2>1. \A i, j \in DOMAIN cards : i < j => cards[i] # cards[j]
    <3> SUFFICES ASSUME NEW i \in DOMAIN cards, NEW j \in DOMAIN cards, i < j
                 PROVE  cards[i] # cards[j]
      OBVIOUS
    <3>1. i # j
      BY <1>2, LenProperties
    <3> QED
      BY <1>2, <3>1 DEF NoRepeat
  <2> QED
    BY <1>2, <2>1, ListCounts
<1>9. ASSUME q.ranker = "deterministic",
             NEW i \in DOMAIN cards, NEW j \in DOMAIN cards, i < j,
             NoWorse(cards[j], cards[i])
      PROVE  Score(cards[i]) = Score(cards[j])
  <2>1. Figures(cards[i]) /\ Figures(cards[j])
    BY <1>2, <1>3, ElementOfSeq, LenProperties DEF Sortable
  <2>2. Score(cards[j]) >= Score(cards[i])
    BY <1>9, <2>1, ScoreGrows
  <2>3. ~(Score(cards[j]) > Score(cards[i]))
    BY <1>2, <1>9 DEF ByScore
  <2> QED
    BY <2>1, <2>2, <2>3, ScoreType
<1> QED
  BY <1>2, <1>5, <1>6, <1>7, <1>8, <1>9 DEF Found

\* composeDiscovery (apps/api/src/discovery.ts) shows everyone who comes and matches
\* once, says why there is nobody, and ranks nobody below one that is worse in
\* everything: for any number of providers, any figures and any threshold.
THEOREM CardsAlwaysFollowMerit == OracleSpec => []CardsFollowMerit
  BY SearchFollowsMerit, QuestionsKeepTheirKind, PTL

---------------------------------------------------------------------------
(* Vetting, going live and reviews (Catalog).                              *)

Row == [status : Statuses, listed : BOOLEAN, sum : Nat, count : Nat]

\* The calls there can be, each with the row it has read.
Submission == [op : {"submit"}, arg : {"none"}, pc : {"check", "write"}, row : Row]
Decision == [op : {"decide"}, arg : Decisions, pc : {"write"}, row : Row]
GoingLive ==
    [ op : {"goLive"}, pc : {"connect", "services", "weekly", "write"},
      want : {"look", "on", "off"}, ready : BOOLEAN, listed : BOOLEAN ]
Reviewing ==
    [ op : {"review"}, arg : [booking : Bookings, rating : Ratings], pc : {"write"}, row : Row ]
Call == {NoCall} \cup Submission \cup Decision \cup GoingLive \cup Reviewing

Types == TypeOK /\ call \in [Calls -> Call]

\* What a provider's status and listing say of its papers.
RowVetted ==
    /\ row.status # "draft" => PacketComplete
    /\ row.status = "approved" => announced
    /\ row.listed => services \/ relisted

\* What a call that is about to write has seen, which cannot be undone: papers
\* and services are only ever added.
CallVetted(c) ==
    /\ call[c].op = "submit" =>
         /\ MaySubmit(call[c].row.status)
         /\ call[c].pc = "write" => PacketComplete
    /\ call[c].op = "decide" =>
         /\ NextStatus(call[c].row.status, call[c].arg) # {}
         /\ PacketComplete
    /\ call[c].op = "goLive" =>
         /\ call[c].pc = "weekly" /\ call[c].ready => services
         /\ call[c].pc = "write" /\ call[c].want = "on" => services

VettingInv == Types /\ RowVetted /\ \A c \in Calls : CallVetted(c)

\* What is decided on a status is a status, and never the first one's papers
\* missing.
LEMMA Decided ==
    ASSUME NEW s \in Statuses, NEW a \in Decisions
    PROVE  /\ NextStatus(s, a) \subseteq Statuses
           /\ \A n \in NextStatus(s, a) : n = "approved" => a = "approve"
           /\ \A n \in NextStatus(s, a) : <<s, n>> \in Flow
           /\ NextStatus(s, a) # {} => s # "draft"
  BY DEF NextStatus, Statuses, Decisions, InReview, Flow

\* Before the first call nothing is on file.
LEMMA InitInv == Init => VettingInv
  <1> SUFFICES ASSUME Init PROVE VettingInv
    OBVIOUS
  <1>1. row = [status |-> "draft", listed |-> FALSE, sum |-> 0, count |-> 0] /\ row \in Row
    BY DEF Init, Row, Statuses
  <1>2. \A c \in Calls : call[c] = NoCall /\ call[c].op = "none"
    BY DEF Init, NoCall
  <1>3. docs \in [DocKinds -> 0..PortfolioMin]
    BY PacketNeedsPhotographs DEF Init
  <1>4. Types
    BY <1>1, <1>3 DEF Init, Types, TypeOK, Row, Call
  <1> QED
    BY <1>1, <1>2, <1>4 DEF VettingInv, RowVetted, CallVetted

\* A call that ends, or goes on, leaves the others where they are.
LEMMA Ends ==
    ASSUME Types, NEW c \in Calls, Over(c)
    PROVE  /\ call' \in [Calls -> Call] /\ call'[c] = NoCall /\ call'[c].op = "none"
           /\ \A d \in Calls \ {c} : call'[d] = call[d]
  BY DEF Types, Over, Call, NoCall

\* A call that has read the row.
LEMMA Began ==
    ASSUME Types, NEW c \in Calls, NEW new \in Call, Begins(c, new)
    PROVE  /\ call' \in [Calls -> Call] /\ call'[c] = new
           /\ \A d \in Calls \ {c} : call'[d] = call[d]
           /\ UNCHANGED <<row, docs, services, weekly, connect, reviews, replied, announced, relisted>>
  BY DEF Types, Begins

\* What a call has seen of the papers stays true while papers are only added.
LEMMA StaysVetted ==
    ASSUME VettingInv, NEW d \in Calls, call'[d] = call[d],
           PacketComplete => PacketComplete', services => services'
    PROVE  CallVetted(d)'
  BY DEF VettingInv, CallVetted, MaySubmit, NextStatus

\* A step of one call that writes nothing.
LEMMA ReadingStep ==
    ASSUME VettingInv, NEW c \in Calls, call' \in [Calls -> Call],
           \A d \in Calls \ {c} : call'[d] = call[d], CallVetted(c)',
           UNCHANGED <<row, docs, services, weekly, connect, reviews, replied, announced, relisted>>
    PROVE  VettingInv'
  <1>1. Types'
    BY DEF VettingInv, Types, TypeOK
  <1>2. PacketComplete' = PacketComplete
    BY DEF PacketComplete
  <1>3. RowVetted'
    BY <1>2 DEF VettingInv, RowVetted
  <1>4. \A d \in Calls : CallVetted(d)'
    BY <1>2, StaysVetted
  <1> QED
    BY <1>1, <1>3, <1>4 DEF VettingInv

\* A call that begins, looks, or dies.
LEMMA ReadingKeepsInv ==
    ASSUME VettingInv, NEW c \in Calls,
           \/ Submit(c) \/ CheckPacket(c)
           \/ \E action \in Decisions : Decide(c, action)
           \/ \E want \in {"look", "on", "off"} : GoLive(c, want)
           \/ ReadConnect(c) \/ ReadServices(c) \/ EvaluateGoLive(c)
           \/ \E b \in Bookings, rating \in Ratings : Review(c, b, rating)
           \/ Crash(c)
    PROVE  VettingInv'
  <1>t. Types /\ row \in Row /\ row.status \in Statuses /\ call[c] \in Call
    BY DEF VettingInv, Types, TypeOK, Row
  <1>1. CASE Submit(c)
    <2>1. MaySubmit(row.status) /\ Reads(c, "submit", "none", "check")
      BY <1>1 DEF Submit
    <2>2. [op |-> "submit", arg |-> "none", pc |-> "check", row |-> row] \in Call
      BY <1>t DEF Call, Submission
    <2>3. CallVetted(c)'
      BY <1>t, <2>1, <2>2, Began DEF Reads, CallVetted, MaySubmit
    <2> QED
      BY <1>t, <2>1, <2>2, <2>3, Began, ReadingStep DEF Reads
  <1>2. CASE CheckPacket(c)
    <2>1. call[c].op = "submit" /\ call[c].pc = "check" /\ call[c] \in Submission
      BY <1>2, <1>t DEF CheckPacket, At, Call, Decision, GoingLive, Reviewing, Submission, NoCall
    <2>2. UNCHANGED <<row, docs, services, weekly, connect, reviews, replied, announced, relisted>>
      BY <1>2 DEF CheckPacket
    <2>3. CASE PacketComplete
      <3>1. call' = [call EXCEPT ![c] = [call[c] EXCEPT !.pc = "write"]]
        BY <1>2, <2>3 DEF CheckPacket
      <3>2. [call[c] EXCEPT !.pc = "write"] \in Submission
        BY <2>1 DEF Submission
      <3>3. /\ call' \in [Calls -> Call] /\ call'[c] = [call[c] EXCEPT !.pc = "write"]
            /\ \A d \in Calls \ {c} : call'[d] = call[d]
        BY <1>t, <3>1, <3>2 DEF Types, Call
      <3>4. call'[c].op = "submit" /\ call'[c].row = call[c].row
        BY <2>1, <3>3 DEF Submission
      <3>5. MaySubmit(call[c].row.status)
        BY <2>1 DEF VettingInv, CallVetted
      <3>6. CallVetted(c)'
        BY <2>2, <2>3, <3>4, <3>5 DEF CallVetted, PacketComplete, MaySubmit
      <3> QED
        BY <2>2, <3>3, <3>6, ReadingStep
    <2>4. CASE ~PacketComplete
      <3>1. Over(c)
        BY <1>2, <2>4 DEF CheckPacket
      <3> QED
        BY <1>t, <2>2, <3>1, Ends, ReadingStep DEF CallVetted
    <2> QED
      BY <2>3, <2>4
  <1>3. CASE \E action \in Decisions : Decide(c, action)
    <2>1. PICK action \in Decisions : Decide(c, action)
      BY <1>3
    <2>2. NextStatus(row.status, action) # {} /\ Reads(c, "decide", action, "write")
      BY <2>1 DEF Decide
    <2>3. [op |-> "decide", arg |-> action, pc |-> "write", row |-> row] \in Call
      BY <1>t DEF Call, Decision
    <2>4. PacketComplete
      BY <1>t, <2>2, Decided DEF VettingInv, RowVetted
    <2>5. /\ call'[c].op = "decide" /\ call'[c].arg = action /\ call'[c].row = row
          /\ call'[c].pc = "write"
      BY <1>t, <2>2, <2>3, Began DEF Reads
    <2>6. UNCHANGED <<row, docs, services, weekly, connect, reviews, replied, announced, relisted>>
      BY <1>t, <2>2, <2>3, Began DEF Reads
    <2>7. CallVetted(c)'
      BY <2>2, <2>4, <2>5, <2>6 DEF CallVetted, PacketComplete, NextStatus, InReview
    <2> QED
      BY <1>t, <2>2, <2>3, <2>6, <2>7, Began, ReadingStep DEF Reads
  <1>4. CASE \E want \in {"look", "on", "off"} : GoLive(c, want)
    <2>1. PICK want \in {"look", "on", "off"} : GoLive(c, want)
      BY <1>4
    <2> DEFINE new == [op |-> "goLive", pc |-> "connect", want |-> want,
                       ready |-> row.status = "approved", listed |-> row.listed]
    <2>2. new \in Call /\ Begins(c, new)
      BY <1>t, <2>1 DEF GoLive, Call, GoingLive, Row
    <2>3. CallVetted(c)'
      BY <1>t, <2>2, Began DEF CallVetted
    <2> QED
      BY <1>t, <2>2, <2>3, Began, ReadingStep
  <1>5. CASE ReadConnect(c) \/ ReadServices(c)
    <2>1. PICK part \in {"connect", "services"}, next \in {"services", "weekly"}, read \in BOOLEAN :
             /\ ReadsPart(c, part, read, next)
             /\ part = "connect" <=> next = "services"
             /\ part = "services" => read = services
      BY <1>5, <1>t DEF ReadConnect, ReadServices, Types, TypeOK
    <2>2. call[c].op = "goLive" /\ call[c].pc = part /\ call[c] \in GoingLive
      BY <2>1, <1>t DEF ReadsPart, At, Call, Submission, Decision, Reviewing, NoCall, GoingLive
    <2> DEFINE new == [call[c] EXCEPT !.ready = @ /\ read, !.pc = next]
    <2>3. call' = [call EXCEPT ![c] = new]
      BY <2>1 DEF ReadsPart
    <2>4. new \in GoingLive
      BY <2>1, <2>2 DEF GoingLive
    <2>5. /\ call' \in [Calls -> Call] /\ call'[c] = new
          /\ \A d \in Calls \ {c} : call'[d] = call[d]
      BY <1>t, <2>3, <2>4 DEF Types, Call
    <2>6. UNCHANGED <<row, docs, services, weekly, connect, reviews, replied, announced, relisted>>
      BY <2>1 DEF ReadsPart
    <2>7. /\ new.op = "goLive" /\ new.pc = next /\ next # "write"
          /\ new.ready => read
      BY <2>1, <2>2 DEF GoingLive
    <2>8. CallVetted(c)'
      BY <2>1, <2>5, <2>6, <2>7 DEF CallVetted
    <2> QED
      BY <2>5, <2>6, <2>8, ReadingStep
  <1>6. CASE EvaluateGoLive(c)
    <2>1. call[c].op = "goLive" /\ call[c].pc = "weekly" /\ call[c] \in GoingLive
      BY <1>6, <1>t DEF EvaluateGoLive, At, Call, Submission, Decision, GoingLive, Reviewing, NoCall
    <2>2. UNCHANGED <<row, docs, services, weekly, connect, reviews, replied, announced, relisted>>
      BY <1>6 DEF EvaluateGoLive
    <2>3. CASE call' = [call EXCEPT ![c].pc = "write"]
                /\ (call[c].want = "on" => call[c].ready)
      <3>1. call' = [call EXCEPT ![c] = [call[c] EXCEPT !.pc = "write"]]
        BY <2>3
      <3>2. [call[c] EXCEPT !.pc = "write"] \in GoingLive
        BY <2>1 DEF GoingLive
      <3>3. /\ call' \in [Calls -> Call] /\ call'[c] = [call[c] EXCEPT !.pc = "write"]
            /\ \A d \in Calls \ {c} : call'[d] = call[d]
        BY <1>t, <3>1, <3>2 DEF Types, Call
      <3>4. call'[c].op = "goLive" /\ call'[c].pc = "write" /\ call'[c].want = call[c].want
        BY <2>1, <3>3 DEF GoingLive
      <3>5. call[c].ready => services
        BY <2>1 DEF VettingInv, CallVetted
      <3>6. CallVetted(c)'
        BY <2>2, <2>3, <3>4, <3>5 DEF CallVetted
      <3> QED
        BY <2>2, <3>3, <3>6, ReadingStep
    <2>4. CASE Over(c)
      BY <1>t, <2>2, <2>4, Ends, ReadingStep DEF CallVetted
    <2> QED
      BY <1>6, <2>1, <2>3, <2>4 DEF EvaluateGoLive
  <1>7. CASE \E b \in Bookings, rating \in Ratings : Review(c, b, rating)
    <2>1. PICK b \in Bookings, rating \in Ratings : Review(c, b, rating)
      BY <1>7
    <2>2. [ op |-> "review", arg |-> [booking |-> b, rating |-> rating],
            pc |-> "write", row |-> row ] \in Call
      BY <1>t DEF Call, Reviewing
    <2>3. CallVetted(c)'
      BY <1>t, <2>1, <2>2, Began DEF Review, Reads, CallVetted
    <2> QED
      BY <1>t, <2>1, <2>2, <2>3, Began, ReadingStep DEF Review, Reads
  <1>8. CASE Crash(c)
    BY <1>8, <1>t, Ends, ReadingStep DEF Crash, CallVetted
  <1> QED
    BY <1>1, <1>2, <1>3, <1>4, <1>5, <1>6, <1>7, <1>8

\* A step of one call that writes the row and is over.
LEMMA WritingStep ==
    ASSUME VettingInv, NEW c \in Calls, Over(c), Types', RowVetted',
           UNCHANGED <<docs, services>>
    PROVE  VettingInv'
  <1>1. PacketComplete' = PacketComplete
    BY DEF PacketComplete
  <1>2. CallVetted(c)'
    BY Ends DEF VettingInv, CallVetted
  <1>3. \A d \in Calls : CallVetted(d)'
    BY <1>1, <1>2, Ends, StaysVetted DEF VettingInv
  <1> QED
    BY <1>3 DEF VettingInv

\* A call that writes the status, the listing or a review.
LEMMA WritingKeepsInv ==
    ASSUME VettingInv, NEW c \in Calls,
           WriteSubmission(c) \/ WriteDecision(c) \/ WriteListed(c) \/ WriteReview(c)
    PROVE  VettingInv'
  <1>t. Types /\ row \in Row /\ call[c] \in Call /\ CallVetted(c)
    BY DEF VettingInv, Types, TypeOK, Row
  <1>o. Over(c) /\ UNCHANGED <<docs, services, weekly, connect, replied, relisted>>
    BY DEF WriteSubmission, WriteDecision, WriteListed, WriteReview
  <1>c. call' \in [Calls -> Call] /\ PacketComplete' = PacketComplete
    BY <1>t, <1>o, Ends DEF PacketComplete
  <1>1. CASE WriteSubmission(c)
    <2>1. PacketComplete
      BY <1>t, <1>1 DEF WriteSubmission, At, CallVetted
    <2>2. /\ row' \in Row /\ row'.status = "pending_review" /\ row'.listed = row.listed
          /\ UNCHANGED <<reviews, announced>>
      BY <1>t, <1>1 DEF WriteSubmission, SetStatus, Row, Statuses
    <2>3. Types'
      BY <1>t, <1>o, <1>c, <2>2 DEF Types, TypeOK, Row
    <2>4. RowVetted'
      BY <1>o, <1>c, <2>1, <2>2 DEF RowVetted, VettingInv
    <2> QED
      BY <1>o, <2>3, <2>4, WritingStep
  <1>2. CASE WriteDecision(c)
    <2>1. /\ call[c] \in Decision /\ PacketComplete
          /\ call[c].row.status \in Statuses /\ call[c].arg \in Decisions
      <3>1. call[c] \in Decision
        BY <1>t, <1>2 DEF WriteDecision, At, Call, Submission, Decision, GoingLive, Reviewing, NoCall
      <3> QED
        BY <1>t, <3>1 DEF Decision, Row, CallVetted
    <2>2. PICK next \in NextStatus(call[c].row.status, call[c].arg) : SetStatus(next)
      BY <1>2 DEF WriteDecision
    <2>3. next \in Statuses /\ (next = "approved" => call[c].arg = "approve")
      BY <2>1, <2>2, Decided
    <2>4. /\ row' \in Row /\ row'.status = next /\ row'.listed = row.listed
      BY <1>t, <2>2, <2>3 DEF SetStatus, Row
    <2>5. /\ announced' \in BOOLEAN /\ (announced => announced')
          /\ (next = "approved" => announced') /\ UNCHANGED reviews
      BY <1>t, <1>2, <2>3 DEF WriteDecision, Types, TypeOK
    <2>6. Types'
      BY <1>t, <1>o, <1>c, <2>4, <2>5 DEF Types, TypeOK, Row
    <2>7. RowVetted'
      BY <1>o, <1>c, <2>1, <2>4, <2>5 DEF RowVetted, VettingInv
    <2> QED
      BY <1>o, <2>6, <2>7, WritingStep
  <1>3. CASE WriteListed(c)
    <2>1. SetListed(call[c].want = "on") /\ call[c].op = "goLive" /\ call[c].pc = "write"
      BY <1>3 DEF WriteListed, At
    <2>2. /\ row' \in Row /\ row'.status = row.status
          /\ row'.listed => services
          /\ UNCHANGED <<reviews, announced>>
      BY <1>t, <1>3, <2>1 DEF SetListed, Row, CallVetted, WriteListed
    <2>3. Types'
      BY <1>t, <1>o, <1>c, <2>2 DEF Types, TypeOK, Row
    <2>4. RowVetted'
      BY <1>o, <1>c, <2>2 DEF RowVetted, VettingInv
    <2> QED
      BY <1>o, <2>3, <2>4, WritingStep
  <1>4. CASE WriteReview(c)
    <2>1. call[c].arg.booking \in Bookings /\ call[c].arg.rating \in Ratings
      <3>1. call[c] \in Reviewing
        BY <1>t, <1>4 DEF WriteReview, At, Call, Submission, Decision, GoingLive, Reviewing, NoCall
      <3> QED
        BY <3>1 DEF Reviewing
    <2>2. /\ row' \in Row /\ row'.status = row.status /\ row'.listed = row.listed
          /\ reviews' \in [Bookings -> Ratings \cup {0}]
      <3>1. CASE reviews[call[c].arg.booking] = 0
        <4>1. /\ row' = [row EXCEPT !.sum = row.sum + call[c].arg.rating, !.count = @ + 1]
              /\ reviews' = [reviews EXCEPT ![call[c].arg.booking] = call[c].arg.rating]
          BY <1>4, <3>1 DEF WriteReview, RatingSum
        <4>2. call[c].arg.rating \in Nat
          BY <2>1, RatingsArePositive
        <4>3. row.sum + call[c].arg.rating \in Nat /\ row.count + 1 \in Nat
          BY <1>t, <4>2 DEF Row
        <4>4. row' \in Row /\ row'.status = row.status /\ row'.listed = row.listed
          BY <1>t, <4>1, <4>3 DEF Row
        <4>5. reviews' \in [Bookings -> Ratings \cup {0}]
          BY <1>t, <2>1, <4>1 DEF Types, TypeOK
        <4> QED
          BY <4>4, <4>5
      <3>2. CASE reviews[call[c].arg.booking] # 0
        BY <1>t, <1>4, <3>2 DEF WriteReview, Types, TypeOK
      <3> QED
        BY <3>1, <3>2
    <2>3. UNCHANGED announced
      BY <1>4 DEF WriteReview
    <2>4. Types'
      BY <1>t, <1>o, <1>c, <2>2, <2>3 DEF Types, TypeOK, Row
    <2>5. RowVetted'
      BY <1>o, <1>c, <2>2, <2>3 DEF RowVetted, VettingInv
    <2> QED
      BY <1>o, <2>4, <2>5, WritingStep
  <1> QED
    BY <1>1, <1>2, <1>3, <1>4

\* A call of one statement: papers and services are added, the gate's other
\* parts change, an admin lists and suspends.
LEMMA StatementKeepsInv ==
    ASSUME VettingInv,
           \/ \E k \in DocKinds : AddDocument(k)
           \/ AddService
           \/ \E b \in Bookings : Reply(b)
           \/ \E any \in BOOLEAN : ReplaceWeekly(any)
           \/ StartOnboarding \/ CompleteStub \/ Suspend \/ Relist
    PROVE  VettingInv'
  <1>t. Types /\ row \in Row
    BY DEF VettingInv, Types, TypeOK, Row
  <1>c. UNCHANGED <<call, announced>>
    BY DEF AddDocument, AddService, Reply, ReplaceWeekly, StartOnboarding, CompleteStub, Suspend, Relist
  <1>1. /\ docs' \in [DocKinds -> 0..PortfolioMin]
        /\ \A k \in DocKinds : docs'[k] >= docs[k]
    <2>1. CASE \E k \in DocKinds : AddDocument(k)
      <3>1. PICK k \in DocKinds : AddDocument(k)
        BY <2>1
      <3>2. docs[k] < PortfolioMin /\ docs' = [docs EXCEPT ![k] = @ + 1]
        BY <1>t, <3>1, PacketNeedsPhotographs DEF AddDocument, Types, TypeOK
      <3> QED
        BY <1>t, <3>2, PacketNeedsPhotographs DEF Types, TypeOK
    <2>2. CASE UNCHANGED docs
      BY <1>t, <2>2, PacketNeedsPhotographs DEF Types, TypeOK
    <2> QED
      BY <2>1, <2>2 DEF AddService, Reply, ReplaceWeekly, StartOnboarding, CompleteStub, Suspend, Relist
  <1>2. PacketComplete => PacketComplete'
    <2>1. /\ \A k \in DocKinds : docs[k] \in Nat /\ docs'[k] \in Nat
          /\ "government_id" \in DocKinds /\ "credential" \in DocKinds /\ "portfolio" \in DocKinds
      BY <1>t, <1>1, PacketNeedsPhotographs DEF Types, TypeOK, DocKinds
    <2> QED
      BY <1>1, <2>1, PacketNeedsPhotographs DEF PacketComplete
  <1>3. services' \in BOOLEAN /\ relisted' \in BOOLEAN /\ (services => services') /\ (relisted => relisted')
    BY <1>t DEF Types, TypeOK, AddDocument, AddService, Reply, ReplaceWeekly,
                StartOnboarding, CompleteStub, Suspend, Relist
  <1>4. row' \in Row /\ row'.status = row.status /\ (row'.listed => row.listed \/ relisted')
    BY <1>t DEF Row, SetListed, AddDocument, AddService, Reply, ReplaceWeekly,
                StartOnboarding, CompleteStub, Suspend, Relist
  <1>5. /\ weekly' \in BOOLEAN /\ connect' \in {"not_started", "pending", "complete"}
        /\ reviews' = reviews /\ replied' \subseteq Bookings
    BY <1>t DEF Types, TypeOK, AddDocument, AddService, Reply, ReplaceWeekly,
                StartOnboarding, CompleteStub, Suspend, Relist
  <1>6. Types'
    BY <1>t, <1>c, <1>1, <1>3, <1>4, <1>5 DEF Types, TypeOK, Row
  <1>7. RowVetted'
    BY <1>c, <1>2, <1>3, <1>4 DEF RowVetted, VettingInv
  <1>8. \A d \in Calls : CallVetted(d)'
    BY <1>c, <1>2, <1>3, StaysVetted
  <1> QED
    BY <1>6, <1>7, <1>8 DEF VettingInv

---------------------------------------------------------------------------
(* The theorems.                                                           *)

\* No step of the catalog breaks the invariant.
LEMMA NextInv == VettingInv /\ [Next]_vars => VettingInv'
  <1> SUFFICES ASSUME VettingInv, [Next]_vars PROVE VettingInv'
    OBVIOUS
  <1>1. CASE UNCHANGED vars
    BY <1>1 DEF vars, VettingInv, Types, TypeOK, RowVetted, CallVetted, PacketComplete
  <1>2. CASE Next
    <2>1. ASSUME NEW c \in Calls,
                 \/ Submit(c) \/ CheckPacket(c)
                 \/ \E action \in Decisions : Decide(c, action)
                 \/ \E want \in {"look", "on", "off"} : GoLive(c, want)
                 \/ ReadConnect(c) \/ ReadServices(c) \/ EvaluateGoLive(c)
                 \/ \E b \in Bookings, rating \in Ratings : Review(c, b, rating)
                 \/ Crash(c)
          PROVE  VettingInv'
      BY <2>1, ReadingKeepsInv
    <2>2. ASSUME NEW c \in Calls,
                 WriteSubmission(c) \/ WriteDecision(c) \/ WriteListed(c) \/ WriteReview(c)
          PROVE  VettingInv'
      BY <2>2, WritingKeepsInv
    <2> QED
      BY <1>2, <2>1, <2>2, StatementKeepsInv DEF Next
  <1> QED
    BY <1>1, <1>2

\* The inductive invariant of vetting holds in every state.
THEOREM VettingInvariant == Spec => []VettingInv
  BY InitInv, NextInv, PTL DEF Spec

\* A provider customers can see is vetted (requirePublic, decide, submit,
\* evaluateGoLive, adminSetListed), whichever calls overtake each other.
THEOREM PublicAreVetted == Spec => []PublicIsVetted
  <1>1. VettingInv => PublicIsVetted
    <2> SUFFICES ASSUME VettingInv, Public(row) PROVE PublicIsVetted
      BY DEF PublicIsVetted
    <2>1. PacketComplete /\ announced /\ (services \/ relisted)
      BY DEF VettingInv, RowVetted, Public
    <2>2. \A k \in DocKinds : docs[k] > 0
      <3>1. docs["portfolio"] > 0
        BY <2>1, PacketNeedsPhotographs DEF PacketComplete, VettingInv, Types, TypeOK, DocKinds
      <3> QED
        BY <2>1, <3>1 DEF PacketComplete, DocKinds
    <2>3. docs["portfolio"] >= PortfolioMin
      BY <2>1 DEF PacketComplete
    <2> QED
      BY <2>1, <2>2, <2>3 DEF PublicIsVetted
  <1> QED
    BY <1>1, VettingInvariant, PTL

\* A status moves along the vetting flow or by a stale submission or decision
\* (submit, decide).
THEOREM FlowLeftOnlyByStaleDecisions == Spec => OnlyStaleDecisionsLeaveTheFlow
  <1> DEFINE A == row'.status # row.status =>
                    \/ <<row.status, row'.status>> \in Flow
                    \/ \E c \in Calls : Stale(c) /\ call'[c] = NoCall
  <1>1. VettingInv /\ [Next]_vars => [A]_vars
    <2> SUFFICES ASSUME VettingInv, Next, row'.status # row.status
                 PROVE  \/ <<row.status, row'.status>> \in Flow
                        \/ \E c \in Calls : Stale(c) /\ call'[c] = NoCall
      OBVIOUS
    <2>t. Types /\ row \in Row
      BY DEF VettingInv, Types, TypeOK, Row
    <2>a. ASSUME NEW c \in Calls,
                 \/ Submit(c) \/ CheckPacket(c)
                 \/ \E action \in Decisions : Decide(c, action)
                 \/ \E want \in {"look", "on", "off"} : GoLive(c, want)
                 \/ ReadConnect(c) \/ ReadServices(c) \/ EvaluateGoLive(c)
                 \/ \E b \in Bookings, rating \in Ratings : Review(c, b, rating)
          PROVE  UNCHANGED row
      BY <2>a DEF Submit, CheckPacket, Decide, GoLive, ReadConnect, ReadServices, ReadsPart,
                  EvaluateGoLive, Review, Reads, Begins
    <2>b. ASSUME NEW c \in Calls, WriteListed(c) \/ WriteReview(c) \/ Crash(c)
          PROVE  row'.status = row.status
      BY <2>t, <2>b DEF WriteListed, WriteReview, Crash, SetListed, Row
    <2>1. PICK c \in Calls : WriteSubmission(c) \/ WriteDecision(c)
      BY <2>t, <2>a, <2>b DEF Next, Row, SetListed, AddDocument, AddService, Reply,
                  ReplaceWeekly, StartOnboarding, CompleteStub, Suspend, Relist
    <2>2. /\ Over(c) /\ call'[c] = NoCall /\ CallVetted(c) /\ call[c] \in Call
          /\ call[c] # NoCall /\ call[c].op \in {"submit", "decide"}
      BY <2>1, <2>t, Ends DEF WriteSubmission, WriteDecision, At, VettingInv, Types
    <2>3. CASE call[c].row.status # row.status
      BY <2>2, <2>3 DEF Stale
    <2>4. CASE call[c].row.status = row.status
      <3>1. CASE WriteSubmission(c)
        BY <2>t, <2>2, <2>4, <3>1 DEF WriteSubmission, At, SetStatus, Row, CallVetted, MaySubmit, Flow
      <3>2. CASE WriteDecision(c)
        <4>1. call[c].arg \in Decisions
          BY <2>2, <3>2 DEF WriteDecision, At, Call, Submission, Decision, GoingLive, Reviewing, NoCall
        <4>2. PICK next \in NextStatus(row.status, call[c].arg) : SetStatus(next)
          BY <2>4, <3>2 DEF WriteDecision
        <4>3. <<row.status, next>> \in Flow
          BY <2>t, <4>1, <4>2, Decided DEF Row
        <4> QED
          BY <2>t, <4>2, <4>3 DEF SetStatus, Row
      <3> QED
        BY <2>1, <3>1, <3>2
    <2> QED
      BY <2>3, <2>4
  <1> QED
    BY <1>1, VettingInvariant, PTL DEF Spec, OnlyStaleDecisionsLeaveTheFlow

---------------------------------------------------------------------------
\* The rating.

Rated == {b \in Bookings : reviews[b] # 0}

\* The aggregate sums and counts finitely many reviews, the replied-to among them.
RatingInv ==
    /\ IsFiniteSet(Rated)
    /\ row.count = Cardinality(Rated)
    /\ row.sum = Sum(reviews, Rated)
    /\ replied \subseteq Rated

\* The first review of a booking is counted, and so is its rating, with whatever
\* the row says when it is written.
LEMMA ReviewIsCounted ==
    ASSUME VettingInv, RatingInv, NEW c \in Calls, WriteReview(c)
    PROVE  RatingInv'
  <1>t. /\ call[c] \in Call /\ row \in Row /\ reviews \in [Bookings -> Ratings \cup {0}]
        /\ call[c] # NoCall /\ call[c].op = "review"
    BY DEF VettingInv, Types, TypeOK, Row, WriteReview, At
  <1>1. PICK b \in Bookings, rating \in Ratings :
           call[c].arg.booking = b /\ call[c].arg.rating = rating
    BY <1>t DEF Call, NoCall, Submission, Decision, GoingLive, Reviewing
  <1>2. rating \in Nat /\ rating # 0
    BY RatingsArePositive
  <1>3. CASE reviews[b] # 0
    BY <1>1, <1>3 DEF WriteReview, RatingInv, Rated
  <1>4. CASE reviews[b] = 0
    <2>1. reviews' = [reviews EXCEPT ![b] = rating] /\ replied' = replied
      BY <1>1, <1>4 DEF WriteReview
    <2>2. row'.sum = row.sum + rating /\ row'.count = row.count + 1
      BY <1>t, <1>1, <1>4 DEF WriteReview, RatingSum, Row
    <2>3. PICK S : S = Rated
      OBVIOUS
    <2>4. Rated' = S \cup {b} /\ b \notin S
      BY <1>t, <1>2, <1>4, <2>1, <2>3 DEF Rated
    <2>5. IsFiniteSet(S) /\ row.count = Cardinality(S) /\ row.sum = Sum(reviews, S) /\ replied \subseteq S
      BY <2>3 DEF RatingInv
    <2>6. /\ \A x \in S : reviews[x] \in Int /\ reviews'[x] = reviews[x]
          /\ reviews'[b] = rating
      <3>1. \A x \in S : x \in Bookings /\ x # b
        BY <2>3, <2>4 DEF Rated
      <3>2. ASSUME NEW x \in S
            PROVE  reviews[x] \in Int
        <4>1. reviews[x] \in Ratings \/ reviews[x] = 0
          BY <1>t, <3>1
        <4>2. \A r \in Ratings : r \in Int
          BY RatingsArePositive
        <4> QED
          BY <4>1, <4>2
      <3>3. \A x \in S : reviews'[x] = reviews[x]
        BY <1>t, <2>1, <3>1
      <3> QED
        BY <1>t, <2>1, <3>2, <3>3
    <2>7. Sum(reviews', S \cup {b}) = Sum(reviews, S) + rating
      <3>1. PICK old, new : old = reviews /\ new = reviews'
        OBVIOUS
      <3>2. /\ \A x \in S : old[x] \in Int /\ new[x] = old[x]
            /\ new[b] \in Int /\ new[b] = rating
        BY <1>2, <2>6, <3>1
      <3>3. b \notin S /\ IsFiniteSet(S)
        BY <2>4, <2>5
      <3>4. /\ \A x \in S : old[x] \in Int /\ new[x] = old[x]
            /\ new[b] \in Int
        BY <3>2
      <3>5. Sum(new, S \cup {b}) = Sum(old, S) + new[b]
        BY <3>3, <3>4, SumAddsOne
      <3> QED
        BY <3>1, <3>2, <3>5
    <2>8. IsFiniteSet(S \cup {b}) /\ Cardinality(S \cup {b}) = Cardinality(S) + 1
      BY <2>4, <2>5, FS_AddElement
    <2> QED
      BY <2>1, <2>2, <2>4, <2>5, <2>7, <2>8 DEF RatingInv
  <1> QED
    BY <1>3, <1>4

\* No other step touches the aggregate or the reviews; a reply is to a review there is.
LEMMA RatingStays ==
    ASSUME VettingInv, RatingInv, [Next]_vars, ~ \E c \in Calls : WriteReview(c)
    PROVE  RatingInv'
  <1>1. row \in Row
    BY DEF VettingInv, Types, TypeOK, Row
  <1>2. UNCHANGED reviews /\ row'.sum = row.sum /\ row'.count = row.count
    BY <1>1 DEF Next, vars, Row, SetListed, SetStatus, Submit, CheckPacket, WriteSubmission,
                Decide, WriteDecision, GoLive, ReadConnect, ReadServices, ReadsPart,
                EvaluateGoLive, WriteListed, Review, Crash, Reads, Begins,
                AddDocument, AddService, Reply, ReplaceWeekly, StartOnboarding, CompleteStub,
                Suspend, Relist
  <1>3. replied' = replied \/ \E b \in Rated : replied' = replied \cup {b}
    BY DEF Next, vars, Rated, Submit, CheckPacket, WriteSubmission,
           Decide, WriteDecision, GoLive, ReadConnect, ReadServices, ReadsPart,
           EvaluateGoLive, WriteListed, Review, Crash, Reads, Begins,
           AddDocument, AddService, Reply, ReplaceWeekly, StartOnboarding, CompleteStub,
           Suspend, Relist
  <1>4. Rated' = Rated
    BY <1>2 DEF Rated
  <1> QED
    BY <1>2, <1>3, <1>4 DEF RatingInv

\* RAT-002, RAT-003: the aggregate is that of the reviews, however many are written
\* at once (addReview, replyToReview).
THEOREM RatingsAddUp == Spec => []RatingIsThatOfTheReviews
  <1>1. Init => RatingInv
    <2> SUFFICES ASSUME Init
                 PROVE  RatingInv
      OBVIOUS
    <2>1. Rated = {} /\ row.sum = 0 /\ row.count = 0 /\ replied = {}
      BY DEF Init, Rated
    <2>2. Sum(reviews, {}) = 0 /\ IsFiniteSet({}) /\ Cardinality({}) = 0
      BY SumUnfolds, FS_EmptySet
    <2> QED
      BY <2>1, <2>2 DEF RatingInv
  <1>2. VettingInv /\ RatingInv /\ [Next]_vars => RatingInv'
    BY ReviewIsCounted, RatingStays
  <1>3. RatingInv => RatingIsThatOfTheReviews
    <2>1. MapThenSumSet(LAMBDA b : reviews[b], Rated) = Sum(reviews, Rated)
      BY FoldIsSum
    <2> QED
      BY <2>1 DEF RatingInv, RatingIsThatOfTheReviews, Rated
  <1> QED
    BY <1>1, <1>2, <1>3, VettingInvariant, PTL DEF Spec
=============================================================================
