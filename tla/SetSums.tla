------------------------------ MODULE SetSums ------------------------------
(***************************************************************************)
(* Sums over finite sets, as MapThenSumSet of the community modules takes  *)
(* them: that a sum is well defined and an integer, may begin with any of  *)
(* its elements, and agrees or compares with another term by term.  The    *)
(* induction is over a finite set, by the well-foundedness of the strict   *)
(* subset ordering, and ranges over a set where the library's induction    *)
(* theorems take a predicate.                                              *)
(***************************************************************************)
EXTENDS Integers, FiniteSetsExt, FiniteSetTheorems, TLAPS

\* Induction over the subsets of a finite set, stated with a set instead of a
\* predicate: what holds of a set whenever it holds of its proper subsets holds of all.
LEMMA SubsetInduction ==
    ASSUME NEW S, IsFiniteSet(S), NEW G,
           \A T \in SUBSET S : (\A U \in SUBSET T : U # T => U \in G) => T \in G
    PROVE  \A T \in SUBSET S : T \in G
  <1> DEFINE Bad == {T \in SUBSET S : T \notin G}
  <1> SUFFICES ASSUME Bad # {}
               PROVE  FALSE
    OBVIOUS
  <1>1. IsWellFoundedOn(StrictSubsetOrdering(S), FiniteSubsetsOf(S))
    BY FS_StrictSubsetOrderingWellFounded
  <1>2. FiniteSubsetsOf(S) = SUBSET S
    BY FS_FiniteSubsetsOfFinite
  <1>3. Bad \subseteq FiniteSubsetsOf(S)
    BY <1>2
  <1> HIDE DEF Bad
  <1>4. PICK T \in Bad : \A U \in Bad : <<U, T>> \notin StrictSubsetOrdering(S)
    BY <1>1, <1>3, WFMin
  <1>5. ASSUME NEW U \in SUBSET T, U # T, U \notin G
        PROVE  FALSE
    <2>1. U \in Bad /\ T \in SUBSET S /\ U \in SUBSET S
      BY <1>5 DEF Bad
    <2>2. <<U, T>> \in StrictSubsetOrdering(S)
      BY <2>1, <1>5 DEF StrictSubsetOrdering
    <2> QED
      BY <2>1, <2>2, <1>4
  <1> QED
    BY <1>5 DEF Bad

\* The element the fold takes next.
Chosen(s) == CHOOSE x \in s : TRUE

\* g sums F over every subset of T, the way the fold does.
IsTally(g, F, T) ==
    g = [s \in SUBSET T |-> IF s = {} THEN 0 ELSE F[Chosen(s)] + g[s \ {Chosen(s)}]]
Tally(F, T) == CHOOSE g : IsTally(g, F, T)
Sum(F, T) == Tally(F, T)[T]

\* The element taken is one of the set.
LEMMA ChosenIsIn == \A s : s # {} => Chosen(s) \in s
    BY DEF Chosen

\* Two tallies of one function agree wherever both are defined.
LEMMA TalliesAgree ==
    ASSUME NEW T, IsFiniteSet(T), NEW U \in SUBSET T, NEW F, NEW g, NEW h,
           IsTally(g, F, T), IsTally(h, F, U)
    PROVE  \A s \in SUBSET U : g[s] = h[s]
  <1> DEFINE G == {s \in SUBSET U : g[s] = h[s]}
  <1>1. IsFiniteSet(U)
    BY FS_Subset
  <1>2. ASSUME NEW s \in SUBSET U, \A r \in SUBSET s : r # s => r \in G
        PROVE  s \in G
    <2>1. g[s] = IF s = {} THEN 0 ELSE F[Chosen(s)] + g[s \ {Chosen(s)}]
      BY DEF IsTally
    <2>2. h[s] = IF s = {} THEN 0 ELSE F[Chosen(s)] + h[s \ {Chosen(s)}]
      BY DEF IsTally
    <2>3. s # {} => s \ {Chosen(s)} \in G
      BY <1>2, ChosenIsIn
    <2> QED
      BY <2>1, <2>2, <2>3
  <1> HIDE DEF G
  <1>3. \A s \in SUBSET U : s \in G
    BY <1>1, <1>2, SubsetInduction
  <1> QED
    BY <1>3 DEF G

\* Every function has a tally over a finite set.
LEMMA TallyExists ==
    ASSUME NEW S, IsFiniteSet(S), NEW F
    PROVE  \A T \in SUBSET S : IsTally(Tally(F, T), F, T)
  <1> DEFINE G == {T \in SUBSET S : \E g : IsTally(g, F, T)}
  <1>1. \A T \in G : IsTally(Tally(F, T), F, T)
    BY DEF Tally
  <1>2. ASSUME NEW T \in SUBSET S, \A U \in SUBSET T : U # T => U \in G
        PROVE  T \in G
    <2> DEFINE g == [s \in SUBSET T |->
                        IF s # T THEN Tally(F, s)[s]
                        ELSE IF s = {} THEN 0
                        ELSE F[Chosen(s)] + Tally(F, s \ {Chosen(s)})[s \ {Chosen(s)}]]
    <2>1. ASSUME NEW s \in SUBSET T
          PROVE  g[s] = IF s = {} THEN 0 ELSE F[Chosen(s)] + g[s \ {Chosen(s)}]
      <3>1. s # {} => /\ s \ {Chosen(s)} \in SUBSET T
                      /\ s \ {Chosen(s)} # T
                      /\ s \ {Chosen(s)} \in SUBSET s
        BY ChosenIsIn
      <3>2. s # {} => g[s \ {Chosen(s)}] = Tally(F, s \ {Chosen(s)})[s \ {Chosen(s)}]
        BY <3>1
      <3>3. CASE s = T
        BY <3>2, <3>3
      <3>4. CASE s # T
        <4>1. IsTally(Tally(F, s), F, s)
          BY <1>1, <1>2, <3>4
        <4>2. Tally(F, s)[s] = IF s = {} THEN 0
                               ELSE F[Chosen(s)] + Tally(F, s)[s \ {Chosen(s)}]
          BY <4>1 DEF IsTally
        <4>3. s # {} => Tally(F, s)[s \ {Chosen(s)}]
                          = Tally(F, s \ {Chosen(s)})[s \ {Chosen(s)}]
          <5>1. SUFFICES ASSUME s # {}
                         PROVE  Tally(F, s)[s \ {Chosen(s)}]
                                  = Tally(F, s \ {Chosen(s)})[s \ {Chosen(s)}]
            OBVIOUS
          <5>2. PICK r : r = s \ {Chosen(s)}
            OBVIOUS
          <5>3. r \in SUBSET s /\ IsFiniteSet(s) /\ IsTally(Tally(F, r), F, r)
            BY <1>1, <1>2, <3>1, <5>1, <5>2, FS_Subset
          <5>4. \A q \in SUBSET r : Tally(F, s)[q] = Tally(F, r)[q]
            BY <4>1, <5>3, TalliesAgree
          <5> QED
            BY <5>2, <5>4
        <4> QED
          BY <3>2, <3>4, <4>2, <4>3
      <3> QED
        BY <3>3, <3>4
    <2>2. g = [s \in SUBSET T |-> g[s]]
      OBVIOUS
    <2> HIDE DEF g
    <2>3. IsTally(g, F, T)
      BY <2>1, <2>2 DEF IsTally
    <2> QED
      BY <2>3
  <1> HIDE DEF G
  <1>3. \A T \in SUBSET S : T \in G
    BY <1>2, SubsetInduction
  <1> QED
    BY <1>1, <1>3

\* A sum takes its elements one by one.
LEMMA SumUnfolds ==
    ASSUME NEW T, IsFiniteSet(T), NEW F
    PROVE  Sum(F, T) = IF T = {} THEN 0 ELSE F[Chosen(T)] + Sum(F, T \ {Chosen(T)})
  <1>1. IsTally(Tally(F, T), F, T)
    BY TallyExists
  <1>2. Tally(F, T)[T] = IF T = {} THEN 0 ELSE F[Chosen(T)] + Tally(F, T)[T \ {Chosen(T)}]
    BY <1>1 DEF IsTally
  <1>3. PICK r : r = T \ {Chosen(T)}
    OBVIOUS
  <1>4. r \in SUBSET T /\ IsTally(Tally(F, r), F, r)
    BY <1>3, TallyExists
  <1>5. Tally(F, T)[r] = Tally(F, r)[r]
    BY <1>1, <1>4, TalliesAgree
  <1> QED
    BY <1>2, <1>3, <1>5 DEF Sum

\* The sum of integers is an integer.
LEMMA SumIsInt ==
    ASSUME NEW S, IsFiniteSet(S), NEW F, \A x \in S : F[x] \in Int
    PROVE  Sum(F, S) \in Int
  <1> DEFINE G == {T \in SUBSET S : Sum(F, T) \in Int}
  <1>1. ASSUME NEW T \in SUBSET S, \A U \in SUBSET T : U # T => U \in G
        PROVE  T \in G
    <2>1. Sum(F, T) = IF T = {} THEN 0 ELSE F[Chosen(T)] + Sum(F, T \ {Chosen(T)})
      BY SumUnfolds, FS_Subset
    <2>2. T # {} => Chosen(T) \in S /\ T \ {Chosen(T)} \in G
      BY <1>1, ChosenIsIn
    <2> QED
      BY <2>1, <2>2
  <1> HIDE DEF G
  <1>2. \A T \in SUBSET S : T \in G
    BY <1>1, SubsetInduction
  <1> QED
    BY <1>2 DEF G

\* It does not matter which element is taken first.
LEMMA SumTakesAny ==
    ASSUME NEW S, IsFiniteSet(S), NEW F, \A x \in S : F[x] \in Int
    PROVE  \A x \in S : Sum(F, S) = F[x] + Sum(F, S \ {x})
  <1> DEFINE G == {T \in SUBSET S : \A x \in T : Sum(F, T) = F[x] + Sum(F, T \ {x})}
  <1>0. \A T \in SUBSET S : IsFiniteSet(T) /\ Sum(F, T) \in Int
    BY SumIsInt, FS_Subset
  <1>1. ASSUME NEW T \in SUBSET S, \A U \in SUBSET T : U # T => U \in G
        PROVE  T \in G
    <2> SUFFICES ASSUME NEW x \in T
                 PROVE  Sum(F, T) = F[x] + Sum(F, T \ {x})
      OBVIOUS
    <2>1. PICK c \in T : c = Chosen(T)
      BY ChosenIsIn
    <2>2. Sum(F, T) = F[c] + Sum(F, T \ {c})
      BY <1>0, <2>1, SumUnfolds
    <2>3. CASE x = c
      BY <2>2, <2>3
    <2>4. CASE x # c
      <3>1. T \ {c} \in G /\ x \in T \ {c}
        BY <1>1, <2>4
      <3>2. T \ {x} \in G /\ c \in T \ {x}
        BY <1>1, <2>4
      <3>3. (T \ {c}) \ {x} = (T \ {x}) \ {c}
        OBVIOUS
      <3>4. PICK n \in Int : n = Sum(F, (T \ {x}) \ {c})
        BY <1>0
      <3>5. Sum(F, T \ {c}) = F[x] + n /\ Sum(F, T \ {x}) = F[c] + n
        BY <3>1, <3>2, <3>3, <3>4
      <3>6. F[c] + (F[x] + n) = F[x] + (F[c] + n)
        <4>1. F[c] \in Int /\ F[x] \in Int
          OBVIOUS
        <4> QED
          BY <4>1
      <3> QED
        BY <2>2, <3>5, <3>6
    <2> QED
      BY <2>3, <2>4
  <1> HIDE DEF G
  <1>2. \A T \in SUBSET S : T \in G
    BY <1>1, SubsetInduction
  <1> QED
    BY <1>2 DEF G

\* Functions that agree on a set have the same sum over it.
LEMMA SumsAgree ==
    ASSUME NEW S, IsFiniteSet(S), NEW F, NEW H, \A x \in S : F[x] = H[x]
    PROVE  Sum(F, S) = Sum(H, S)
  <1> DEFINE G == {T \in SUBSET S : Sum(F, T) = Sum(H, T)}
  <1>1. ASSUME NEW T \in SUBSET S, \A U \in SUBSET T : U # T => U \in G
        PROVE  T \in G
    <2>1. IsFiniteSet(T)
      BY FS_Subset
    <2>2. /\ Sum(F, T) = IF T = {} THEN 0 ELSE F[Chosen(T)] + Sum(F, T \ {Chosen(T)})
          /\ Sum(H, T) = IF T = {} THEN 0 ELSE H[Chosen(T)] + Sum(H, T \ {Chosen(T)})
      BY <2>1, SumUnfolds
    <2>3. T # {} => Chosen(T) \in S /\ T \ {Chosen(T)} \in G
      BY <1>1, ChosenIsIn
    <2> QED
      BY <2>2, <2>3
  <1> HIDE DEF G
  <1>2. \A T \in SUBSET S : T \in G
    BY <1>1, SubsetInduction
  <1> QED
    BY <1>2 DEF G

\* A sum is as large as its terms.
LEMMA SumsCompare ==
    ASSUME NEW S, IsFiniteSet(S), NEW F, NEW H,
           \A x \in S : F[x] \in Int /\ H[x] \in Int /\ F[x] <= H[x]
    PROVE  Sum(F, S) <= Sum(H, S)
  <1> DEFINE G == {T \in SUBSET S : Sum(F, T) <= Sum(H, T)}
  <1>1. ASSUME NEW T \in SUBSET S, \A U \in SUBSET T : U # T => U \in G
        PROVE  T \in G
    <2>1. IsFiniteSet(T)
      BY FS_Subset
    <2>2. /\ Sum(F, T) = IF T = {} THEN 0 ELSE F[Chosen(T)] + Sum(F, T \ {Chosen(T)})
          /\ Sum(H, T) = IF T = {} THEN 0 ELSE H[Chosen(T)] + Sum(H, T \ {Chosen(T)})
      BY <2>1, SumUnfolds
    <2>3. CASE T # {}
      <3>1. PICK c \in T : c = Chosen(T)
        BY <2>3, ChosenIsIn
      <3>2. T \ {c} \in G /\ IsFiniteSet(T \ {c})
        BY <1>1, <2>1, FS_Subset
      <3>3. PICK m \in Int, n \in Int : m = Sum(F, T \ {c}) /\ n = Sum(H, T \ {c})
        BY <3>2, SumIsInt
      <3>4. m <= n
        BY <3>2, <3>3
      <3>5. PICK x \in Int, y \in Int : x = F[c] /\ y = H[c] /\ x <= y
        BY <3>1
      <3>6. Sum(F, T) = x + m /\ Sum(H, T) = y + n
        BY <2>2, <2>3, <3>1, <3>3, <3>5
      <3>7. Sum(F, T) <= Sum(H, T)
        BY <3>4, <3>5, <3>6
      <3> QED
        BY <3>7
    <2>4. CASE T = {}
      BY <2>2, <2>4
    <2> QED
      BY <2>3, <2>4
  <1> HIDE DEF G
  <1>2. \A T \in SUBSET S : T \in G
    BY <1>1, SubsetInduction
  <1> QED
    BY <1>2 DEF G

\* A new element adds its term.
LEMMA SumAddsOne ==
    ASSUME NEW S, IsFiniteSet(S), NEW x, x \notin S, NEW F, NEW H,
           \A y \in S : F[y] \in Int /\ H[y] = F[y],
           H[x] \in Int
    PROVE  Sum(H, S \cup {x}) = Sum(F, S) + H[x] /\ Sum(F, S) \in Int
  <1>1. PICK T : T = S \cup {x}
    OBVIOUS
  <1>2. IsFiniteSet(T) /\ x \in T /\ T \ {x} = S /\ \A y \in T : H[y] \in Int
    BY <1>1, FS_AddElement
  <1>3. Sum(H, T) = H[x] + Sum(H, T \ {x})
    BY <1>2, SumTakesAny
  <1>4. Sum(H, S) = Sum(F, S) /\ Sum(F, S) \in Int
    BY SumsAgree, SumIsInt
  <1>5. PICK m \in Int, n \in Int : m = Sum(F, S) /\ n = H[x]
    BY <1>4
  <1>6. Sum(H, T) = n + m
    BY <1>2, <1>3, <1>4, <1>5
  <1> QED
    BY <1>1, <1>5, <1>6

\* The fold of a function is its sum.
LEMMA FoldIsSum ==
    ASSUME NEW S, NEW F
    PROVE  MapThenSumSet(LAMBDA x : F[x], S) = Sum(F, S)
    BY DEF Sum, Tally, IsTally, Chosen, MapThenSumSet, MapThenFoldSet
=============================================================================
