--------------------------- MODULE Payouts_proofs ---------------------------
(***************************************************************************)
(* Proofs about Payouts, for any providers, bookings, requests, pollers    *)
(* and keys: the types, one payout per Idempotency-Key, the earnings page  *)
(* and the payout that find the same balance, and the payouts that pay no  *)
(* more than is owed unless another came between.                          *)
(*                                                                         *)
(* Money is summed over finite sets: SetSums has the theory of such sums.  *)
(***************************************************************************)
EXTENDS Payouts, SetSums, TLAPS

---------------------------------------------------------------------------
\* What is credited, paid and shown.

\* The provider keeps a share that is not negative.
LEMMA NetIsNatural == Net \in Nat /\ Net = SplitPrice.net
  <1>1. PICK x \in Nat : x = Price * RatePercent
    BY MoneyIsPositive
  <1>2. x <= Price * 100
    BY <1>1, MoneyIsPositive
  <1>3. (x + 50) \div 100 <= Price /\ (x + 50) \div 100 \in Nat
    BY <1>2, MoneyIsPositive
  <1> QED
    BY <1>1, <1>3, MoneyIsPositive DEF Net, SplitPrice

\* The kinds of the rows of a booking are countable.
LEMMA RowsAreFinite ==
    TypeOK => \A b \in Bookings : \A kind :
                  IsFiniteSet(RowsOf(b, kind)) /\ Cardinality(RowsOf(b, kind)) \in Nat
  <1> SUFFICES ASSUME TypeOK, NEW b \in Bookings, NEW kind
               PROVE  IsFiniteSet(RowsOf(b, kind)) /\ Cardinality(RowsOf(b, kind)) \in Nat
    OBVIOUS
  <1>1. ledger[b] \in Seq({"gross", "commission", "net"})
    BY DEF TypeOK
  <1>2. RowsOf(b, kind) \in SUBSET (1..Len(ledger[b])) /\ Len(ledger[b]) \in Int
    BY <1>1 DEF RowsOf
  <1>3. IsFiniteSet(1..Len(ledger[b]))
    BY <1>2, FS_Interval
  <1>4. IsFiniteSet(RowsOf(b, kind))
    BY <1>2, <1>3, FS_Subset
  <1> QED
    BY <1>4, FS_CardinalityType

\* So are the bookings and the payouts of a provider.
LEMMA TheirsAreFinite ==
    TypeOK => \A p \in Providers : IsFiniteSet(BookingsOf(p)) /\ IsFiniteSet(PayoutsOf(p))
  <1> SUFFICES ASSUME TypeOK, NEW p \in Providers
               PROVE  IsFiniteSet(BookingsOf(p)) /\ IsFiniteSet(PayoutsOf(p))
    OBVIOUS
  <1>1. BookingsOf(p) \in SUBSET Bookings
    BY DEF BookingsOf
  <1>2. PayoutsOf(p) \in SUBSET (1..Len(payouts)) /\ Len(payouts) \in Int
    BY DEF TypeOK, PayoutsOf
  <1> QED
    BY <1>1, <1>2, BookingsAreFinite, FS_Interval, FS_Subset

\* The terms of the three sums, of a provider.
Credits(p) == [b \in BookingsOf(p) |-> Net * Cardinality(RowsOf(b, "net"))]
Amounts(p) == [i \in PayoutsOf(p) |-> payouts[i].amount]
Shown(p) == [b \in BookingsOf(p) |-> IF RowsOf(b, "net") = {} THEN 0 ELSE SplitPrice.net]

\* The folds of the module are sums in the sense above.
LEMMA CreditedIsSum == \A p \in Providers : Credited(p) = Sum(Credits(p), BookingsOf(p))
  <1> SUFFICES ASSUME NEW p \in Providers
               PROVE  Credited(p) = Sum(Credits(p), BookingsOf(p))
    OBVIOUS
  <1> DEFINE S == BookingsOf(p)
             F == Credits(p)
  <1>1. \A s \in SUBSET S : s # {} => Chosen(s) \in S
    BY DEF Chosen
  <1>2. \A g : [s \in SUBSET S |-> IF s = {} THEN 0 ELSE F[Chosen(s)] + g[s \ {Chosen(s)}]]
             = [s \in SUBSET S |-> IF s = {} THEN 0
                   ELSE Net * Cardinality(RowsOf(Chosen(s), "net")) + g[s \ {Chosen(s)}]]
    BY <1>1 DEF Credits
  <1>3. Sum(F, S) = (CHOOSE g : g = [s \in SUBSET S |->
                        IF s = {} THEN 0 ELSE F[Chosen(s)] + g[s \ {Chosen(s)}]])[S]
    BY DEF Sum, Tally, IsTally
  <1>4. Credited(p) = (CHOOSE g : g = [s \in SUBSET S |->
                          IF s = {} THEN 0
                          ELSE Net * Cardinality(RowsOf(Chosen(s), "net"))
                               + g[s \ {Chosen(s)}]])[S]
    BY DEF Credited, MapThenSumSet, MapThenFoldSet, Chosen
  <1>5. (CHOOSE g : g = [s \in SUBSET S |->
                    IF s = {} THEN 0 ELSE F[Chosen(s)] + g[s \ {Chosen(s)}]])
          = (CHOOSE g : g = [s \in SUBSET S |->
                    IF s = {} THEN 0
                    ELSE Net * Cardinality(RowsOf(Chosen(s), "net"))
                    + g[s \ {Chosen(s)}]])
    BY <1>2
  <1> QED
    BY <1>3, <1>4, <1>5

\* The same for what was paid.
LEMMA PaidOutIsSum == \A p \in Providers : PaidOut(p) = Sum(Amounts(p), PayoutsOf(p))
  <1> SUFFICES ASSUME NEW p \in Providers
               PROVE  PaidOut(p) = Sum(Amounts(p), PayoutsOf(p))
    OBVIOUS
  <1> DEFINE S == PayoutsOf(p)
             F == Amounts(p)
  <1>1. \A s \in SUBSET S : s # {} => Chosen(s) \in S
    BY DEF Chosen
  <1>2. \A g : [s \in SUBSET S |-> IF s = {} THEN 0 ELSE F[Chosen(s)] + g[s \ {Chosen(s)}]]
             = [s \in SUBSET S |-> IF s = {} THEN 0
                   ELSE payouts[Chosen(s)].amount + g[s \ {Chosen(s)}]]
    BY <1>1 DEF Amounts
  <1>3. Sum(F, S) = (CHOOSE g : g = [s \in SUBSET S |->
                        IF s = {} THEN 0 ELSE F[Chosen(s)] + g[s \ {Chosen(s)}]])[S]
    BY DEF Sum, Tally, IsTally
  <1>4. PaidOut(p) = (CHOOSE g : g = [s \in SUBSET S |->
                         IF s = {} THEN 0
                         ELSE payouts[Chosen(s)].amount + g[s \ {Chosen(s)}]])[S]
    BY DEF PaidOut, MapThenSumSet, MapThenFoldSet, Chosen
  <1>5. (CHOOSE g : g = [s \in SUBSET S |->
                    IF s = {} THEN 0 ELSE F[Chosen(s)] + g[s \ {Chosen(s)}]])
          = (CHOOSE g : g = [s \in SUBSET S |->
                    IF s = {} THEN 0
                    ELSE payouts[Chosen(s)].amount + g[s \ {Chosen(s)}]])
    BY <1>2
  <1> QED
    BY <1>3, <1>4, <1>5

\* The same for what the page shows.
LEMMA ShownIsSum == \A p \in Providers : ShownNet(p) = Sum(Shown(p), BookingsOf(p))
  <1> SUFFICES ASSUME NEW p \in Providers
               PROVE  ShownNet(p) = Sum(Shown(p), BookingsOf(p))
    OBVIOUS
  <1> DEFINE S == BookingsOf(p)
             F == Shown(p)
  <1>1. \A s \in SUBSET S : s # {} => Chosen(s) \in S
    BY DEF Chosen
  <1>2. \A g : [s \in SUBSET S |-> IF s = {} THEN 0 ELSE F[Chosen(s)] + g[s \ {Chosen(s)}]]
             = [s \in SUBSET S |-> IF s = {} THEN 0
                   ELSE (IF RowsOf(Chosen(s), "net") = {} THEN 0 ELSE SplitPrice.net)
                        + g[s \ {Chosen(s)}]]
    BY <1>1 DEF Shown
  <1>3. Sum(F, S) = (CHOOSE g : g = [s \in SUBSET S |->
                        IF s = {} THEN 0 ELSE F[Chosen(s)] + g[s \ {Chosen(s)}]])[S]
    BY DEF Sum, Tally, IsTally
  <1>4. ShownNet(p) = (CHOOSE g : g = [s \in SUBSET S |->
                          IF s = {} THEN 0
                          ELSE (IF RowsOf(Chosen(s), "net") = {} THEN 0 ELSE SplitPrice.net)
                               + g[s \ {Chosen(s)}]])[S]
    BY DEF ShownNet, MapThenSumSet, MapThenFoldSet, Chosen
  <1>5. (CHOOSE g : g = [s \in SUBSET S |->
                    IF s = {} THEN 0 ELSE F[Chosen(s)] + g[s \ {Chosen(s)}]])
          = (CHOOSE g : g = [s \in SUBSET S |->
                    IF s = {} THEN 0
                    ELSE (IF RowsOf(Chosen(s), "net") = {} THEN 0 ELSE SplitPrice.net)
                    + g[s \ {Chosen(s)}]])
    BY <1>2
  <1> QED
    BY <1>3, <1>4, <1>5

\* Both sums are amounts of money.
LEMMA SumsAreMoney ==
    TypeOK => \A p \in Providers :
        /\ Credited(p) \in Int /\ PaidOut(p) \in Int
        /\ \A b \in BookingsOf(p) : Credits(p)[b] \in Int
        /\ \A i \in PayoutsOf(p) : Amounts(p)[i] \in Int
  <1> SUFFICES ASSUME TypeOK, NEW p \in Providers
               PROVE  /\ Credited(p) \in Int /\ PaidOut(p) \in Int
                      /\ \A b \in BookingsOf(p) : Credits(p)[b] \in Int
                      /\ \A i \in PayoutsOf(p) : Amounts(p)[i] \in Int
    OBVIOUS
  <1>1. \A b \in BookingsOf(p) : Credits(p)[b] \in Int
    BY NetIsNatural, RowsAreFinite DEF Credits, BookingsOf
  <1>2. \A i \in PayoutsOf(p) : Amounts(p)[i] \in Int
    <2>1. \A i \in DOMAIN payouts : payouts[i] \in Payout
      BY DEF TypeOK
    <2> QED
      BY <2>1 DEF Amounts, PayoutsOf, Payout
  <1>3. IsFiniteSet(BookingsOf(p)) /\ IsFiniteSet(PayoutsOf(p))
    BY TheirsAreFinite
  <1> QED
    BY <1>1, <1>2, <1>3, CreditedIsSum, PaidOutIsSum, SumIsInt

---------------------------------------------------------------------------
\* Types.

\* Nobody works and nothing is due at the start.
LEMMA InitTypeOK == Init => TypeOK
    BY BoundsAreNatural DEF Init, TypeOK, Statuses, Unset, TriggerWork, PollerWork, Idle, Workers

\* A worker on its way to a payout: who it is for, and where it stands.
LEMMA Payers ==
    ASSUME TypeOK, NEW w \in Workers, work[w].pc \in {"look", "net", "paid", "pay"}
    PROVE  /\ work[w] \in Paying({"look", "net", "paid", "pay", "over"}, Keys \cup {NoKey})
           /\ work[w].provider \in Providers
           /\ w \in Triggers => work[w] \in Paying({"look", "net", "paid", "pay", "over"}, Keys)
           /\ w \in Pollers => /\ work[w] \in Paying({"net", "paid", "pay"}, {NoKey})
                               /\ claimed[w] # << >>
    BY DEF TypeOK, Workers, TriggerWork, PollerWork, Paying, Idle

\* The steps of the ledger, the accounts and the days.
LEMMA LedgerTypeOK ==
    ASSUME TypeOK,
           \/ Day \/ (\E b \in Bookings : Split(b) \/ SplitCut(b))
           \/ (\E p \in Providers : StartOnboarding(p) \/ CompleteOnboarding(p))
    PROVE  TypeOK'
  <1>1. CASE Day
    BY <1>1, BoundsAreNatural DEF Day, TypeOK, Later, Unset
  <1>2. ASSUME NEW b \in Bookings, Split(b)
        PROVE  TypeOK'
    <2>1. /\ ledger[b] \in Seq({"gross", "commission", "net"})
          /\ Len(ledger[b]) \in Nat
      BY DEF TypeOK
    <2>2. SplitRows[(Len(ledger[b]) % 3) + 1] \in {"gross", "commission", "net"}
      <3>1. PICK n \in Nat : n = Len(ledger[b])
        BY <2>1
      <3>2. n % 3 = 0 \/ n % 3 = 1 \/ n % 3 = 2
        OBVIOUS
      <3>3. (n % 3) + 1 \in {1, 2, 3}
        BY <3>2
      <3>4. SplitRows[1] = "gross" /\ SplitRows[2] = "commission" /\ SplitRows[3] = "net"
        BY DEF SplitRows
      <3> QED
        BY <3>1, <3>3, <3>4
    <2>3. ledger' \in [Bookings -> Seq({"gross", "commission", "net"})]
      BY <1>2, <2>1, <2>2 DEF Split, TypeOK
    <2> QED
      BY <1>2, <2>3 DEF Split, TypeOK
  <1>3. ASSUME NEW b \in Bookings, SplitCut(b)
        PROVE  TypeOK'
    BY <1>3, BoundsAreNatural DEF SplitCut, Strike, TypeOK
  <1>4. ASSUME NEW p \in Providers, StartOnboarding(p) \/ CompleteOnboarding(p)
        PROVE  TypeOK'
    <2>1. ClockStarted(p) \in Int /\ ClockStarted(p) >= Unset
      BY BoundsAreNatural, ScheduleIsPositive DEF ClockStarted, Unset, TypeOK
    <2>2. status' \in [Providers -> Statuses]
      BY <1>4 DEF StartOnboarding, CompleteOnboarding, TypeOK, Statuses
    <2>3. dueIn' \in [Providers -> Int] /\ \A r \in Providers : dueIn'[r] >= Unset
      BY <1>4, <2>1 DEF StartOnboarding, CompleteOnboarding, TypeOK
    <2> QED
      BY <1>4, <2>2, <2>3 DEF StartOnboarding, CompleteOnboarding, TypeOK
  <1> QED
    BY <1>1, <1>2, <1>3, <1>4

\* What a worker pays is a payout.
LEMMA RowIsPayout ==
    ASSUME TypeOK, NEW w \in Workers, work[w].pc = "pay", Pending(w) > 0,
           NEW by \in {"admin", "schedule"}
    PROVE  Row(w, by) \in Payout /\ Row(w, by).provider = work[w].provider
           /\ Row(w, by).key = work[w].key /\ Row(w, by).amount = work[w].net - work[w].paid
    BY Payers DEF Row, Pending, Payout, Paying

\* One worker moves, and what it touches keeps its type.
LEMMA OneWorkerMoves ==
    ASSUME TypeOK, NEW w \in Workers, NEW v, work' = [work EXCEPT ![w] = v],
           w \in Triggers => v \in TriggerWork,
           w \in Pollers => v \in PollerWork /\ (v.pc \in {"net", "paid", "pay"} => claimed'[w] # << >>),
           claimed' \in [Pollers -> Seq(Providers)],
           \A o \in Pollers : o # w => claimed'[o] = claimed[o],
           payouts' \in Seq(Payout), faults' \in 0..MaxFaults,
           dueIn' \in [Providers -> Int], \A p \in Providers : dueIn'[p] >= Unset,
           UNCHANGED <<ledger, cut, status>>
    PROVE  TypeOK'
  <1>1. work' \in [Workers -> TriggerWork \cup PollerWork]
    BY DEF TypeOK, Workers
  <1>2. \A t \in Triggers : work'[t] \in TriggerWork
    BY DEF TypeOK, Workers
  <1>3. \A q \in Pollers :
           work'[q] \in PollerWork /\ (work'[q].pc \in {"net", "paid", "pay"} => claimed'[q] # << >>)
    BY DEF TypeOK, Workers
  <1> QED
    BY <1>1, <1>2, <1>3 DEF TypeOK

\* A worker that reads the balance or what was paid knows a sum of money.
LEMMA ReadsTypeOK ==
    ASSUME TypeOK, NEW w \in Workers, ReadNet(w) \/ ReadPaid(w)
    PROVE  TypeOK'
  <1>1. /\ work[w].provider \in Providers
        /\ w \in Triggers => work[w] \in Paying({"look", "net", "paid", "pay", "over"}, Keys)
        /\ w \in Pollers => work[w] \in Paying({"net", "paid", "pay"}, {NoKey}) /\ claimed[w] # << >>
    BY Payers DEF ReadNet, ReadPaid
  <1>2. PICK n \in Int, m \in Int :
           n = Credited(work[w].provider) /\ m = PaidOut(work[w].provider)
    BY <1>1, SumsAreMoney
  <1>3. PICK v \in {[work[w] EXCEPT !.pc = "paid", !.net = n], [work[w] EXCEPT !.pc = "pay", !.paid = m]} :
           work' = [work EXCEPT ![w] = v]
    BY <1>2 DEF ReadNet, ReadPaid, TypeOK
  <1>4. ASSUME NEW P, NEW K, work[w] \in Paying(P, K)
        PROVE  v \in Paying({"paid", "pay"}, K)
    <2>1. PICK r \in Paying(P, K) : r = work[w]
      BY <1>4
    <2>2. v = [r EXCEPT !.pc = "paid", !.net = n] \/ v = [r EXCEPT !.pc = "pay", !.paid = m]
      BY <1>3, <2>1
    <2> QED
      BY <2>2 DEF Paying
  <1>5. /\ w \in Triggers => v \in Paying({"paid", "pay"}, Keys)
        /\ w \in Pollers => v \in Paying({"paid", "pay"}, {NoKey})
    BY <1>1, <1>4
  <1>6. /\ w \in Triggers => v \in TriggerWork
        /\ w \in Pollers => v \in PollerWork
    BY <1>5 DEF TriggerWork, PollerWork, Paying
  <1>7. UNCHANGED <<ledger, cut, status, dueIn, payouts, claimed, faults>>
    BY DEF ReadNet, ReadPaid
  <1>8. /\ claimed' \in [Pollers -> Seq(Providers)] /\ payouts' \in Seq(Payout)
        /\ dueIn' \in [Providers -> Int] /\ (\A p \in Providers : dueIn'[p] >= Unset)
        /\ faults' \in 0..MaxFaults
    BY <1>7 DEF TypeOK
  <1> QED
    BY <1>1, <1>3, <1>6, <1>7, <1>8, OneWorkerMoves

\* The steps of a payout an administrator triggers.
LEMMA TriggerTypeOK ==
    ASSUME TypeOK, NEW t \in Triggers,
           \/ \E p \in Providers, k \in Keys : Trigger(t, p, k)
           \/ Look(t) \/ PayOnDemand(t)
    PROVE  TypeOK'
  <1>t. t \in Workers /\ t \notin Pollers
    BY WorkersAreDistinct DEF Workers
  <1>1. ASSUME NEW v \in TriggerWork, work' = [work EXCEPT ![t] = v], payouts' \in Seq(Payout),
               UNCHANGED <<ledger, cut, status, dueIn, claimed, faults>>
        PROVE  TypeOK'
    <2>1. /\ claimed' \in [Pollers -> Seq(Providers)]
          /\ dueIn' \in [Providers -> Int] /\ (\A p \in Providers : dueIn'[p] >= Unset)
          /\ faults' \in 0..MaxFaults
      BY <1>1 DEF TypeOK
    <2> QED
      BY <1>1, <1>t, <2>1, OneWorkerMoves
  <1>2. ASSUME NEW p \in Providers, NEW k \in Keys, Trigger(t, p, k)
        PROVE  TypeOK'
    <2>1. Begun(p, k, "look") \in TriggerWork
      BY DEF Begun, TriggerWork, Paying
    <2>2. payouts' \in Seq(Payout)
      BY <1>2 DEF Trigger, TypeOK
    <2> QED
      BY <2>1, <2>2, <1>1, <1>2 DEF Trigger
  <1>3. CASE Look(t) \/ PayOnDemand(t)
    <2>1. work[t] \in Paying({"look", "net", "paid", "pay", "over"}, Keys)
      BY <1>3, <1>t, Payers DEF Look, PayOnDemand
    <2>2. \A i \in WithKey(work[t].key) : i \in Nat
      BY DEF WithKey, TypeOK
    <2>3. payouts' \in Seq(Payout) /\ Len(payouts') \in Nat
      <3>1. PayOnDemand(t) /\ Pending(t) > 0 => Row(t, "admin") \in Payout
        BY <1>t, RowIsPayout DEF PayOnDemand
      <3>2. \/ payouts' = payouts
            \/ PayOnDemand(t) /\ Pending(t) > 0 /\ payouts' = Append(payouts, Row(t, "admin"))
        BY <1>3 DEF PayOnDemand, Look
      <3>3. payouts \in Seq(Payout)
        BY DEF TypeOK
      <3> QED
        BY <3>1, <3>2, <3>3
    <2>4. PICK i \in Nat, pc \in {"net", "over"} :
             \/ work' = [work EXCEPT ![t].pc = pc]
             \/ work' = [work EXCEPT ![t].pc = pc, ![t].answer = i]
      BY <1>3, <2>2, <2>3 DEF Look, PayOnDemand, Go, Answer
    <2>5. PICK v \in {[work[t] EXCEPT !.pc = pc], [work[t] EXCEPT !.pc = pc, !.answer = i]} :
             work' = [work EXCEPT ![t] = v]
      BY <2>4, <1>t DEF TypeOK
    <2>6. v \in Paying({pc}, Keys)
      <3>1. PICK r \in Paying({"look", "net", "paid", "pay", "over"}, Keys) : r = work[t]
        BY <2>1
      <3>2. v = [r EXCEPT !.pc = pc] \/ v = [r EXCEPT !.pc = pc, !.answer = i]
        BY <2>5, <3>1
      <3> QED
        BY <3>2 DEF Paying
    <2>7. v \in TriggerWork
      BY <2>6 DEF TriggerWork, Paying
    <2> QED
      BY <2>3, <2>5, <2>7, <1>1, <1>3 DEF Look, PayOnDemand
  <1> QED
    BY <1>2, <1>3

\* The steps of a poller's tick.
LEMMA PollerTypeOK ==
    ASSUME TypeOK, NEW q \in Pollers,
           \/ BeginTick(q) \/ (\E p \in Providers : Claim(q, p)) \/ ClaimsDone(q)
           \/ NextAccount(q) \/ PayOnSchedule(q) \/ Crash(q)
    PROVE  TypeOK'
  <1>q. q \in Workers /\ q \notin Triggers
    BY WorkersAreDistinct DEF Workers
  <1>t. /\ claimed \in [Pollers -> Seq(Providers)] /\ payouts \in Seq(Payout)
        /\ dueIn \in [Providers -> Int] /\ (\A p \in Providers : dueIn[p] >= Unset)
        /\ faults \in 0..MaxFaults
    BY DEF TypeOK
  <1>n. /\ Idle \in PollerWork /\ [pc |-> "claiming"] \in PollerWork /\ [pc |-> "next"] \in PollerWork
        /\ Idle.pc = "idle" /\ [pc |-> "claiming"].pc = "claiming" /\ [pc |-> "next"].pc = "next"
    BY DEF PollerWork, Idle
  <1>2. CASE BeginTick(q) \/ ClaimsDone(q)
    <2>1. work[q].pc = "claiming" => work[q] = [pc |-> "claiming"]
      <3>1. work[q] \in PollerWork
        BY DEF TypeOK
      <3> QED
        BY <3>1 DEF PollerWork, Paying, Idle
    <2>2. PICK v \in {[pc |-> "claiming"], [pc |-> "next"]} : work' = [work EXCEPT ![q] = v]
      <3>1. CASE BeginTick(q)
        BY <3>1 DEF BeginTick
      <3>2. CASE ClaimsDone(q)
        <4>1. work' = [work EXCEPT ![q] = [work[q] EXCEPT !.pc = "next"]]
          BY <3>2, <1>q DEF ClaimsDone, Go, TypeOK
        <4>2. [work[q] EXCEPT !.pc = "next"] = [pc |-> "next"]
          BY <2>1, <3>2 DEF ClaimsDone
        <4> QED
          BY <4>1, <4>2
      <3> QED
        BY <1>2, <3>1, <3>2
    <2>3. v \in PollerWork /\ v.pc \notin {"net", "paid", "pay"}
      BY <1>n, <2>2
    <2>4. UNCHANGED <<ledger, cut, status, dueIn, payouts, faults, claimed>>
      BY <1>2 DEF BeginTick, ClaimsDone
    <2> QED
      BY <2>2, <2>3, <2>4, <1>q, <1>t, OneWorkerMoves
  <1>3. ASSUME NEW p \in Providers, Claim(q, p)
        PROVE  TypeOK'
    <2>1. Append(claimed[q], p) \in Seq(Providers)
      BY DEF TypeOK
    <2> QED
      BY <1>3, <2>1 DEF Claim, TypeOK
  <1>4. CASE NextAccount(q)
    <2>1. claimed[q] # << >> => Head(claimed[q]) \in Providers
      BY <1>t
    <2>2. PICK v : /\ work' = [work EXCEPT ![q] = v] 
                   /\ v = IF claimed[q] = << >> THEN Idle ELSE Begun(Head(claimed[q]), NoKey, "net")
      BY <1>4 DEF NextAccount
    <2>3. v \in PollerWork /\ (v.pc \in {"net", "paid", "pay"} => claimed[q] # << >>)
      BY <2>1, <2>2, <1>n DEF Begun, PollerWork, Paying
    <2>4. UNCHANGED <<ledger, cut, status, dueIn, payouts, faults, claimed>>
      BY <1>4 DEF NextAccount
    <2> QED
      BY <2>2, <2>3, <2>4, <1>q, <1>t, OneWorkerMoves
  <1>5. CASE PayOnSchedule(q)
    <2>1. claimed[q] # << >> /\ work[q].provider \in Providers
      BY <1>5, <1>q, Payers DEF PayOnSchedule
    <2>2. claimed' \in [Pollers -> Seq(Providers)] /\ \A o \in Pollers : o # q => claimed'[o] = claimed[o]
      <3>1. Tail(claimed[q]) \in Seq(Providers)
        BY <1>t, <2>1
      <3> QED
        BY <1>5, <1>t, <3>1 DEF PayOnSchedule
    <2>3. payouts' \in Seq(Payout)
      BY <1>5, <1>q, <1>t, RowIsPayout DEF PayOnSchedule
    <2>4. dueIn' \in [Providers -> Int] /\ \A p \in Providers : dueIn'[p] >= Unset
      BY <1>5, <1>t, <2>1, ScheduleIsPositive, BoundsAreNatural DEF PayOnSchedule, Unset
    <2>5. work' = [work EXCEPT ![q] = [pc |-> "next"]] /\ UNCHANGED <<ledger, cut, status, faults>>
      BY <1>5 DEF PayOnSchedule
    <2> QED
      BY <2>2, <2>3, <2>4, <2>5, <1>q, <1>t, <1>n, OneWorkerMoves
  <1>6. CASE Crash(q)
    <2>1. claimed' \in [Pollers -> Seq(Providers)] /\ \A o \in Pollers : o # q => claimed'[o] = claimed[o]
      BY <1>6, <1>t DEF Crash
    <2>2. work' = [work EXCEPT ![q] = Idle] /\ UNCHANGED <<ledger, cut, status, dueIn, payouts>>
      BY <1>6 DEF Crash
    <2>3. faults' \in 0..MaxFaults
      BY <1>6, <1>t, BoundsAreNatural DEF Crash, Strike
    <2> QED
      BY <2>1, <2>2, <2>3, <1>q, <1>t, <1>n, OneWorkerMoves
  <1> QED
    BY <1>2, <1>3, <1>4, <1>5, <1>6

\* An error on the way.
LEMMA FailureTypeOK ==
    ASSUME TypeOK, NEW w \in Workers, PayoutFails(w)
    PROVE  TypeOK'
  <1>0. faults' \in 0..MaxFaults
    BY BoundsAreNatural DEF PayoutFails, Strike, TypeOK
  <1>t. /\ claimed \in [Pollers -> Seq(Providers)] /\ payouts \in Seq(Payout)
        /\ dueIn \in [Providers -> Int] /\ (\A p \in Providers : dueIn[p] >= Unset)
    BY DEF TypeOK
  <1>1. CASE w \in Pollers
    <2>1. w \notin Triggers /\ claimed[w] # << >>
      BY <1>1, Payers, WorkersAreDistinct DEF PayoutFails
    <2>2. Tail(claimed[w]) \in Seq(Providers)
      BY <1>1, <1>t, <2>1
    <2>3. claimed' \in [Pollers -> Seq(Providers)] /\ \A o \in Pollers : o # w => claimed'[o] = claimed[o]
      BY <1>1, <1>t, <2>2 DEF PayoutFails
    <2>4. /\ work' = [work EXCEPT ![w] = [pc |-> "next"]]
          /\ UNCHANGED <<ledger, cut, status, dueIn, payouts>>
      BY <1>1 DEF PayoutFails
    <2>5. [pc |-> "next"] \in PollerWork /\ [pc |-> "next"].pc \notin {"net", "paid", "pay"}
      BY DEF PollerWork
    <2> QED
      BY <1>0, <1>t, <2>1, <2>3, <2>4, <2>5, OneWorkerMoves
  <1>2. CASE w \notin Pollers
    <2>1. work[w] \in Paying({"look", "net", "paid", "pay", "over"}, Keys)
      BY <1>2, Payers DEF PayoutFails, Workers
    <2>2. /\ work' = [work EXCEPT ![w] = [work[w] EXCEPT !.pc = "over"]]
          /\ UNCHANGED <<ledger, cut, status, dueIn, payouts, claimed>>
      BY <1>2 DEF PayoutFails, Go, TypeOK
    <2>3. [work[w] EXCEPT !.pc = "over"] \in TriggerWork
      <3>1. [work[w] EXCEPT !.pc = "over"] \in Paying({"over"}, Keys)
        <4>1. PICK r \in Paying({"look", "net", "paid", "pay", "over"}, Keys) : r = work[w]
          BY <2>1
        <4> QED
          BY <4>1 DEF Paying
      <3> QED
        BY <3>1 DEF TriggerWork, Paying
    <2> QED
      BY <1>0, <1>t, <1>2, <2>2, <2>3, OneWorkerMoves
  <1> QED
    BY <1>1, <1>2

\* Every variable keeps its type, what workers have read and whom they pay included.
THEOREM PayoutsTypeCorrect == Spec => []TypeOK
  <1>1. TypeOK /\ [Next]_vars => TypeOK'
    <2> SUFFICES ASSUME TypeOK, [Next]_vars
                 PROVE  TypeOK'
      OBVIOUS
    <2>1. CASE UNCHANGED vars
      BY <2>1 DEF vars, TypeOK
    <2>2. ASSUME NEW w \in Workers, ReadNet(w) \/ ReadPaid(w) \/ PayoutFails(w)
          PROVE  TypeOK'
      BY <2>2, ReadsTypeOK, FailureTypeOK
    <2> QED
      BY <2>1, <2>2, LedgerTypeOK, TriggerTypeOK, PollerTypeOK DEF Next, PollerStep, Workers
  <1> QED
    BY InitTypeOK, <1>1, PTL DEF Spec

---------------------------------------------------------------------------
\* One payout per key.

\* A step makes one payout at most, of a worker that had come to paying; one
\* that an administrator triggered finds no payout with its key.
LEMMA OnePayoutAtMost ==
    ASSUME TypeOK, [Next]_vars
    PROVE  \/ payouts' = payouts
           \/ \E w \in Workers, by \in {"admin", "schedule"} :
                 /\ work[w].pc = "pay" /\ Pending(w) > 0 /\ work'[w].pc # "pay"
                 /\ payouts' = Append(payouts, Row(w, by))
                 /\ work[w].key \in Keys => WithKey(work[w].key) = {}
                 /\ ledger' = ledger
  <1>1. CASE UNCHANGED vars
    BY <1>1 DEF vars
  <1>2. CASE Day \/ (\E b \in Bookings : Split(b) \/ SplitCut(b))
             \/ (\E p \in Providers : StartOnboarding(p) \/ CompleteOnboarding(p))
    BY <1>2 DEF Day, Split, SplitCut, StartOnboarding, CompleteOnboarding
  <1>3. ASSUME NEW w \in Workers, ReadNet(w) \/ ReadPaid(w) \/ PayoutFails(w)
        PROVE  payouts' = payouts
    BY <1>3 DEF ReadNet, ReadPaid, PayoutFails
  <1>4. ASSUME NEW t \in Triggers,
               (\E p \in Providers, k \in Keys : Trigger(t, p, k)) \/ Look(t)
        PROVE  payouts' = payouts
    BY <1>4 DEF Trigger, Look
  <1>5. ASSUME NEW q \in Pollers,
               \/ BeginTick(q) \/ (\E p \in Providers : Claim(q, p)) \/ ClaimsDone(q)
               \/ NextAccount(q) \/ Crash(q)
        PROVE  payouts' = payouts
    BY <1>5 DEF BeginTick, Claim, ClaimsDone, NextAccount, Crash
  <1>6. ASSUME NEW t \in Triggers, PayOnDemand(t), payouts' # payouts
        PROVE  /\ t \in Workers
               /\ work[t].pc = "pay" /\ Pending(t) > 0 /\ work'[t].pc # "pay"
               /\ payouts' = Append(payouts, Row(t, "admin"))
               /\ work[t].key \in Keys => WithKey(work[t].key) = {}
               /\ ledger' = ledger
    <2>1. t \in Workers /\ work[t] \in TriggerWork /\ work[t].pc = "pay"
      BY <1>6 DEF Workers, TypeOK, PayOnDemand
    <2>2. work[t] \in Paying({"look", "net", "paid", "pay", "over"}, Keys)
      BY <2>1 DEF TriggerWork, Idle
    <2>3. /\ Pending(t) > 0 /\ ~Conflict(t)
          /\ payouts' = Append(payouts, Row(t, "admin"))
          /\ work' = [work EXCEPT ![t].pc = "over", ![t].answer = Len(payouts')]
          /\ ledger' = ledger
      BY <1>6 DEF PayOnDemand
    <2>4. work'[t].pc = "over"
      BY <2>1, <2>2, <2>3 DEF TypeOK, Paying
    <2> QED
      BY <2>1, <2>3, <2>4 DEF Conflict
  <1>7. ASSUME NEW q \in Pollers, PayOnSchedule(q), payouts' # payouts
        PROVE  /\ q \in Workers
               /\ work[q].pc = "pay" /\ Pending(q) > 0 /\ work'[q].pc # "pay"
               /\ payouts' = Append(payouts, Row(q, "schedule"))
               /\ work[q].key \in Keys => WithKey(work[q].key) = {}
               /\ ledger' = ledger
    <2>1. q \in Workers /\ work[q] \in PollerWork /\ work[q].pc = "pay"
      BY <1>7 DEF Workers, TypeOK, PayOnSchedule
    <2>2. work[q].key = NoKey
      BY <2>1 DEF PollerWork, Paying, Idle
    <2>3. work'[q].pc = "next"
      BY <1>7, <2>1 DEF PayOnSchedule, TypeOK
    <2> QED
      BY <1>7, <2>1, <2>2, <2>3, NoKeyIsNull DEF PayOnSchedule
  <1> QED
    BY <1>1, <1>2, <1>3, <1>4, <1>5, <1>6, <1>7 DEF Next, PollerStep, Workers

\* No two payouts have a key, and a trigger has an answer only at its end: a
\* payout with its key.
KeysApart ==
    \A i, j \in DOMAIN payouts :
        payouts[i].key \in Keys /\ payouts[i].key = payouts[j].key => i = j
Told(t) ==
    \/ work[t] = Idle
    \/ work[t].answer = 0
    \/ work[t].pc = "over" /\ work[t].answer \in WithKey(work[t].key)
KeyInv == KeysApart /\ \A t \in Triggers : Told(t)

\* A new payout has a key no payout has, or none.
LEMMA KeysStayApart ==
    ASSUME TypeOK, KeysApart, [Next]_vars
    PROVE  KeysApart' /\ \A k : WithKey(k) \subseteq WithKey(k)'
  <1>1. CASE payouts' = payouts
    BY <1>1 DEF KeysApart, WithKey
  <1>2. ASSUME NEW w \in Workers, NEW by \in {"admin", "schedule"},
               payouts' = Append(payouts, Row(w, by)),
               work[w].key \in Keys => WithKey(work[w].key) = {}
        PROVE  KeysApart' /\ \A k : WithKey(k) \subseteq WithKey(k)'
    <2>1. payouts \in Seq(Payout) /\ Len(payouts) \in Nat
      BY DEF TypeOK
    <2>2. PICK n \in Nat : n = Len(payouts)
      BY <2>1
    <2>0. PICK row : row = Row(w, by)
      OBVIOUS
    <2>3. row = Row(w, by) /\ row.key = work[w].key
      BY <2>0 DEF Row
    <2>4. /\ DOMAIN payouts = 1..n /\ DOMAIN payouts' = 1..(n + 1)
          /\ payouts'[n + 1] = row /\ \A i \in 1..n : payouts'[i] = payouts[i]
      BY <1>2, <2>1, <2>2, <2>3
    <2>5. \A k : WithKey(k) \subseteq WithKey(k)'
      BY <2>2, <2>4 DEF WithKey
    <2>6. ASSUME NEW i \in 1..(n + 1), NEW j \in 1..(n + 1),
                 payouts'[i].key \in Keys, payouts'[i].key = payouts'[j].key
          PROVE  i = j
      <3>1. CASE i \in 1..n /\ j \in 1..n
        BY <2>4, <2>6, <3>1 DEF KeysApart
      <3>2. i = n + 1 /\ j \in 1..n => payouts[j].key = work[w].key /\ j \in WithKey(work[w].key)
        BY <2>3, <2>4, <2>6 DEF WithKey
      <3>3. j = n + 1 /\ i \in 1..n => payouts[i].key = work[w].key /\ i \in WithKey(work[w].key)
        BY <2>3, <2>4, <2>6 DEF WithKey
      <3>4. (i = n + 1 \/ j = n + 1) => work[w].key \in Keys
        BY <2>3, <2>4, <2>6
      <3> QED
        BY <1>2, <2>2, <3>1, <3>2, <3>3, <3>4
    <2> QED
      BY <2>4, <2>5, <2>6 DEF KeysApart
  <1> QED
    BY <1>1, <1>2, OnePayoutAtMost

\* What a step tells a trigger.
LEMMA ToldByAStep ==
    ASSUME TypeOK, KeyInv, [Next]_vars, NEW t \in Triggers
    PROVE  Told(t)'
  <1>t. t \in Workers /\ t \notin Pollers /\ work[t] \in TriggerWork /\ Told(t)
    BY WorkersAreDistinct DEF Workers, TypeOK, KeyInv
  <1>g. \A k : WithKey(k) \subseteq WithKey(k)'
    BY KeysStayApart DEF KeyInv
  <1>w. \A k : WithKey(k) = {i \in DOMAIN payouts : payouts[i].key = k}
    BY DEF WithKey
  <1>1. CASE work'[t] = work[t]
    BY <1>1, <1>t, <1>g DEF Told
  <1>2. ASSUME NEW p \in Providers, NEW k \in Keys, Trigger(t, p, k)
        PROVE  Told(t)'
    BY <1>2, <1>t DEF Trigger, Told, Begun, TypeOK
  <1>3. CASE Look(t) \/ PayOnDemand(t) \/ ReadNet(t) \/ ReadPaid(t) \/ PayoutFails(t)
    <2>1. work[t] \in Paying({"look", "net", "paid", "pay", "over"}, Keys)
          /\ work[t].pc # "over" /\ work[t].pc # "idle"
      BY <1>3, <1>t DEF Look, PayOnDemand, ReadNet, ReadPaid, PayoutFails, TriggerWork, Idle
    <2>2. work[t].answer = 0
      BY <1>t, <2>1 DEF Told, Idle
    <2>3. CASE \E pc : work' = [work EXCEPT ![t].pc = pc]
      BY <1>t, <2>1, <2>2, <2>3 DEF Told, TypeOK, Paying
    <2>4. CASE ReadNet(t) \/ ReadPaid(t)
      BY <1>t, <2>1, <2>2, <2>4 DEF ReadNet, ReadPaid, Told, TypeOK, Paying
    <2>5. ASSUME NEW i \in WithKey(work[t].key)',
                 work' = [work EXCEPT ![t].pc = "over", ![t].answer = i]
          PROVE  Told(t)'
      <3>1. work'[t].pc = "over" /\ work'[t].answer = i /\ work'[t].key = work[t].key
        BY <1>t, <2>1, <2>5 DEF TypeOK, Paying
      <3>2. WithKey(work[t].key)' = {j \in DOMAIN payouts' : payouts'[j].key = work'[t].key}
        BY DEF WithKey
      <3> QED
        BY <2>5, <3>1, <3>2 DEF Told, WithKey
    <2>6. CASE Pending(t) > 0 /\ payouts' = Append(payouts, Row(t, "admin"))
               /\ work' = [work EXCEPT ![t].pc = "over", ![t].answer = Len(payouts')]
      <3>1. payouts \in Seq(Payout)
        BY DEF TypeOK
      <3>0. PICK row : row = Row(t, "admin")
        OBVIOUS
      <3>2. row = Row(t, "admin") /\ row.key = work[t].key
        BY <3>0 DEF Row
      <3>3. Len(payouts') \in DOMAIN payouts' /\ payouts'[Len(payouts')] = row
        BY <2>6, <3>1, <3>2
      <3>4. /\ work'[t].pc = "over" /\ work'[t].answer = Len(payouts')
            /\ work'[t].key = work[t].key
        BY <1>t, <2>1, <2>6 DEF TypeOK, Paying
      <3> QED
        BY <3>2, <3>3, <3>4 DEF Told, WithKey
    <2>7. ASSUME NEW i \in WithKey(work[t].key), payouts' = payouts,
                 work' = [work EXCEPT ![t].pc = "over", ![t].answer = i]
          PROVE  Told(t)'
      <3>1. work'[t].pc = "over" /\ work'[t].answer = i /\ work'[t].key = work[t].key
        BY <1>t, <2>1, <2>7 DEF TypeOK, Paying
      <3> QED
        BY <2>7, <3>1 DEF Told, WithKey
    <2>8. CASE Look(t)
      BY <2>3, <2>7, <2>8 DEF Look, Answer, Go
    <2>9. CASE PayOnDemand(t)
      BY <2>3, <2>6, <2>7, <2>9 DEF PayOnDemand, Answer, Go
    <2>10. CASE PayoutFails(t)
      BY <1>t, <2>3, <2>10 DEF PayoutFails, Go
    <2> QED
      BY <1>3, <2>4, <2>8, <2>9, <2>10
  <1>4. ASSUME NEW w \in Workers, w # t,
               \/ ReadNet(w) \/ ReadPaid(w) \/ PayoutFails(w) \/ Look(w) \/ PayOnDemand(w)
               \/ \E p \in Providers, k \in Keys : Trigger(w, p, k)
        PROVE  work'[t] = work[t]
    BY <1>4, <1>t DEF ReadNet, ReadPaid, PayoutFails, Look, PayOnDemand, Trigger, Answer, Go, TypeOK
  <1>5. ASSUME NEW q \in Pollers, PollerStep(q) \/ Crash(q), ~ReadNet(q), ~ReadPaid(q)
        PROVE  work'[t] = work[t]
    BY <1>5, <1>t DEF PollerStep, Crash, BeginTick, Claim, ClaimsDone, NextAccount,
                     PayOnSchedule, Go, TypeOK
  <1>6. CASE UNCHANGED vars \/ Day \/ (\E b \in Bookings : Split(b) \/ SplitCut(b))
             \/ (\E p \in Providers : StartOnboarding(p) \/ CompleteOnboarding(p))
    BY <1>6, <1>1 DEF vars, Day, Split, SplitCut, StartOnboarding, CompleteOnboarding
  <1> QED
    <2>1. Triggers \subseteq Workers /\ Pollers \subseteq Workers
      BY DEF Workers
    <2>2. ASSUME NEW w \in Workers, ReadNet(w) \/ ReadPaid(w) \/ PayoutFails(w)
          PROVE  Told(t)'
      BY <2>2, <1>1, <1>3, <1>4
    <2>3. ASSUME NEW u \in Triggers,
                 \/ \E p \in Providers, k \in Keys : Trigger(u, p, k)
                 \/ Look(u) \/ PayOnDemand(u)
          PROVE  Told(t)'
      BY <2>1, <2>3, <1>1, <1>2, <1>3, <1>4
    <2>4. ASSUME NEW q \in Pollers, PollerStep(q) \/ Crash(q)
          PROVE  Told(t)'
      BY <2>1, <2>2, <2>4, <1>1, <1>5
    <2> QED
      BY <2>1, <2>2, <2>3, <2>4, <1>6 DEF Next

\* A key pays once, and every call with it is told of that payout.
THEOREM OnePayoutForAKey == Spec => []OnePayoutPerKey
  <1>1. Init => KeyInv
    BY DEF Init, KeyInv, KeysApart, Told, Workers
  <1>2. TypeOK /\ KeyInv /\ [Next]_vars => KeyInv'
    BY KeysStayApart, ToldByAStep DEF KeyInv
  <1>3. TypeOK /\ KeyInv => OnePayoutPerKey
    <2> SUFFICES ASSUME TypeOK, KeyInv
                 PROVE  OnePayoutPerKey
      OBVIOUS
    <2>1. ASSUME NEW k \in Keys
          PROVE  Cardinality(WithKey(k)) <= 1
      <3>1. \A i, j \in WithKey(k) : i = j
        BY DEF KeyInv, KeysApart, WithKey
      <3>2. CASE WithKey(k) = {}
        BY <3>2, FS_EmptySet
      <3>3. CASE WithKey(k) # {}
        <4>1. PICK i : WithKey(k) = {i}
          BY <3>1, <3>3
        <4> QED
          BY <4>1, FS_Singleton
      <3> QED
        BY <3>2, <3>3
    <2>2. ASSUME NEW t \in Triggers, work[t].pc = "over", work[t].answer > 0
          PROVE  payouts[work[t].answer].key = work[t].key
      BY <2>2 DEF KeyInv, Told, Idle, WithKey
    <2> QED
      BY <2>1, <2>2 DEF OnePayoutPerKey
  <1> QED
    BY <1>1, <1>2, <1>3, PayoutsTypeCorrect, PTL DEF Spec

---------------------------------------------------------------------------
\* The pending balance, shown and paid.

\* The page and the payout find the same balance, unless a booking was split twice.
THEOREM EarningsAgreeAlways == Spec => []EarningsAgree
  <1>1. TypeOK => EarningsAgree
    <2> SUFFICES ASSUME TypeOK, NEW p \in Providers,
                        \A b \in BookingsOf(p) : Cardinality(RowsOf(b, "net")) <= 1
                 PROVE  ShownPending(p) = Credited(p) - PaidOut(p)
      BY DEF EarningsAgree
    <2>1. IsFiniteSet(BookingsOf(p))
      BY TheirsAreFinite
    <2>2. ASSUME NEW b \in BookingsOf(p)
          PROVE  Shown(p)[b] = Credits(p)[b]
      <3>1. b \in Bookings /\ Cardinality(RowsOf(b, "net")) <= 1
        BY DEF BookingsOf
      <3>2. IsFiniteSet(RowsOf(b, "net")) /\ Cardinality(RowsOf(b, "net")) \in Nat
        BY <3>1, RowsAreFinite
      <3>3. Cardinality(RowsOf(b, "net")) = 0 <=> RowsOf(b, "net") = {}
        BY <3>2, FS_EmptySet
      <3>4. Cardinality(RowsOf(b, "net")) = 0 \/ Cardinality(RowsOf(b, "net")) = 1
        BY <3>1, <3>2
      <3>5. /\ Shown(p)[b] = IF RowsOf(b, "net") = {} THEN 0 ELSE SplitPrice.net
            /\ Credits(p)[b] = Net * Cardinality(RowsOf(b, "net"))
        BY DEF Shown, Credits
      <3> QED
        BY <3>3, <3>4, <3>5, NetIsNatural
    <2>3. Sum(Shown(p), BookingsOf(p)) = Sum(Credits(p), BookingsOf(p))
      BY <2>1, <2>2, SumsAgree
    <2> QED
      BY <2>3, ShownIsSum, CreditedIsSum DEF ShownPending
  <1> QED
    BY <1>1, PayoutsTypeCorrect, PTL

---------------------------------------------------------------------------
\* A payout pays what is owed.

\* The same number of rows or more is the same credit or more.
LEMMA CreditGrows ==
    ASSUME TypeOK, TypeOK', \A b \in Bookings : RowsOf(b, "net") \subseteq RowsOf(b, "net")'
    PROVE  \A p \in Providers : Credited(p) <= Credited(p)'
  <1>6. (\A p \in Providers : Credited(p) = Sum(Credits(p), BookingsOf(p)))'
    BY CreditedIsSum, PTL
  <1> SUFFICES ASSUME NEW p \in Providers
               PROVE  Credited(p) <= Credited(p)'
    OBVIOUS
  <1>1. IsFiniteSet(BookingsOf(p)) /\ BookingsOf(p)' = BookingsOf(p)
    BY TheirsAreFinite DEF BookingsOf
  <1>2. (\A b \in Bookings : \A kind : IsFiniteSet(RowsOf(b, kind)) /\ Cardinality(RowsOf(b, kind)) \in Nat)'
    BY RowsAreFinite, PTL
  <1>3. ASSUME NEW b \in BookingsOf(p)
        PROVE  Credits(p)[b] \in Int /\ Credits(p)'[b] \in Int /\ Credits(p)[b] <= Credits(p)'[b]
    <2>1. b \in Bookings
      BY DEF BookingsOf
    <2>2. PICK old, new : old = RowsOf(b, "net") /\ new = RowsOf(b, "net")'
      OBVIOUS
    <2>3. /\ old \subseteq new /\ IsFiniteSet(new)
          /\ Cardinality(old) \in Nat /\ Cardinality(new) \in Nat
      BY <1>2, <2>1, <2>2, RowsAreFinite
    <2>4. Cardinality(old) <= Cardinality(new)
      BY <2>3, FS_Subset
    <2>5. PICK m \in Nat, n \in Nat : m = Cardinality(old) /\ n = Cardinality(new) /\ m <= n
      BY <2>3, <2>4
    <2>6. Credits(p)[b] = Net * m /\ Credits(p)'[b] = Net * n
      BY <1>1, <2>2, <2>5 DEF Credits
    <2>7. PICK share \in Nat : share = Net
      BY NetIsNatural
    <2>8. share * m <= share * n
      BY <2>5
    <2> QED
      BY <2>6, <2>7, <2>8
  <1>4. Sum(Credits(p), BookingsOf(p)) <= Sum(Credits(p)', BookingsOf(p))
    BY <1>1, <1>3, SumsCompare
  <1>5. Credited(p) = Sum(Credits(p), BookingsOf(p))
    BY CreditedIsSum
  <1>7. Credited(p)' = Sum(Credits(p)', BookingsOf(p))
    BY <1>1, <1>6
  <1> QED
    BY <1>4, <1>5, <1>7

\* Rows of the ledger stay.
LEMMA RowsStay ==
    ASSUME TypeOK, [Next]_vars
    PROVE  \A b \in Bookings : RowsOf(b, "net") \subseteq RowsOf(b, "net")'
  <1> SUFFICES ASSUME NEW b \in Bookings
               PROVE  RowsOf(b, "net") \subseteq RowsOf(b, "net")'
    OBVIOUS
  <1>1. CASE UNCHANGED ledger
    BY <1>1 DEF RowsOf
  <1>2. ASSUME NEW c \in Bookings, Split(c)
        PROVE  RowsOf(b, "net") \subseteq RowsOf(b, "net")'
    <2>1. ledger[b] \in Seq({"gross", "commission", "net"}) /\ ledger[c] \in Seq({"gross", "commission", "net"})
      BY DEF TypeOK
    <2>2. \/ ledger'[b] = ledger[b]
          \/ \E row : ledger'[b] = Append(ledger[b], row)
      BY <1>2 DEF Split, TypeOK
    <2>3. ASSUME NEW row, ledger'[b] = Append(ledger[b], row)
          PROVE  RowsOf(b, "net") \subseteq RowsOf(b, "net")'
      <3>1. PICK n \in Nat : n = Len(ledger[b])
        BY <2>1
      <3>2. /\ DOMAIN ledger[b] = 1..n /\ DOMAIN ledger'[b] = 1..(n + 1)
            /\ \A i \in 1..n : ledger'[b][i] = ledger[b][i]
        BY <2>1, <2>3, <3>1
      <3> QED
        BY <3>1, <3>2 DEF RowsOf
    <2> QED
      BY <2>2, <2>3 DEF RowsOf
  <1>3. UNCHANGED ledger \/ \E c \in Bookings : Split(c)
    BY DEF Next, vars, Day, SplitCut, StartOnboarding, CompleteOnboarding, Trigger, Look,
           ReadNet, ReadPaid, PayOnDemand, PayoutFails, PollerStep, Crash, BeginTick, Claim,
           ClaimsDone, NextAccount, PayOnSchedule
  <1> QED
    BY <1>1, <1>2, <1>3

\* A payout adds its amount to what its provider has been paid, and to nobody else's.
LEMMA PaidOutByAStep ==
    ASSUME TypeOK, TypeOK'
    PROVE  \A p \in Providers :
              /\ payouts' = payouts => PaidOut(p)' = PaidOut(p)
              /\ \A row : payouts' = Append(payouts, row) =>
                   PaidOut(p)' = PaidOut(p) + IF row.provider = p THEN row.amount ELSE 0
  <1>p. (\A p \in Providers : PaidOut(p) = Sum(Amounts(p), PayoutsOf(p)))'
    BY PaidOutIsSum, PTL
  <1> SUFFICES ASSUME NEW p \in Providers
               PROVE  /\ payouts' = payouts => PaidOut(p)' = PaidOut(p)
                      /\ \A row : payouts' = Append(payouts, row) =>
                           PaidOut(p)' = PaidOut(p) + IF row.provider = p THEN row.amount ELSE 0
    OBVIOUS
  <1>0. PaidOut(p) = Sum(Amounts(p), PayoutsOf(p))
    BY PaidOutIsSum
  <1>1. PaidOut(p)' = Sum(Amounts(p)', PayoutsOf(p)')
    BY <1>p
  <1>2. CASE payouts' = payouts
    <2>1. Amounts(p)' = Amounts(p) /\ PayoutsOf(p)' = PayoutsOf(p)
      BY <1>2 DEF Amounts, PayoutsOf
    <2>2. PaidOut(p)' = PaidOut(p)
      BY <2>1, <1>0, <1>1
    <2> QED
      BY <1>2, <2>2
  <1>3. ASSUME NEW row, payouts' = Append(payouts, row)
        PROVE  PaidOut(p)' = PaidOut(p) + IF row.provider = p THEN row.amount ELSE 0
    <2>1. payouts \in Seq(Payout) /\ payouts' \in Seq(Payout)
      BY DEF TypeOK
    <2>2. PICK n \in Nat : n = Len(payouts)
      BY <2>1
    <2>3. /\ DOMAIN payouts = 1..n /\ DOMAIN payouts' = 1..(n + 1)
          /\ payouts'[n + 1] = row /\ \A i \in 1..n : payouts'[i] = payouts[i]
      BY <1>3, <2>1, <2>2
    <2>4. PICK old, new : old = PayoutsOf(p) /\ new = PayoutsOf(p)'
      OBVIOUS
    <2>5. new = IF row.provider = p THEN old \cup {n + 1} ELSE old
      BY <2>2, <2>3, <2>4 DEF PayoutsOf
    <2>6. IsFiniteSet(old) /\ n + 1 \notin old
      <3>1. IsFiniteSet(old)
        BY <2>4, TheirsAreFinite
      <3>2. n + 1 \notin old
        BY <2>2, <2>3, <2>4 DEF PayoutsOf
      <3> QED
        BY <3>1, <3>2
    <2>7. IsFiniteSet(new)
      BY <2>5, <2>6, FS_AddElement
    <2>8. \A i \in old : Amounts(p)'[i] = Amounts(p)[i] /\ Amounts(p)[i] \in Int
      <3>1. \A i \in old : i \in 1..n /\ i \in new
        BY <2>3, <2>4, <2>5 DEF PayoutsOf
      <3>2. \A i \in old : Amounts(p)'[i] = payouts'[i].amount /\ Amounts(p)[i] = payouts[i].amount
        BY <2>4, <3>1 DEF Amounts
      <3> QED
        BY <2>3, <2>4, <3>1, <3>2, SumsAreMoney
    <2>9. Sum(Amounts(p)', old) = Sum(Amounts(p), old)
      BY <2>6, <2>8, SumsAgree
    <2>10. Sum(Amounts(p), old) \in Int
      BY <2>6, <2>8, SumIsInt
    <2>11. CASE row.provider = p
      <3>1. n + 1 \in new /\ new \ {n + 1} = old
        BY <2>5, <2>6, <2>11
      <3>2. Amounts(p)'[n + 1] = row.amount
        BY <2>3, <2>4, <3>1 DEF Amounts
      <3>3. row \in Payout
        BY <2>1, <2>3, <2>2
      <3>4. row.amount \in Int
        BY <3>3 DEF Payout
      <3>5. \A i \in new : Amounts(p)'[i] \in Int
        BY <2>5, <2>8, <2>11, <3>2, <3>4
      <3>6. Sum(Amounts(p)', new) = Amounts(p)'[n + 1] + Sum(Amounts(p)', new \ {n + 1})
        BY <2>7, <3>1, <3>5, SumTakesAny
      <3>7. PICK a \in Int, m \in Int : a = row.amount /\ m = Sum(Amounts(p), old)
        BY <2>10, <3>4
      <3>8. Sum(Amounts(p)', new) = a + m
        BY <2>9, <3>1, <3>2, <3>6, <3>7
      <3>9. PaidOut(p) = m /\ PaidOut(p)' = a + m
        BY <1>0, <1>1, <2>4, <3>7, <3>8
      <3> QED
        BY <2>11, <3>7, <3>9
    <2>12. CASE row.provider # p
      BY <1>0, <1>1, <2>4, <2>5, <2>9, <2>10, <2>12
    <2> QED
      BY <2>11, <2>12
  <1> QED
    BY <1>2, <1>3

\* What a worker has read of the credit is no more than the credit is now.
Known ==
    \A w \in Workers : work[w].pc \in {"paid", "pay"} =>
        work[w].net <= Credited(work[w].provider)

\* Where a worker that has read the credit comes from.
LEMMA WhoHasRead ==
    ASSUME TypeOK, [Next]_vars, NEW w \in Workers, work'[w].pc \in {"paid", "pay"}
    PROVE  \/ /\ work[w].pc \in {"paid", "pay"}
              /\ work'[w].net = work[w].net /\ work'[w].provider = work[w].provider
           \/ /\ work[w].pc = "net" /\ work'[w].provider = work[w].provider
              /\ work'[w].net = Credited(work[w].provider)
  <1>1. CASE work'[w] = work[w]
    BY <1>1
  <1>2. CASE ReadNet(w)
    <2>1. work[w] \in Paying({"look", "net", "paid", "pay", "over"}, Keys \cup {NoKey})
      BY <1>2, Payers DEF ReadNet
    <2> QED
      BY <1>2, <2>1 DEF ReadNet, TypeOK, Paying
  <1>3. CASE ReadPaid(w)
    <2>1. work[w] \in Paying({"look", "net", "paid", "pay", "over"}, Keys \cup {NoKey})
      BY <1>3, Payers DEF ReadPaid
    <2> QED
      BY <1>3, <2>1 DEF ReadPaid, TypeOK, Paying
  <1>4. CASE \/ PayoutFails(w) \/ Look(w) \/ PayOnDemand(w) \/ PayOnSchedule(w)
             \/ \E p \in Providers, k \in Keys : Trigger(w, p, k)
    <2>1. work[w].pc \in {"look", "net", "paid", "pay"} =>
             work[w] \in Paying({"look", "net", "paid", "pay", "over"}, Keys \cup {NoKey})
      BY Payers
    <2>2. work'[w].pc \notin {"paid", "pay"}
      BY <1>4, <2>1 DEF PayoutFails, Look, PayOnDemand, PayOnSchedule, Trigger, Begun, Answer, Go,
                        TypeOK, Paying
    <2> QED
      BY <2>2
  <1>5. CASE BeginTick(w) \/ ClaimsDone(w) \/ NextAccount(w) \/ Crash(w)
    <2>1. work'[w].pc \notin {"paid", "pay"}
      <3>1. CASE BeginTick(w) \/ NextAccount(w) \/ Crash(w)
        BY <3>1 DEF BeginTick, NextAccount, Crash, Begun, Idle, TypeOK
      <3>2. CASE ClaimsDone(w)
        <4>1. work[w] \in PollerWork \cup TriggerWork /\ work[w].pc = "claiming"
          BY <3>2 DEF TypeOK, ClaimsDone
        <4>2. work[w] = [pc |-> "claiming"]
          BY <4>1 DEF PollerWork, TriggerWork, Paying, Idle
        <4> QED
          BY <3>2, <4>2 DEF ClaimsDone, Go, TypeOK
      <3> QED
        BY <1>5, <3>1, <3>2
    <2> QED
      BY <2>1
  <1>6. ASSUME NEW v \in Workers, v # w,
               \/ ReadNet(v) \/ ReadPaid(v) \/ PayoutFails(v) \/ Look(v) \/ PayOnDemand(v)
               \/ PayOnSchedule(v) \/ BeginTick(v) \/ ClaimsDone(v) \/ NextAccount(v) \/ Crash(v)
               \/ \E p \in Providers, k \in Keys : Trigger(v, p, k)
        PROVE  work'[w] = work[w]
    BY <1>6 DEF ReadNet, ReadPaid, PayoutFails, Look, PayOnDemand, PayOnSchedule, BeginTick,
                ClaimsDone, NextAccount, Crash, Trigger, Answer, Go, TypeOK
  <1>7. ASSUME \/ UNCHANGED vars \/ Day \/ (\E b \in Bookings : Split(b) \/ SplitCut(b))
               \/ (\E p \in Providers : StartOnboarding(p) \/ CompleteOnboarding(p))
               \/ (\E q \in Pollers, p \in Providers : Claim(q, p))
        PROVE  work'[w] = work[w]
    BY <1>7 DEF vars, Day, Split, SplitCut, StartOnboarding, CompleteOnboarding, Claim
  <1>8. \/ UNCHANGED vars \/ Day \/ (\E b \in Bookings : Split(b) \/ SplitCut(b))
        \/ (\E p \in Providers : StartOnboarding(p) \/ CompleteOnboarding(p))
        \/ (\E q \in Pollers, p \in Providers : Claim(q, p))
        \/ \E v \in Workers :
              \/ ReadNet(v) \/ ReadPaid(v) \/ PayoutFails(v) \/ Look(v) \/ PayOnDemand(v)
              \/ PayOnSchedule(v) \/ BeginTick(v) \/ ClaimsDone(v) \/ NextAccount(v) \/ Crash(v)
              \/ \E p \in Providers, k \in Keys : Trigger(v, p, k)
    BY DEF Next, PollerStep, Workers
  <1> QED
    BY <1>1, <1>2, <1>3, <1>4, <1>5, <1>6, <1>7, <1>8

\* What was read stays within the credit: rows are never taken back.
LEMMA KnownStays == TypeOK /\ TypeOK' /\ Known /\ [Next]_vars => Known'
  <1>0. TypeOK => \A p \in Providers : Credited(p) \in Int
    BY SumsAreMoney
  <1>4. (TypeOK => \A p \in Providers : Credited(p) \in Int)'
    BY <1>0, PTL
  <1> SUFFICES ASSUME TypeOK, TypeOK', Known, [Next]_vars, NEW w \in Workers,
                      work'[w].pc \in {"paid", "pay"}
               PROVE  work'[w].net <= Credited(work[w].provider)'
    BY DEF Known
  <1>1. work[w].pc \in {"net", "paid", "pay"} /\ work'[w].provider = work[w].provider
    BY WhoHasRead
  <1>2. PICK p \in Providers : p = work[w].provider
    BY <1>1, Payers
  <1>3. work'[w].net <= Credited(p)
    <2>1. Credited(p) \in Int
      BY SumsAreMoney
    <2> QED
      BY <1>2, <2>1, WhoHasRead DEF Known
  <1>5. Credited(p) <= Credited(p)' /\ Credited(p) \in Int /\ Credited(p)' \in Int
    BY <1>4, CreditGrows, RowsStay, SumsAreMoney
  <1>6. work'[w].net \in Int
    BY <1>1, WhoHasRead, SumsAreMoney, Payers, <1>2 DEF Paying
  <1> QED
    BY <1>1, <1>2, <1>3, <1>5, <1>6

\* A payout goes beyond the credit only if another has been made since it read.
THEOREM PayoutsPayWhatIsOwed == Spec => OnlyOverlappingPayoutsOverpay
  <1>1. Init => Known
    BY DEF Init, Known, Idle, Workers
  <1>2. TypeOK => \A p \in Providers : Credited(p) \in Int /\ PaidOut(p) \in Int
    BY SumsAreMoney
  <1>3. (TypeOK => \A p \in Providers : Credited(p) \in Int /\ PaidOut(p) \in Int)'
    BY <1>2, PTL
  <1> DEFINE Overlap ==
        \A p \in Providers :
          PaidOut(p)' > PaidOut(p) /\ PaidOut(p)' > Credited(p)' =>
              \E w \in Workers :
                  /\ work[w].pc = "pay" /\ work'[w].pc # "pay"
                  /\ work[w].provider = p
                  /\ work[w].paid # PaidOut(p)
  <1>4. TypeOK /\ TypeOK' /\ Known /\ [Next]_vars => Overlap
    <2> SUFFICES ASSUME TypeOK, TypeOK', Known, [Next]_vars, NEW p \in Providers,
                        PaidOut(p)' > PaidOut(p), PaidOut(p)' > Credited(p)'
                 PROVE  \E w \in Workers :
                           /\ work[w].pc = "pay" /\ work'[w].pc # "pay"
                           /\ work[w].provider = p
                           /\ work[w].paid # PaidOut(p)
      OBVIOUS
    <2>1. PICK credit \in Int, paid \in Int : credit = Credited(p) /\ paid = PaidOut(p)
      BY <1>2
    <2>2. payouts' # payouts
      <3>1. payouts' = payouts => PaidOut(p)' = paid
        BY <2>1, PaidOutByAStep
      <3> QED
        BY <2>1, <3>1
    <2>3. PICK w \in Workers, by \in {"admin", "schedule"} :
             /\ work[w].pc = "pay" /\ Pending(w) > 0 /\ work'[w].pc # "pay"
             /\ payouts' = Append(payouts, Row(w, by))
      BY <2>2, OnePayoutAtMost
    <2>4. PICK row : row = Row(w, by)
      OBVIOUS
    <2>5. row.provider = work[w].provider /\ row.amount = work[w].net - work[w].paid
      BY <2>4 DEF Row, Pending
    <2>6. PaidOut(p)' = paid + IF row.provider = p THEN row.amount ELSE 0
      BY <2>1, <2>3, <2>4, PaidOutByAStep
    <2>7. work[w].provider = p
      BY <2>1, <2>5, <2>6
    <2>8. PICK net \in Int, read \in Int : net = work[w].net /\ read = work[w].paid
      BY <2>3, Payers DEF Paying
    <2>9. PaidOut(p)' = paid + (net - read)
      BY <2>5, <2>6, <2>7, <2>8
    <2>10. net <= credit
      BY <2>1, <2>3, <2>7, <2>8 DEF Known
    <2>11. credit <= Credited(p)' /\ Credited(p)' \in Int
      BY <1>3, <2>1, CreditGrows, RowsStay
    <2>12. read # paid
      BY <2>1, <2>9, <2>10, <2>11
    <2> QED
      BY <2>1, <2>3, <2>7, <2>8, <2>12
  <1>6. TypeOK /\ TypeOK' /\ Known /\ [Next]_vars => [Overlap]_vars
    BY <1>4
  <1> QED
    BY <1>1, <1>6, KnownStays, PayoutsTypeCorrect, PTL DEF Spec, OnlyOverlappingPayoutsOverpay
=============================================================================
