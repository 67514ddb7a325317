------------------------------ MODULE Payouts -------------------------------
(***************************************************************************)
(* From the ledger to the provider's bank: the rows a split leaves behind, *)
(* the payouts an administrator triggers and those the due-work poller     *)
(* makes on schedule, the earnings a provider is shown, and the connected  *)
(* account whose cadence clock the schedule runs on                        *)
(* (libs/services/payments/src/ledger-service.ts, connect-service.ts,      *)
(* apps/api/src/due-work-poller.ts).                                       *)
(*                                                                         *)
(* Both kinds of payout read the balance in one query and the sum already  *)
(* paid in the next, and insert in a third: the transaction around them    *)
(* is READ COMMITTED and locks nothing that two payouts share.  The insert *)
(* and its COMMIT are one step.  Time is days; next_payout_at is kept as   *)
(* the number of days until it.                                            *)
(***************************************************************************)
EXTENDS Integers, Sequences, FiniteSets, FiniteSetsExt

CONSTANTS
    Providers,    \* provider accounts
    Bookings,     \* settled bookings
    OwnerOf,      \* the provider of each
    Price,        \* of a booking, in minor units
    RatePercent,  \* the commission rate
    Triggers,     \* POST /admin/providers/:id/payout requests
    Keys,         \* their Idempotency-Keys
    Pollers,      \* due-work pollers
    Cadence,      \* payoutCadenceDays
    ClaimLimit,   \* rows a tick claims at most (50)
    MaxSplits,    \* bound: settlements of one booking
    MaxLate,      \* bound: days a clock can be overdue, as far as is counted
    MaxFaults     \* bound: crashes and database errors

ASSUME MoneyIsPositive == Price \in Nat /\ RatePercent \in 0..100
ASSUME OwnersAreProviders == OwnerOf \in [Bookings -> Providers]
ASSUME ScheduleIsPositive == Cadence \in Nat \ {0} /\ ClaimLimit \in Nat \ {0}
ASSUME BoundsAreNatural ==
    MaxSplits \in Nat /\ MaxLate \in Nat /\ MaxFaults \in Nat
ASSUME WorkersAreDistinct == Triggers \cap Pollers = {}
ASSUME BookingsAreFinite == IsFiniteSet(Bookings)

VARIABLES
    ledger,     \* payments.ledger, the kinds of the rows of each booking
    cut,        \* the bookings whose split was cut off
    status,     \* payments.connect_accounts.status
    dueIn,      \* days until payments.connect_accounts.next_payout_at
    payouts,    \* payments.payouts
    work,       \* where each trigger and each poller is in a payout
    claimed,    \* the accounts each poller has claimed in its tick
    faults

vars == <<ledger, cut, status, dueIn, payouts, work, claimed, faults>>

Workers == Triggers \cup Pollers
\* next_payout_at is null: a number that no clock reads.
Unset == -(MaxLate + 1)
NoKey == "none"
ASSUME NoKeyIsNull == NoKey \notin Keys

\* The three rows of a split, in the order of their inserts.
SplitRows == <<"gross", "commission", "net">>

\* splitPrice: Math.round rounds a half up, in the platform's favour.
SplitPrice ==
    LET commission == (Price * RatePercent + 50) \div 100
    IN [gross |-> Price, commission |-> commission, net |-> Price - commission]

Net == SplitPrice.net

Statuses == {"not_started", "pending", "complete"}
Payout == [ provider : Providers, amount : Nat \ {0}, by : {"admin", "schedule"},
            key : Keys \cup {NoKey} ]

Idle == [pc |-> "idle"]

RowsOf(b, kind) == {i \in DOMAIN ledger[b] : ledger[b][i] = kind}
BookingsOf(p) == {b \in Bookings : OwnerOf[b] = p}
PayoutsOf(p) == {i \in DOMAIN payouts : payouts[i].provider = p}
WithKey(k) == {i \in DOMAIN payouts : payouts[i].key = k}

\* SUM(amount_minor) over the net rows of a provider's bookings.
Credited(p) == MapThenSumSet(LAMBDA b : Net * Cardinality(RowsOf(b, "net")), BookingsOf(p))

\* SUM(amount_minor) over the provider's payouts: each is born succeeded.
PaidOut(p) == MapThenSumSet(LAMBDA i : payouts[i].amount, PayoutsOf(p))

\* Mutation: the gross row is shown.
ShownGross(p) ==
    MapThenSumSet(LAMBDA b : IF RowsOf(b, "gross") = {} THEN 0 ELSE SplitPrice.gross, BookingsOf(p))

\* The earnings a provider is shown (GET /provider/me/earnings): of each
\* booking with rows, the first of a kind.
ShownNet(p) ==
    MapThenSumSet(LAMBDA b : IF RowsOf(b, "net") = {} THEN 0 ELSE SplitPrice.net, BookingsOf(p))

ShownPending(p) == ShownNet(p) - PaidOut(p)

Later(a, b) == IF a > b THEN a ELSE b

---------------------------------------------------------------------------
Init ==
    /\ ledger = [b \in Bookings |-> << >>]
    /\ cut = {}
    /\ status = [p \in Providers |-> "not_started"]
    /\ dueIn = [p \in Providers |-> Unset]
    /\ payouts = << >>
    /\ work = [w \in Workers |-> Idle]
    /\ claimed = [q \in Pollers |-> << >>]
    /\ faults = 0

Strike == faults < MaxFaults /\ faults' = faults + 1
Go(w, pc) == work' = [work EXCEPT ![w].pc = pc]

\* A day passes.
Day ==
    /\ dueIn' = [p \in Providers |->
                   IF dueIn[p] = Unset THEN Unset ELSE Later(dueIn[p] - 1, -MaxLate)]
    /\ UNCHANGED <<ledger, cut, status, payouts, work, claimed, faults>>

\* LedgerService.split, one insert at a time; a settlement may repeat it.
Split(b) ==
    /\ b \notin cut
    /\ Len(ledger[b]) < MaxSplits * Len(SplitRows)
    /\ ledger' = [ledger EXCEPT ![b] = Append(@, SplitRows[(Len(@) % 3) + 1])]
    /\ UNCHANGED <<cut, status, dueIn, payouts, work, claimed, faults>>

\* A crash or an error between two inserts: nobody resumes the split.
SplitCut(b) ==
    /\ Len(ledger[b]) % 3 # 0
    /\ b \notin cut
    /\ Strike
    /\ cut' = cut \cup {b}
    /\ UNCHANGED <<ledger, status, dueIn, payouts, work, claimed>>

\* ConnectService.startOnboarding: an account already complete is pending again.
StartOnboarding(p) ==
    /\ status' = [status EXCEPT ![p] = "pending"]
    /\ UNCHANGED <<ledger, cut, dueIn, payouts, work, claimed, faults>>

\* Mutation: the clock is left to the first scheduled payout to start.
ClockNotStarted(p) == dueIn[p]

\* COALESCE(next_payout_at, now() + cadence).
ClockStarted(p) == IF dueIn[p] = Unset THEN Cadence ELSE dueIn[p]

\* ConnectService.completeStub.
CompleteOnboarding(p) ==
    /\ status' = [status EXCEPT ![p] = "complete"]
    /\ dueIn' = [dueIn EXCEPT ![p] = ClockStarted(p)]
    /\ UNCHANGED <<ledger, cut, payouts, work, claimed, faults>>

---------------------------------------------------------------------------
(* A payout: the balance, what was paid, and the insert.                   *)

Begun(p, key, pc) ==
    [pc |-> pc, provider |-> p, key |-> key, net |-> 0, paid |-> 0, answer |-> 0]

ReadNet(w) ==
    /\ work[w].pc = "net"
    /\ work' = [work EXCEPT ![w].pc = "paid", ![w].net = Credited(work[w].provider)]
    /\ UNCHANGED <<ledger, cut, status, dueIn, payouts, claimed, faults>>

ReadPaid(w) ==
    /\ work[w].pc = "paid"
    /\ work' = [work EXCEPT ![w].pc = "pay", ![w].paid = PaidOut(work[w].provider)]
    /\ UNCHANGED <<ledger, cut, status, dueIn, payouts, claimed, faults>>

\* Mutation: the whole credit is paid again.
PendingGross(w) == work[w].net

Pending(w) == work[w].net - work[w].paid

Row(w, by) ==
    [provider |-> work[w].provider, amount |-> Pending(w), by |-> by, key |-> work[w].key]

---------------------------------------------------------------------------
(* LedgerService.triggerPayout.                                            *)

Trigger(t, p, k) ==
    /\ work[t] = Idle
    /\ work' = [work EXCEPT ![t] = Begun(p, k, "look")]
    /\ UNCHANGED <<ledger, cut, status, dueIn, payouts, claimed, faults>>

Answer(t, rows) ==
    \E i \in rows : work' = [work EXCEPT ![t].pc = "over", ![t].answer = i]

Look(t) ==
    /\ work[t].pc = "look"
    /\ IF WithKey(work[t].key) # {} THEN Answer(t, WithKey(work[t].key)) ELSE Go(t, "net")
    /\ UNCHANGED <<ledger, cut, status, dueIn, payouts, claimed, faults>>

\* Mutation: the unique index on the key is not there.
NoConflict(t) == FALSE

\* ON CONFLICT (idempotency_key): another call has inserted this key.
Conflict(t) == WithKey(work[t].key) # {}

PayOnDemand(t) ==
    /\ t \in Triggers
    /\ work[t].pc = "pay"
    /\ \/ /\ Pending(t) <= 0
          /\ Go(t, "over")
          /\ UNCHANGED payouts
       \/ /\ Pending(t) > 0
          /\ Conflict(t)
          /\ Answer(t, WithKey(work[t].key))
          /\ UNCHANGED payouts
       \/ /\ Pending(t) > 0
          /\ ~Conflict(t)
          /\ payouts' = Append(payouts, Row(t, "admin"))
          /\ work' = [work EXCEPT ![t].pc = "over", ![t].answer = Len(payouts')]
    /\ UNCHANGED <<ledger, cut, status, dueIn, claimed, faults>>

---------------------------------------------------------------------------
(* sendDuePayouts: the payout phase of a tick.                             *)

Due == {p \in Providers : status[p] = "complete" /\ dueIn[p] # Unset /\ dueIn[p] <= 0}

BeginTick(q) ==
    /\ work[q] = Idle
    /\ work' = [work EXCEPT ![q] = [pc |-> "claiming"]]
    /\ UNCHANGED <<ledger, cut, status, dueIn, payouts, claimed, faults>>

\* The longest overdue account; SKIP LOCKED may pass over one another poller
\* is claiming at the moment.  markDone marks nothing, so that the account
\* stays due and is claimed again.
Claim(q, p) ==
    /\ work[q].pc = "claiming"
    /\ Len(claimed[q]) < ClaimLimit
    /\ p \in Due
    /\ \A r \in Due : dueIn[r] < dueIn[p] =>
           \E o \in Pollers \ {q} : work[o].pc = "claiming"
    /\ claimed' = [claimed EXCEPT ![q] = Append(@, p)]
    /\ UNCHANGED <<ledger, cut, status, dueIn, payouts, work, faults>>

ClaimsDone(q) ==
    /\ work[q].pc = "claiming"
    /\ \/ Len(claimed[q]) = ClaimLimit
       \/ Due = {}
       \/ \E o \in Pollers \ {q} : work[o].pc = "claiming"
    /\ Go(q, "next")
    /\ UNCHANGED <<ledger, cut, status, dueIn, payouts, claimed, faults>>

\* The next of the accounts claimed, or the end of the tick.
NextAccount(q) ==
    /\ work[q].pc = "next"
    /\ work' = [work EXCEPT ![q] = IF claimed[q] = << >> THEN Idle
                                   ELSE Begun(Head(claimed[q]), NoKey, "net")]
    /\ UNCHANGED <<ledger, cut, status, dueIn, payouts, claimed, faults>>

\* triggerScheduledPayout's insert, if there is anything to pay, the step of
\* the clock, and the COMMIT.
PayOnSchedule(q) ==
    /\ q \in Pollers
    /\ work[q].pc = "pay"
    /\ payouts' = IF Pending(q) > 0 THEN Append(payouts, Row(q, "schedule")) ELSE payouts
    /\ dueIn' = [dueIn EXCEPT ![work[q].provider] = @ + Cadence]
    /\ claimed' = [claimed EXCEPT ![q] = Tail(@)]
    /\ work' = [work EXCEPT ![q] = [pc |-> "next"]]
    /\ UNCHANGED <<ledger, cut, status, faults>>

\* An error rolls the payout back; a poller goes on to the next account.
PayoutFails(w) ==
    /\ work[w].pc \in {"net", "paid", "pay"}
    /\ Strike
    /\ IF w \in Pollers
       THEN /\ work' = [work EXCEPT ![w] = [pc |-> "next"]]
            /\ claimed' = [claimed EXCEPT ![w] = Tail(@)]
       ELSE /\ Go(w, "over")
            /\ UNCHANGED claimed
    /\ UNCHANGED <<ledger, cut, status, dueIn, payouts>>

\* The process dies: what the tick has claimed is forgotten.
Crash(q) ==
    /\ work[q] # Idle
    /\ Strike
    /\ work' = [work EXCEPT ![q] = Idle]
    /\ claimed' = [claimed EXCEPT ![q] = << >>]
    /\ UNCHANGED <<ledger, cut, status, dueIn, payouts>>

PollerStep(q) ==
    \/ BeginTick(q) \/ (\E p \in Providers : Claim(q, p)) \/ ClaimsDone(q)
    \/ NextAccount(q) \/ ReadNet(q) \/ ReadPaid(q) \/ PayOnSchedule(q)

Next ==
    \/ Day
    \/ \E b \in Bookings : Split(b) \/ SplitCut(b)
    \/ \E p \in Providers : StartOnboarding(p) \/ CompleteOnboarding(p)
    \/ \E t \in Triggers :
        \/ \E p \in Providers, k \in Keys : Trigger(t, p, k)
        \/ Look(t) \/ ReadNet(t) \/ ReadPaid(t) \/ PayOnDemand(t)
    \/ \E w \in Workers : PayoutFails(w)
    \/ \E q \in Pollers : PollerStep(q) \/ Crash(q)

Spec == Init /\ [][Next]_vars

\* Days pass, and a poller that is running keeps running (startDueWorkPoller).
FairSpec == Spec /\ WF_vars(Day) /\ \A q \in Pollers : WF_vars(PollerStep(q))

---------------------------------------------------------------------------
(* Properties.                                                             *)

Paying(pcs, keys) ==
    [pc : pcs, provider : Providers, key : keys, net : Int, paid : Int, answer : Nat]
TriggerWork == {Idle} \cup Paying({"look", "net", "paid", "pay", "over"}, Keys)
PollerWork ==
    {Idle, [pc |-> "claiming"], [pc |-> "next"]} \cup Paying({"net", "paid", "pay"}, {NoKey})

\* Every variable has its type; a poller that pays has claimed whom.
TypeOK ==
    /\ ledger \in [Bookings -> Seq({"gross", "commission", "net"})]
    /\ cut \subseteq Bookings
    /\ status \in [Providers -> Statuses]
    /\ dueIn \in [Providers -> Int]
    /\ \A p \in Providers : dueIn[p] >= Unset
    /\ payouts \in Seq(Payout)
    /\ work \in [Workers -> TriggerWork \cup PollerWork]
    /\ \A t \in Triggers : work[t] \in TriggerWork
    /\ \A q \in Pollers :
           work[q] \in PollerWork /\ (work[q].pc \in {"net", "paid", "pay"} => claimed[q] # << >>)
    /\ claimed \in [Pollers -> Seq(Providers)]
    /\ faults \in 0..MaxFaults

\* triggerPayout pays once for an Idempotency-Key, a double click included,
\* and tells every call with that key of the same payout.
OnePayoutPerKey ==
    /\ \A k \in Keys : Cardinality(WithKey(k)) <= 1
    /\ \A t \in Triggers :
           work[t].pc = "over" /\ work[t].answer > 0 =>
               payouts[work[t].answer].key = work[t].key

\* A payout takes an account beyond its credit only if another payout of
\* that account has been made since it read what was paid (triggerPayout,
\* triggerScheduledPayout): alone, a payout pays what is owed and no more.
OnlyOverlappingPayoutsOverpay ==
    [][\A p \in Providers :
          PaidOut(p)' > PaidOut(p) /\ PaidOut(p)' > Credited(p)' =>
              \E w \in Workers :
                  /\ work[w].pc = "pay" /\ work'[w].pc # "pay"
                  /\ work[w].provider = p
                  /\ work[w].paid # PaidOut(p)]_vars

\* The pending balance a provider is shown is the balance a payout would
\* find, unless a booking was split twice: the page reads rows of bookings
\* one by one, the payout sums (GET /provider/me/earnings, pendingBalance).
EarningsAgree ==
    \A p \in Providers :
        (\A b \in BookingsOf(p) : Cardinality(RowsOf(b, "net")) <= 1) =>
            ShownPending(p) = Credited(p) - PaidOut(p)

\* An account that stays complete is paid all it is credited sooner or later,
\* though a tick may lose what it has claimed (PAY-006).
CreditIsEventuallyPaid ==
    \A p \in Providers :
        <>[](status[p] = "complete") => <>[](Credited(p) <= PaidOut(p))

\* ledger-service.ts:234-241: next_payout_at "advances by one cadence period"
\* whatever the balance, so the next payout is never further off than that.
NextPayoutWithinCadence ==
    \A p \in Providers : dueIn[p] = Unset \/ dueIn[p] <= Cadence
=============================================================================
