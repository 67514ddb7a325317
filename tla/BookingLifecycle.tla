-------------------------- MODULE BookingLifecycle --------------------------
(***************************************************************************)
(* The life of a booking: the HTTP handlers that move it                   *)
(* (apps/api/src/booking-routes.ts, booking-provider-routes.ts), the       *)
(* transaction they share (BookingService.applyTransition), the due-work   *)
(* poller's expiry and auto-complete claims, and the money and standing    *)
(* effects both leave behind (booking-effects.ts).                         *)
(*                                                                         *)
(* An HTTP handler takes three steps, between which anything may happen:   *)
(* Read (the row, without a lock), Decide (transition() on that row, at    *)
(* the clock of that moment) and Apply (the transaction on the locked      *)
(* row).  Then its effects run one at a time.  A poller tick claims every  *)
(* due row, each in its own transaction, and runs the effects afterwards.  *)
(* A transaction is one step: it holds the row lock throughout.            *)
(*                                                                         *)
(* A payment operation (cancel, capture) is one step here, with the        *)
(* outcomes a caller can see.  POST /bookings is one step: the booking is  *)
(* there and the card is held or set up, or nothing happened.              *)
(***************************************************************************)
EXTENDS BookingMachine, FiniteSets, FiniteSetsExt

CONSTANTS
    Bookings,             \* ids of the bookings that may be made
    ProviderOf,           \* the provider of each booking
    SlotStart, SlotEnd,   \* the slot of each booking, hours from time 0
    Requests,             \* HTTP requests; each is served once
    Pollers,              \* due-work pollers, one per API process
    ResponseWindow,       \* bookingResponseWindowHours
    CancelFullRefund,     \* cancelFullRefundHours
    AutoCompleteWindow,   \* autoCompleteWindowHours
    ReminderWindow,       \* reminderWindowHours
    AuthHorizon,          \* authHorizonDays, in hours
    MaxTime,              \* bound: the clock stops here
    MaxFaults             \* bound: crashes and database errors

ASSUME SlotsAreIntervals ==
    /\ SlotStart \in [Bookings -> Nat]
    /\ SlotEnd \in [Bookings -> Nat]
    /\ \A b \in Bookings : SlotStart[b] < SlotEnd[b]

ASSUME WindowsAreNatural ==
    /\ ResponseWindow \in Nat
    /\ CancelFullRefund \in Nat
    /\ AutoCompleteWindow \in Nat
    /\ ReminderWindow \in Nat
    /\ AuthHorizon \in Nat

ASSUME BoundsAreNatural == MaxTime \in Nat /\ MaxFaults \in Nat

ASSUME WorkersAreDistinct == Requests \cap Pollers = {}

VARIABLES
    clock,      \* hours
    state,      \* bookings.state, "NONE" before the row exists
    deadline,   \* bookings.response_deadline
    autoAt,     \* bookings.auto_complete_at
    reminders,  \* how many unsent rows booking.reminders has
    audit,      \* state_transitions rows that record a transition
    alarms,     \* state_transitions rows that record a failed attempt
    outbox,     \* outbox rows about a booking
    standing,   \* booking.standing_events
    ledger,     \* payments.ledger: the percentage of the price each split credits
    intent,     \* the PaymentIntent at the gateway
    captured,   \* the percentage of the price the gateway has captured
    auth,       \* payments.authorizations.status
    op,         \* payments.operations, the state under cancel:b and capture:b
    quote,      \* the cancel consequence last shown to the customer
    req,        \* where each HTTP request is, and what it has read
    poll,       \* where each poller is in its tick, and the tick's `now`
    work,       \* the effects each worker still has to run
    faults      \* crashes and database errors so far

rowVars == <<state, deadline, autoAt, reminders, audit, outbox>>
moneyVars == <<ledger, intent, captured, auth, op>>
vars == <<clock, rowVars, moneyVars, alarms, standing, quote, req, poll, work,
          faults>>

Workers == Requests \cup Pollers

NoTime == -1
Percent == {50, 100}
OpState == {"none", "succeeded", "failed"}
Quotes == {"none", "no_charge", "partial_charge"}
HttpEvents == BookingEvent \ SystemEvents

Job == [ booking : Bookings, event : BookingEvent, from : BookingState,
         run : Seq(Effect), settled : Percent, quoted : Quotes ]

Idle == [pc |-> "idle"]
Over == [pc |-> "over"]

ReadRequests ==
    [ pc : {"read"}, booking : Bookings, event : HttpEvents,
      seen : BookingState, quoted : Quotes ]

DecidedRequests ==
    [ pc : {"decided"}, booking : Bookings, event : HttpEvents,
      seen : BookingState, quoted : Quotes, run : Seq(Effect), remind : BOOLEAN ]

ClaimPhases == {"expiry", "completion"}
Phases == {"idle", "expiry", "expiryEffects", "completion", "completionEffects"}

AuditRow == [from : BookingState, to : BookingState, event : BookingEvent]
AlarmRow == [state : BookingState, event : BookingEvent,
             reason : {"effect_failed", "poller_attempt_failed"}]
OutboxRow ==
    [type : {"BookingStateChanged"}, from : BookingState, to : BookingState,
     event : BookingEvent \cup {"created"}]
    \cup [type : {"BookingCompleted", "PaymentCaptured"}]

\* The row BookingService.create writes for the new booking itself.
CreatedEvent == [type |-> "BookingStateChanged", from |-> "PENDING",
                 to |-> "PENDING", event |-> "created"]

---------------------------------------------------------------------------
\* Helpers.

Overlap(b, c) ==
    /\ ProviderOf[b] = ProviderOf[c]
    /\ SlotStart[b] < SlotEnd[c]
    /\ SlotStart[c] < SlotEnd[b]

\* Mutation: the exclusion is checked for inserts only.
ExcludedOnInsertOnly(b, to) ==
    /\ to = "PENDING"
    /\ \E c \in Bookings \ {b} : state[c] \in Holding /\ Overlap(b, c)

\* bookings_provider_occupancy_excl refuses a row of b in state `to`.
Excluded(b, to) ==
    /\ to \in Holding
    /\ \E c \in Bookings \ {b} : state[c] \in Holding /\ Overlap(b, c)

DeadlineFor(b) == ComputeResponseDeadline(clock, SlotStart[b], ResponseWindow)

\* transition()'s context as a caller at time `now` builds it.  No caller
\* passes alreadyCaptured, and only the poller passes the deadline.
Context(b, event, now) ==
    [ clock |-> now, slotStart |-> SlotStart[b], actor |-> RequiredActor(event),
      responseDeadline |-> IF event \in SystemEvents THEN deadline[b] ELSE NoDeadline,
      cancelFullRefundHours |-> CancelFullRefund, alreadyCaptured |-> FALSE ]

\* deriveCancelConsequence.
Consequence(run) ==
    IF run # << >> /\ Head(run) = "Capture50" THEN "partial_charge" ELSE "no_charge"

\* The reminder of an accepted booking, if its moment is still ahead.
RemindFor(b, event) ==
    event = "ProviderAccepts" /\ SlotStart[b] - ReminderWindow > clock

\* Mutation: leaving CONFIRMED keeps the reminder rows.
RemindersKept(b, to, remind) ==
    IF to = "CONFIRMED" /\ remind THEN reminders[b] + 1 ELSE reminders[b]

\* Entering CONFIRMED may schedule a reminder; leaving it drops the unsent ones.
RemindersAfter(b, to, remind) ==
    CASE to = "CONFIRMED" /\ remind -> reminders[b] + 1
      [] state[b] = "CONFIRMED" /\ to # "CONFIRMED" -> 0
      [] OTHER -> reminders[b]

\* Mutation: auto_complete_at is never set.
AutoAtForgotten(b, event) == autoAt[b]

\* COALESCE(slot_end + window, auto_complete_at), the former on an accept only.
AutoAtAfter(b, event) ==
    IF event = "ProviderAccepts" THEN SlotEnd[b] + AutoCompleteWindow ELSE autoAt[b]

\* Mutation: the audit row's from_state is the state the handler read.
AuditedFromRead(r) == req[r].seen

\* The audit row's from_state: the row the transaction has locked.
AuditedFrom(r) == state[req[r].booking]

\* Mutation: what a transition owes is queued for a second try as well.
OwedTwice(job) == IF job.run = << >> THEN << >> ELSE <<job, job>>

\* A job with no effect left owes nothing.
Owed(job) == IF job.run = << >> THEN << >> ELSE <<job>>

\* The outbox rows of a transition.
Announce(from, to, event) ==
    <<[type |-> "BookingStateChanged", from |-> from, to |-> to, event |-> event]>>
    \o (IF to = "COMPLETED" THEN <<[type |-> "BookingCompleted"]>> ELSE << >>)

\* Mutation: the poller forgets the outbox write its transaction must make.
ClaimSilently(b, event) == << >>

ClaimAnnounces(b, event) == Announce(state[b], NextState(event), event)

---------------------------------------------------------------------------
Init ==
    /\ clock = 0
    /\ state = [b \in Bookings |-> "NONE"]
    /\ deadline = [b \in Bookings |-> NoTime]
    /\ autoAt = [b \in Bookings |-> NoTime]
    /\ reminders = [b \in Bookings |-> 0]
    /\ audit = [b \in Bookings |-> << >>]
    /\ alarms = [b \in Bookings |-> << >>]
    /\ outbox = [b \in Bookings |-> << >>]
    /\ standing = [b \in Bookings |-> << >>]
    /\ ledger = [b \in Bookings |-> << >>]
    /\ intent = [b \in Bookings |-> "none"]
    /\ captured = [b \in Bookings |-> 0]
    /\ auth = [b \in Bookings |-> "none"]
    /\ op = [b \in Bookings |-> [cancel |-> "none", capture |-> "none"]]
    /\ quote = [b \in Bookings |-> "none"]
    /\ req = [r \in Requests |-> Idle]
    /\ poll = [p \in Pollers |-> [phase |-> "idle", now |-> 0]]
    /\ work = [w \in Workers |-> << >>]
    /\ faults = 0

Tick ==
    /\ clock < MaxTime
    /\ clock' = clock + 1
    /\ UNCHANGED <<rowVars, moneyVars, alarms, standing, quote, req, poll, work,
                   faults>>

---------------------------------------------------------------------------
\* POST /bookings, as far as it succeeds: the card is held if the slot lies
\* within the horizon and only set up beyond it, and the row enters PENDING.
CreateBooking(b) ==
    /\ state[b] = "NONE"
    /\ clock < SlotStart[b]
    /\ ~Excluded(b, "PENDING")
    /\ state' = [state EXCEPT ![b] = "PENDING"]
    /\ deadline' = [deadline EXCEPT ![b] = DeadlineFor(b)]
    /\ outbox' = [outbox EXCEPT ![b] = Append(@, CreatedEvent)]
    /\ \/ /\ SlotStart[b] - clock <= AuthHorizon
          /\ auth' = [auth EXCEPT ![b] = "AUTHORIZED"]
          /\ intent' = [intent EXCEPT ![b] = "held"]
       \/ /\ SlotStart[b] - clock > AuthHorizon
          /\ auth' = [auth EXCEPT ![b] = "SETUP_ONLY"]
          /\ UNCHANGED intent
    /\ UNCHANGED <<clock, autoAt, reminders, audit, ledger, captured, op, alarms,
                   standing, quote, req, poll, work, faults>>

\* GET /bookings/:id/cancel-consequence: the same transition() a cancel makes.
DiscloseConsequence(r, b) ==
    LET ctx == Context(b, "CustomerCancels", clock)
    IN  /\ req[r] = Idle
        /\ Permits(state[b], "CustomerCancels", ctx)
        /\ quote' = [quote EXCEPT
             ![b] = Consequence(RunEffects(state[b], "CustomerCancels", ctx))]
        /\ req' = [req EXCEPT ![r] = Over]
        /\ UNCHANGED <<clock, rowVars, moneyVars, alarms, standing, poll, work,
                       faults>>

\* requireOwnBooking / requireOwnedBooking: an unlocked read of the row.
Read(r, b, event) ==
    /\ req[r] = Idle
    /\ state[b] # "NONE"
    /\ req' = [req EXCEPT ![r] =
         [ pc |-> "read", booking |-> b, event |-> event, seen |-> state[b],
           quoted |-> IF event = "CustomerCancels" THEN quote[b] ELSE "none" ]]
    /\ UNCHANGED <<clock, rowVars, moneyVars, alarms, standing, quote, poll, work,
                   faults>>

\* transition() on the row that was read, now; a TransitionError is a 409.
Decide(r) ==
    /\ req[r].pc = "read"
    /\ LET q == req[r]
           ctx == Context(q.booking, q.event, clock)
       IN  \/ /\ Permits(q.seen, q.event, ctx)
              /\ req' = [req EXCEPT ![r] =
                   [ pc |-> "decided", booking |-> q.booking, event |-> q.event,
                     seen |-> q.seen, quoted |-> q.quoted,
                     run |-> RunEffects(q.seen, q.event, ctx),
                     remind |-> RemindFor(q.booking, q.event) ]]
           \/ /\ ~Permits(q.seen, q.event, ctx)
              /\ req' = [req EXCEPT ![r] = Over]
    /\ UNCHANGED <<clock, rowVars, moneyVars, alarms, standing, quote, poll, work,
                   faults>>

\* BookingService.applyTransition: the decided state is written over whatever
\* the locked row holds by now.  Then the handler owes the decided effects.
Apply(r) ==
    /\ req[r].pc = "decided"
    /\ LET q == req[r]
           b == q.booking
           to == NextState(q.event)
       IN  /\ ~Excluded(b, to)
           /\ state' = [state EXCEPT ![b] = to]
           /\ autoAt' = [autoAt EXCEPT ![b] = AutoAtAfter(b, q.event)]
           /\ reminders' = [reminders EXCEPT ![b] = RemindersAfter(b, to, q.remind)]
           /\ audit' = [audit EXCEPT ![b] =
                Append(@, [from |-> AuditedFrom(r), to |-> to, event |-> q.event])]
           /\ outbox' = [outbox EXCEPT ![b] = @ \o Announce(state[b], to, q.event)]
           /\ work' = [work EXCEPT ![r] =
                Owed([ booking |-> b, event |-> q.event, from |-> q.seen,
                       run |-> q.run, settled |-> 100, quoted |-> q.quoted ])]
    /\ req' = [req EXCEPT ![r] = Over]
    /\ UNCHANGED <<clock, deadline, moneyVars, alarms, standing, quote, poll,
                   faults>>

\* The exclusion constraint fails the UPDATE: rolled back, the handler throws.
ApplyExcluded(r) ==
    /\ req[r].pc = "decided"
    /\ Excluded(req[r].booking, NextState(req[r].event))
    /\ req' = [req EXCEPT ![r] = Over]
    /\ UNCHANGED <<clock, rowVars, moneyVars, alarms, standing, quote, poll, work,
                   faults>>

---------------------------------------------------------------------------
\* The due-work poller, one tick: claim and transition the expired bookings,
\* run their effects, then the same for the bookings to auto-complete.

BeginTick(p) ==
    /\ poll[p].phase = "idle"
    /\ poll' = [poll EXCEPT ![p] = [phase |-> "expiry", now |-> clock]]
    /\ UNCHANGED <<clock, rowVars, moneyVars, alarms, standing, quote, req, work,
                   faults>>

EventOf(phase) ==
    IF phase = "expiry" THEN "ResponseDeadlinePassed" ELSE "AutoCompleteElapsed"

\* The rows each claim query selects from.
Due(phase, now) ==
    IF phase = "expiry"
      THEN {b \in Bookings : state[b] = "PENDING" /\ deadline[b] <= now}
      ELSE {b \in Bookings : /\ state[b] = "CONFIRMED"
                             /\ autoAt[b] # NoTime
                             /\ autoAt[b] <= now}

\* Mutation: the claimed row's effects are never queued.
QueueNothing(p, b, event) == work[p]

\* Mutation: the effects are queued once per attempt, and a claim makes two.
QueueTwice(p, b, event) ==
    LET job == [ booking |-> b, event |-> event, from |-> state[b],
                 run |-> RunEffects(state[b], event, Context(b, event, poll[p].now)),
                 settled |-> 100, quoted |-> "none" ]
    IN  work[p] \o <<job, job>>

\* The effects of a claimed row wait until every claim of the phase is made.
QueueEffects(p, b, event) ==
    Append(work[p],
      [ booking |-> b, event |-> event, from |-> state[b],
        run |-> RunEffects(state[b], event, Context(b, event, poll[p].now)),
        settled |-> 100, quoted |-> "none" ])

\* One claim transaction: the row is locked, transitioned and recorded.
Claim(p, b) ==
    LET phase == poll[p].phase
        event == EventOf(phase)
        to == NextState(event)
    IN  /\ phase \in ClaimPhases
        /\ b \in Due(phase, poll[p].now)
        /\ Permits(state[b], event, Context(b, event, poll[p].now))
        /\ state' = [state EXCEPT ![b] = to]
        /\ audit' = [audit EXCEPT ![b] =
             Append(@, [from |-> state[b], to |-> to, event |-> event])]
        /\ outbox' = [outbox EXCEPT ![b] = @ \o ClaimAnnounces(b, event)]
        /\ reminders' = [reminders EXCEPT ![b] = RemindersAfter(b, to, FALSE)]
        /\ work' = [work EXCEPT ![p] = QueueEffects(p, b, event)]
        /\ UNCHANGED <<clock, deadline, autoAt, moneyVars, alarms, standing, quote,
                       req, poll, faults>>

\* The handler throws on a database error: the savepoint undoes what it wrote,
\* markFailed records the attempt, and the row stays due.
ClaimFails(p, b) ==
    LET phase == poll[p].phase
    IN  /\ phase \in ClaimPhases
        /\ b \in Due(phase, poll[p].now)
        /\ faults < MaxFaults
        /\ faults' = faults + 1
        /\ alarms' = [alarms EXCEPT ![b] =
             Append(@, [state |-> state[b], event |-> EventOf(phase),
                        reason |-> "poller_attempt_failed"])]
        /\ UNCHANGED <<clock, rowVars, moneyVars, standing, quote, req, poll, work>>

\* No due row is left: the claim loop ends and the effects run.
ClaimsDone(p) ==
    /\ poll[p].phase \in ClaimPhases
    /\ Due(poll[p].phase, poll[p].now) = {}
    /\ poll' = [poll EXCEPT ![p].phase =
         IF @ = "expiry" THEN "expiryEffects" ELSE "completionEffects"]
    /\ UNCHANGED <<clock, rowVars, moneyVars, alarms, standing, quote, req, work,
                   faults>>

\* Every effect has run: expiry hands over to completion, completion ends the
\* tick.  An idle poller's `now` means nothing and goes back to 0.
EffectsDone(p) ==
    /\ poll[p].phase \notin ClaimPhases \cup {"idle"}
    /\ work[p] = << >>
    /\ poll' = [poll EXCEPT ![p] =
         IF poll[p].phase = "expiryEffects"
           THEN [phase |-> "completion", now |-> poll[p].now]
           ELSE [phase |-> "idle", now |-> 0]]
    /\ UNCHANGED <<clock, rowVars, moneyVars, alarms, standing, quote, req, work,
                   faults>>

---------------------------------------------------------------------------
\* executeEffects: one effect of the first job of worker w.

Ready(w) == w \in Pollers => poll[w].phase \in {"expiryEffects", "completionEffects"}

\* The next effect w runs is e.
NextEffect(w, e) ==
    /\ Ready(w)
    /\ work[w] # << >>
    /\ Head(work[w]).run # << >>
    /\ Head(Head(work[w]).run) = e

\* The first job goes on with its other effects.
Onward(w, settled) ==
    LET job == Head(work[w])
        rest == [job EXCEPT !.run = Tail(job.run), !.settled = settled]
    IN  [work EXCEPT ![w] = Owed(rest) \o Tail(work[w])]

\* An effect throws: the rest of its job is given up.
AbandonJob(w) == [work EXCEPT ![w] = Tail(@)]

\* Only the poller records the failure, with the state it had claimed.
RecordFailure(w) ==
    alarms' = IF w \in Pollers
      THEN LET job == Head(work[w])
           IN  [alarms EXCEPT ![job.booking] =
                  Append(@, [state |-> job.from, event |-> job.event,
                             reason |-> "effect_failed"])]
      ELSE alarms

\* cancelAuthorization: a second call is answered from the operations table; a
\* booking with no PaymentIntent has nothing to cancel at the gateway.
ReleaseAuth(w) ==
    LET b == Head(work[w]).booking
    IN  /\ NextEffect(w, "ReleaseAuth")
        /\ \/ /\ op[b].cancel = "succeeded"
              /\ UNCHANGED <<op, auth, intent>>
           \/ /\ op[b].cancel # "succeeded"
              /\ intent[b] # "captured"
              /\ op' = [op EXCEPT ![b].cancel = "succeeded"]
              /\ auth' = [auth EXCEPT ![b] = "CANCELLED"]
              /\ intent' = [intent EXCEPT ![b] = IF @ = "held" THEN "canceled" ELSE @]
        /\ work' = Onward(w, Head(work[w]).settled)
        /\ UNCHANGED <<clock, rowVars, ledger, captured, alarms, standing, quote,
                       req, poll, faults>>

\* The gateway refuses or cannot be reached, or its answer is lost.
ReleaseAuthFails(w) ==
    LET b == Head(work[w]).booking
    IN  /\ NextEffect(w, "ReleaseAuth")
        /\ op[b].cancel # "succeeded"
        /\ intent[b] # "none"
        /\ op' = [op EXCEPT ![b].cancel = "failed"]
        /\ \/ UNCHANGED intent
           \/ intent[b] = "held" /\ intent' = [intent EXCEPT ![b] = "canceled"]
        /\ work' = AbandonJob(w)
        /\ RecordFailure(w)
        /\ UNCHANGED <<clock, rowVars, ledger, captured, auth, standing, quote,
                       req, poll, faults>>

CaptureEffect(pct) == IF pct = 100 THEN "Capture100" ELSE "Capture50"

\* capture: answered from the operations table if capture:b has succeeded, else
\* the gateway captures, or replays a capture whose answer was lost.
Capture(w, pct) ==
    LET b == Head(work[w]).booking
    IN  /\ NextEffect(w, CaptureEffect(pct))
        /\ \/ /\ op[b].capture = "succeeded"
              /\ UNCHANGED <<op, auth, intent, captured, outbox>>
           \/ /\ op[b].capture # "succeeded"
              /\ intent[b] = "held" \/ (intent[b] = "captured" /\ captured[b] = pct)
              /\ intent' = [intent EXCEPT ![b] = "captured"]
              /\ captured' = [captured EXCEPT ![b] = pct]
              /\ op' = [op EXCEPT ![b].capture = "succeeded"]
              /\ auth' = [auth EXCEPT ![b] = "CAPTURED"]
              /\ outbox' = [outbox EXCEPT ![b] = Append(@, [type |-> "PaymentCaptured"])]
        /\ work' = Onward(w, pct)
        /\ UNCHANGED <<clock, state, deadline, autoAt, reminders, audit, ledger,
                       alarms, standing, quote, req, poll, faults>>

\* No PaymentIntent, a refusal, an unreachable gateway, or a lost answer.
CaptureFails(w, pct) ==
    LET b == Head(work[w]).booking
    IN  /\ NextEffect(w, CaptureEffect(pct))
        /\ op[b].capture # "succeeded"
        /\ op' = [op EXCEPT ![b].capture = "failed"]
        /\ \/ UNCHANGED <<intent, captured>>
           \/ /\ intent[b] = "held"
              /\ intent' = [intent EXCEPT ![b] = "captured"]
              /\ captured' = [captured EXCEPT ![b] = pct]
        /\ work' = AbandonJob(w)
        /\ RecordFailure(w)
        /\ UNCHANGED <<clock, rowVars, ledger, auth, standing, quote, req, poll,
                       faults>>

\* Mutation: the whole price is split, whatever this settlement has captured.
SplitWhole(w) ==
    /\ NextEffect(w, "Split")
    /\ ledger' = [ledger EXCEPT ![Head(work[w]).booking] = Append(@, 100)]
    /\ work' = Onward(w, Head(work[w]).settled)
    /\ UNCHANGED <<clock, rowVars, intent, captured, auth, op, alarms, standing,
                   quote, req, poll, faults>>

\* LedgerService.split, its three inserts as one step.
Split(w) ==
    LET job == Head(work[w])
    IN  /\ NextEffect(w, "Split")
        /\ ledger' = [ledger EXCEPT ![job.booking] = Append(@, job.settled)]
        /\ work' = Onward(w, job.settled)
        /\ UNCHANGED <<clock, rowVars, intent, captured, auth, op, alarms, standing,
                       quote, req, poll, faults>>

RecordStanding(w) ==
    LET job == Head(work[w])
    IN  /\ NextEffect(w, "RecordStanding")
        /\ standing' = [standing EXCEPT ![job.booking] =
             Append(@, StandingKind(job.event))]
        /\ work' = Onward(w, job.settled)
        /\ UNCHANGED <<clock, rowVars, moneyVars, alarms, quote, req, poll, faults>>

\* The database refuses the insert of a split or a standing event.
InsertFails(w) ==
    /\ NextEffect(w, "Split") \/ NextEffect(w, "RecordStanding")
    /\ faults < MaxFaults
    /\ faults' = faults + 1
    /\ work' = AbandonJob(w)
    /\ RecordFailure(w)
    /\ UNCHANGED <<clock, rowVars, moneyVars, standing, quote, req, poll>>

\* The API process dies under a request or a poller.  Committed rows stay; what
\* the worker still had to do is gone, and a restarted poller starts afresh.
Crash(w) ==
    /\ faults < MaxFaults
    /\ faults' = faults + 1
    /\ \/ /\ w \in Requests
          /\ req[w] \notin {Idle, Over} \/ work[w] # << >>
          /\ req' = [req EXCEPT ![w] = Over]
          /\ UNCHANGED poll
       \/ /\ w \in Pollers
          /\ poll[w].phase # "idle"
          /\ poll' = [poll EXCEPT ![w] = [phase |-> "idle", now |-> 0]]
          /\ UNCHANGED req
    /\ work' = [work EXCEPT ![w] = << >>]
    /\ UNCHANGED <<clock, rowVars, moneyVars, alarms, standing, quote>>

---------------------------------------------------------------------------
EffectStep(w) ==
    \/ ReleaseAuth(w)
    \/ ReleaseAuthFails(w)
    \/ \E pct \in Percent : Capture(w, pct) \/ CaptureFails(w, pct)
    \/ Split(w)
    \/ RecordStanding(w)
    \/ InsertFails(w)

RequestStep(r) ==
    \/ \E b \in Bookings : DiscloseConsequence(r, b)
    \/ \E b \in Bookings, event \in HttpEvents : Read(r, b, event)
    \/ Decide(r)
    \/ Apply(r)
    \/ ApplyExcluded(r)

PollerStep(p) ==
    \/ BeginTick(p)
    \/ \E b \in Bookings : Claim(p, b) \/ ClaimFails(p, b)
    \/ ClaimsDone(p)
    \/ EffectsDone(p)

Next ==
    \/ Tick
    \/ \E b \in Bookings : CreateBooking(b)
    \/ \E r \in Requests : RequestStep(r)
    \/ \E p \in Pollers : PollerStep(p)
    \/ \E w \in Workers : EffectStep(w) \/ Crash(w)

Spec == Init /\ [][Next]_vars

\* Time passes; the poll loop reschedules itself whatever a tick does; and an
\* async handler that has begun its effects is resumed until it returns.
\* Nobody is obliged to send a request, a request may be slow for ever, and no
\* database error has to happen.
Fairness ==
    /\ WF_vars(Tick)
    /\ \A p \in Pollers : WF_vars(PollerStep(p) /\ UNCHANGED faults)
    /\ \A w \in Workers : WF_vars(EffectStep(w) /\ UNCHANGED faults)

FairSpec == Spec /\ Fairness

---------------------------------------------------------------------------
\* Properties.

BookingTypeOK ==
    /\ state \in [Bookings -> BookingState \cup {"NONE"}]
    /\ deadline \in [Bookings -> Int]
    /\ \A b \in Bookings :
         deadline[b] \in IF state[b] = "NONE" THEN {NoTime} ELSE 0..SlotStart[b]
    /\ autoAt \in [Bookings -> Nat \cup {NoTime}]
    /\ reminders \in [Bookings -> Nat]
    /\ audit \in [Bookings -> Seq(AuditRow)]
    /\ alarms \in [Bookings -> Seq(AlarmRow)]
    /\ outbox \in [Bookings -> Seq(OutboxRow)]
    /\ standing \in [Bookings -> Seq(StandingKinds)]

MoneyTypeOK ==
    /\ ledger \in [Bookings -> Seq(Percent)]
    /\ intent \in [Bookings -> {"none", "held", "canceled", "captured"}]
    /\ captured \in [Bookings -> Percent \cup {0}]
    /\ auth \in [Bookings -> {"none", "AUTHORIZED", "SETUP_ONLY", "CANCELLED", "CAPTURED"}]
    /\ op \in [Bookings -> [cancel : OpState, capture : OpState]]
    /\ quote \in [Bookings -> Quotes]

WorkerTypeOK ==
    /\ req \in [Requests -> {Idle, Over} \cup ReadRequests \cup DecidedRequests]
    /\ poll \in [Pollers -> [phase : Phases, now : 0..MaxTime]]
    /\ work \in [Workers -> Seq(Job)]
    /\ clock \in 0..MaxTime
    /\ faults \in 0..MaxFaults

\* Every variable has its type; a deadline, once set, lies within the booking's
\* life: not before time 0, and never after its slot has started (BOK-004).
TypeOK == BookingTypeOK /\ MoneyTypeOK /\ WorkerTypeOK

\* BOK-002: no two bookings that hold their slot (PENDING or CONFIRMED) overlap
\* at one provider, however stale the answer a handler applies: freeing a slot,
\* selling it again and only then accepting the first booking must fail.
NoDoubleBooking ==
    \A b, c \in Bookings :
        b # c /\ state[b] \in Holding /\ state[c] \in Holding => ~Overlap(b, c)

\* The audit rows of a booking chain from PENDING to its present state: each
\* transition starts where the one before ended, HTTP and poller alike, even
\* when a handler decided on a row that has changed since (design 7.2.4).
AuditTrailExplainsState ==
    \A b \in Bookings :
        LET trail == audit[b]
        IN  IF trail = << >> THEN state[b] \in {"NONE", "PENDING"}
            ELSE /\ trail[1].from = "PENDING"
                 /\ \A i \in 1..Len(trail) - 1 : trail[i + 1].from = trail[i].to
                 /\ trail[Len(trail)].to = state[b]

\* Where the audit trail of b has a transition to one of some states.
TransitionsTo(b, states) == {i \in DOMAIN audit[b] : audit[b][i].to \in states}

\* Where the outbox has its rows of a type about b, as far as row n.
OutboxRows(b, type, n) == {i \in DOMAIN outbox[b] : i <= n /\ outbox[b][i].type = type}

\* The outbox tells the story the audit trail tells: after "created", one
\* BookingStateChanged per audit row in its order, and one BookingCompleted per
\* row that reaches COMPLETED, so no transition goes without a notification.
OutboxTellsTheStory ==
    \A b \in Bookings :
        LET rows == Len(outbox[b])
            Nth(i) == Cardinality(OutboxRows(b, "BookingStateChanged", i))
        IN  /\ Nth(rows) = Len(audit[b]) + (IF state[b] = "NONE" THEN 0 ELSE 1)
            /\ \A i \in OutboxRows(b, "BookingStateChanged", rows) :
                 LET e == outbox[b][i]
                     a == audit[b][Nth(i) - 1]
                 IN  IF Nth(i) = 1 THEN e = CreatedEvent
                     ELSE e.from = a.from /\ e.to = a.to /\ e.event = a.event
            /\ Cardinality(OutboxRows(b, "BookingCompleted", rows))
                 = Cardinality(TransitionsTo(b, {"COMPLETED"}))

\* NOT-002: a booking that is not CONFIRMED has no reminder waiting to be sent,
\* whoever moved it out of CONFIRMED and however often it came and went.
ReminderOnlyWhileConfirmed ==
    \A b \in Bookings : reminders[b] > 0 => state[b] = "CONFIRMED"

\* The states a booking comes to by an event that may ask for a split.
CreditingStates == {"COMPLETED", "NO_SHOW_CUSTOMER", "CANCELLED_BY_CUSTOMER"}

\* How much of the price a provider has been credited with, in percent.
CreditedSum(b) == MapThenSumSet(LAMBDA i : ledger[b][i], DOMAIN ledger[b])

\* PAY-002: without a capture nothing is credited, and never more than has been
\* captured, but for a booking that is settled twice: a late cancellation and a
\* stale completion, or two of one kind, share one capture and both split.
\* Captures that fail, lose their answers, repeat or race the release of the
\* hold credit nothing that has not moved.
LedgerBackedByCapture ==
    \A b \in Bookings :
        /\ CreditedSum(b) > 0 => intent[b] = "captured" /\ captured[b] > 0
        /\ CreditedSum(b) > captured[b] =>
             Cardinality(TransitionsTo(b, CreditingStates)) > 1

\* PAY-002: every credit of a provider has a transition of its own that asks for
\* one, be it a handler's or the poller's: the ledger is append-only, and the
\* same completion carried out twice would pay twice (executeEffects, split).
SplitPerCompletion ==
    \A b \in Bookings :
        Len(ledger[b]) <= Cardinality(TransitionsTo(b, CreditingStates))

\* [D-3], BOK-007: nobody is charged the full price before the slot starts.
NoFullChargeBeforeStart ==
    \A b \in Bookings : captured[b] = 100 => clock >= SlotStart[b]

\* A request that has decided on a row that has since changed.
Stale(b) ==
    \E r \in Requests :
        req[r].pc = "decided" /\ req[r].booking = b /\ req[r].seen # state[b]

\* The table is left only through a stale decision: any other step that moves a
\* booking takes an event the machine permits in the booking's actual state, the
\* poller's claims included.
OnlyStaleDecisionsBreakTheTable ==
    [][ \A b \in Bookings :
          state[b] # "NONE" /\ state'[b] # state[b] /\ ~Stale(b)
            => \E event \in BookingEvent :
                 /\ event \in EventsTakenIn(state[b])
                 /\ state'[b] = NextState(event) ]_vars

\* Every booking ends in a terminal state and stays there: the poller expires
\* what no provider answers and completes what nobody closes, and no stale
\* request can keep a booking from settling for ever.
EventuallyTerminalForGood ==
    \A b \in Bookings : state[b] # "NONE" ~> [](state[b] \in Terminal)

\* PAY-002: unless a crash or a database error strikes, a booking that completes
\* gets its capture attempted, and the outcome is on record.
CompletedIsSettled ==
    \A b \in Bookings :
        state[b] = "COMPLETED" ~> op[b].capture # "none" \/ faults > 0

---------------------------------------------------------------------------
\* Claims the code, its comments or its documents make and the handlers, as
\* they are, do not keep.

\* Design 7.2.1: there is no transition out of a terminal state.  applyTransition
\* writes the state decided on an unlocked read over whatever the row holds by
\* then, so an accept decided before a cancellation brings the booking back.
TerminalIsTerminal ==
    [][ \A b \in Bookings : state[b] \in Terminal => state'[b] = state[b] ]_vars

\* PAY-002 (no double credit) and LedgerService's "exactly once per booking":
\* two requests that both read CONFIRMED both complete the booking, the second
\* capture is answered from the operations table, and both splits are written.
SplitAtMostOnce == \A b \in Bookings : Len(ledger[b]) <= 1

\* BOK-005: the disclosed and the charged amounts cannot drift.  They do when
\* the boundary passes, or the provider accepts, between the two requests.
DisclosedConsequenceHolds ==
    \A w \in Workers : \A i \in 1..Len(work[w]) :
        LET job == work[w][i]
        IN  job.quoted # "none" /\ job.run # << >> /\ Head(job.run) = "Capture50"
              => job.quoted = "partial_charge"
=============================================================================
