----------------------- MODULE BookingLifecycle_proofs -----------------------
(***************************************************************************)
(* Proofs about BookingLifecycle, for any number of bookings, requests and *)
(* pollers, any slots and any windows.                                     *)
(*                                                                         *)
(* A booking's own records: the types, who writes what, exclusion,         *)
(* reminders, the audit trail, decisions gone stale, the outbox.           *)
(*                                                                         *)
(* What its effects leave behind.  Charges: no full charge before the slot *)
(* starts, and no credit without a charge; the invariant behind both       *)
(* follows a plan from the decision over the job to the gateway.  Credits: *)
(* no more than transitions that ask for one; the invariant counts what    *)
(* the ledger holds together with what the workers' queues still owe.      *)
(* Standing events: counted in the same way, so that the operators' pages  *)
(* (OperationsViews) say no more than has happened.                        *)
(***************************************************************************)
EXTENDS BookingLifecycle, OperationsViews, SetSums, FiniteSetTheorems, TLAPS

---------------------------------------------------------------------------
\* One more row in one of the logs keeps every log a sequence of rows.
LEMMA AppendType ==
  ASSUME NEW Row, NEW log \in [Bookings -> Seq(Row)], NEW b \in Bookings, NEW row \in Row
  PROVE  [log EXCEPT ![b] = Append(@, row)] \in [Bookings -> Seq(Row)]
<1>1. Append(log[b], row) \in Seq(Row)
  OBVIOUS
<1> QED
  BY <1>1

---------------------------------------------------------------------------
\* What the operators of the machine return.

\* Every event leads to a state of the table.
LEMMA NextStateType ==
  ASSUME NEW event \in BookingEvent
  PROVE  NextState(event) \in BookingState
BY DEF BookingEvent, PendingEvents, ConfirmedEvents, NextState, BookingState,
       Holding, Terminal

\* An effect list is a sequence of effects.
LEMMA RunEffectsType ==
  ASSUME NEW s, NEW event, NEW ctx
  PROVE  RunEffects(s, event, ctx) \in Seq(Effect)
<1>1. FullReturn(ctx) \in Effect
  BY DEF FullReturn, Effect
<1>2. /\ {"ReleaseAuth", "Capture100", "Capture50", "Refund50"} \subseteq Effect
      /\ {"Split", "RecordStanding"} \subseteq Effect
  BY DEF Effect
<1> HIDE DEF Effect
<1>3. \A e \in Effect : <<e>> \in Seq(Effect)
  OBVIOUS
<1>4. \A e, f \in Effect : <<e, f>> \in Seq(Effect)
  OBVIOUS
<1>5. << >> \in Seq(Effect)
  OBVIOUS
<1> QED
  BY <1>1, <1>2, <1>3, <1>4, <1>5 DEF RunEffects

\* A deadline never lies after the start of its slot (BOK-004).
LEMMA DeadlineBeforeStart ==
  ASSUME NEW now \in Nat, NEW start \in Nat, NEW window \in Nat
  PROVE  ComputeResponseDeadline(now, start, window) \in 0..start
BY DEF ComputeResponseDeadline

\* A standing event is of one of the three kinds the score knows.
LEMMA StandingKindType ==
  ASSUME NEW event
  PROVE  StandingKind(event) \in StandingKinds
BY DEF StandingKind, StandingKinds

\* The rows a transition announces are outbox rows.
LEMMA AnnounceType ==
  ASSUME NEW from \in BookingState, NEW to \in BookingState, NEW event \in BookingEvent
  PROVE  Announce(from, to, event) \in Seq(OutboxRow)
<1> DEFINE change == [type |-> "BookingStateChanged", from |-> from, to |-> to,
                      event |-> event]
           completion == [type |-> "BookingCompleted"]
<1>1. change \in OutboxRow /\ completion \in OutboxRow
  BY DEF OutboxRow
<1>2. \/ Announce(from, to, event) = <<change>> \o <<completion>>
      \/ Announce(from, to, event) = <<change>> \o << >>
  BY DEF Announce
<1> HIDE DEF change, completion
<1>3. /\ <<change>> \in Seq(OutboxRow)
      /\ <<completion>> \in Seq(OutboxRow)
      /\ << >> \in Seq(OutboxRow)
  BY <1>1
<1>4. \A x, y \in Seq(OutboxRow) : x \o y \in Seq(OutboxRow)
  OBVIOUS
<1> QED
  BY <1>2, <1>3, <1>4

\* What a worker owes for a job is a list of jobs.
LEMMA OwedType ==
  ASSUME NEW job \in Job
  PROVE  Owed(job) \in Seq(Job)
BY DEF Owed

\* The head of a non-empty list of jobs, one effect further, is still a job.
LEMMA OnwardType ==
  ASSUME NEW w \in Workers, NEW settled \in Percent,
         work \in [Workers -> Seq(Job)],
         work[w] # << >>, Head(work[w]).run # << >>
  PROVE  Onward(w, settled) \in [Workers -> Seq(Job)]
<1> DEFINE job == Head(work[w])
           next == [job EXCEPT !.run = Tail(@), !.settled = settled]
<1>1. work[w] \in Seq(Job) /\ Tail(work[w]) \in Seq(Job) /\ job \in Job
  OBVIOUS
<1>2. Tail(job.run) \in Seq(Effect)
  BY <1>1 DEF Job
<1>3. next \in Job
  BY <1>1, <1>2 DEF Job
<1>4. Owed(next) \o Tail(work[w]) \in Seq(Job)
  BY <1>1, <1>3, OwedType
<1>5. Onward(w, settled) = [work EXCEPT ![w] = Owed(next) \o Tail(work[w])]
  BY DEF Onward
<1> QED
  BY <1>4, <1>5

---------------------------------------------------------------------------
\* Type correctness.

\* The database starts empty and every worker idle: all types hold.
LEMMA InitTypeOK == Init => TypeOK
<1> SUFFICES ASSUME Init PROVE TypeOK
  OBVIOUS
<1> USE BoundsAreNatural DEF Init
<1>1. \A b \in Bookings : << >> \in Seq(AuditRow) /\ << >> \in Seq(AlarmRow)
                          /\ << >> \in Seq(OutboxRow) /\ << >> \in Seq(StandingKinds)
                          /\ << >> \in Seq(Percent)
  OBVIOUS
<1>2. /\ audit \in [Bookings -> Seq(AuditRow)]
      /\ alarms \in [Bookings -> Seq(AlarmRow)]
      /\ outbox \in [Bookings -> Seq(OutboxRow)]
      /\ standing \in [Bookings -> Seq(StandingKinds)]
      /\ ledger \in [Bookings -> Seq(Percent)]
  BY <1>1
<1>3. /\ clock \in 0..MaxTime
      /\ state \in [Bookings -> BookingState \cup {"NONE"}]
      /\ deadline \in [Bookings -> Int]
      /\ \A b \in Bookings :
           deadline[b] \in IF state[b] = "NONE" THEN {NoTime} ELSE 0..SlotStart[b]
      /\ autoAt \in [Bookings -> Nat \cup {NoTime}]
      /\ reminders \in [Bookings -> Nat]
      /\ faults \in 0..MaxFaults
  BY DEF NoTime
<1>4. /\ intent \in [Bookings -> {"none", "held", "canceled", "captured"}]
      /\ captured \in [Bookings -> Percent \cup {0}]
      /\ auth \in [Bookings -> {"none", "AUTHORIZED", "SETUP_ONLY", "CANCELLED", "CAPTURED"}]
      /\ op \in [Bookings -> [cancel : OpState, capture : OpState]]
      /\ quote \in [Bookings -> Quotes]
  BY DEF OpState, Quotes
<1>5. /\ req \in [Requests -> {Idle, Over} \cup ReadRequests \cup DecidedRequests]
      /\ poll \in [Pollers -> [phase : Phases, now : 0..MaxTime]]
      /\ work \in [Workers -> Seq(Job)]
  BY DEF Phases
<1> QED
  BY <1>2, <1>3, <1>4, <1>5
     DEF TypeOK, BookingTypeOK, MoneyTypeOK, WorkerTypeOK

\* What a request knows while it is being served.
LEMMA ReadRequestType ==
  ASSUME WorkerTypeOK, NEW r \in Requests, req[r].pc = "read"
  PROVE  req[r] \in ReadRequests
BY DEF WorkerTypeOK, Idle, Over, ReadRequests, DecidedRequests

\* A request that has decided carries the decision's state, effects and reminder.
LEMMA DecidedRequestType ==
  ASSUME WorkerTypeOK, NEW r \in Requests, req[r].pc = "decided"
  PROVE  req[r] \in DecidedRequests
BY DEF WorkerTypeOK, Idle, Over, ReadRequests, DecidedRequests

\* The job an effect belongs to.
LEMMA HeadJobType ==
  ASSUME WorkerTypeOK, NEW w \in Workers, work[w] # << >>
  PROVE  /\ Head(work[w]) \in Job
         /\ Tail(work[w]) \in Seq(Job)
BY DEF WorkerTypeOK

\* Each step preserves the types of the part of the state it writes.
LEMMA CreateTypeOK ==
  ASSUME TypeOK, NEW b \in Bookings, CreateBooking(b)
  PROVE  TypeOK'
<1>1. clock \in Nat /\ SlotStart[b] \in Nat /\ ResponseWindow \in Nat
  BY SlotsAreIntervals, WindowsAreNatural, BoundsAreNatural DEF TypeOK, WorkerTypeOK
<1>2. DeadlineFor(b) \in 0..SlotStart[b]
  BY <1>1 DEF DeadlineFor, ComputeResponseDeadline
<1>3. CreatedEvent \in OutboxRow
  BY DEF CreatedEvent, OutboxRow, BookingState, Holding
<1> USE DEF CreateBooking
<1>4. outbox' \in [Bookings -> Seq(OutboxRow)]
  BY <1>3 DEF TypeOK, BookingTypeOK
<1>5. /\ state' \in [Bookings -> BookingState \cup {"NONE"}]
      /\ deadline' \in [Bookings -> Int]
      /\ \A c \in Bookings :
           deadline'[c] \in IF state'[c] = "NONE" THEN {NoTime} ELSE 0..SlotStart[c]
  <2>1. "PENDING" \in BookingState /\ "PENDING" # "NONE"
    BY DEF BookingState, Holding
  <2>2. DeadlineFor(b) \in Int
    BY <1>1, <1>2
  <2>3. /\ state \in [Bookings -> BookingState \cup {"NONE"}]
        /\ deadline \in [Bookings -> Int]
        /\ \A c \in Bookings :
             deadline[c] \in IF state[c] = "NONE" THEN {NoTime} ELSE 0..SlotStart[c]
    BY DEF TypeOK, BookingTypeOK
  <2>4. /\ state' = [state EXCEPT ![b] = "PENDING"]
        /\ deadline' = [deadline EXCEPT ![b] = DeadlineFor(b)]
    OBVIOUS
  <2> HIDE DEF CreateBooking
  <2>5. /\ state' \in [Bookings -> BookingState \cup {"NONE"}]
        /\ deadline' \in [Bookings -> Int]
    BY <2>1, <2>2, <2>3, <2>4
  <2>6. ASSUME NEW c \in Bookings
        PROVE  deadline'[c] \in IF state'[c] = "NONE" THEN {NoTime} ELSE 0..SlotStart[c]
    BY <1>2, <2>1, <2>3, <2>4
  <2> QED
    BY <2>5, <2>6
<1>6. BookingTypeOK'
  BY <1>4, <1>5 DEF TypeOK, BookingTypeOK
<1>7. MoneyTypeOK'
  BY DEF TypeOK, MoneyTypeOK
<1>8. WorkerTypeOK'
  BY DEF TypeOK, WorkerTypeOK
<1> QED
  BY <1>6, <1>7, <1>8 DEF TypeOK

\* A request reads, decides or gives up; no row changes.
LEMMA RequestTypeOK ==
  ASSUME TypeOK, NEW r \in Requests,
         \/ \E b \in Bookings : DiscloseConsequence(r, b)
         \/ \E b \in Bookings, event \in HttpEvents : Read(r, b, event)
         \/ Decide(r)
         \/ ApplyExcluded(r)
  PROVE  TypeOK'
<1> USE DEF TypeOK
<1>1. ASSUME NEW b \in Bookings, DiscloseConsequence(r, b) PROVE TypeOK'
  <2>1. BookingTypeOK'
    BY <1>1 DEF DiscloseConsequence, rowVars, BookingTypeOK
  <2>2. MoneyTypeOK'
    BY <1>1 DEF DiscloseConsequence, moneyVars, MoneyTypeOK, Consequence, Quotes
  <2>3. WorkerTypeOK'
    BY <1>1 DEF DiscloseConsequence, WorkerTypeOK
  <2> QED
    BY <2>1, <2>2, <2>3
<1>2. ASSUME NEW b \in Bookings, NEW event \in HttpEvents, Read(r, b, event)
      PROVE  TypeOK'
  <2>1. BookingTypeOK'
    BY <1>2 DEF Read, rowVars, BookingTypeOK
  <2>2. MoneyTypeOK'
    BY <1>2 DEF Read, moneyVars, MoneyTypeOK
  <2>3. req'[r] \in ReadRequests
    BY <1>2 DEF Read, ReadRequests, BookingTypeOK, MoneyTypeOK, WorkerTypeOK, Quotes
  <2>4. WorkerTypeOK'
    BY <1>2, <2>3 DEF Read, WorkerTypeOK
  <2> QED
    BY <2>1, <2>2, <2>4
<1>3. ASSUME Decide(r) PROVE TypeOK'
  <2>1. BookingTypeOK'
    BY <1>3 DEF Decide, rowVars, BookingTypeOK
  <2>2. MoneyTypeOK'
    BY <1>3 DEF Decide, moneyVars, MoneyTypeOK
  <2> DEFINE q == req[r]
             run == RunEffects(q.seen, q.event, Context(q.booking, q.event, clock))
             remind == RemindFor(q.booking, q.event)
             decided == [ pc |-> "decided", booking |-> q.booking, event |-> q.event,
                          seen |-> q.seen, quoted |-> q.quoted, run |-> run,
                          remind |-> remind ]
  <2>3. q \in ReadRequests
    BY <1>3, ReadRequestType DEF Decide
  <2>4. run \in Seq(Effect)
    BY RunEffectsType
  <2>5. remind \in BOOLEAN
    BY DEF RemindFor
  <2>6. req' = [req EXCEPT ![r] = decided] \/ req' = [req EXCEPT ![r] = Over]
    BY <1>3 DEF Decide
  <2> HIDE DEF run, remind
  <2>7. decided \in DecidedRequests
    BY <2>3, <2>4, <2>5 DEF ReadRequests, DecidedRequests
  <2> HIDE DEF decided
  <2>8. WorkerTypeOK'
    BY <1>3, <2>6, <2>7 DEF Decide, WorkerTypeOK
  <2> QED
    BY <2>1, <2>2, <2>8
<1>4. ASSUME ApplyExcluded(r) PROVE TypeOK'
  <2>1. BookingTypeOK'
    BY <1>4 DEF ApplyExcluded, rowVars, BookingTypeOK
  <2>2. MoneyTypeOK'
    BY <1>4 DEF ApplyExcluded, moneyVars, MoneyTypeOK
  <2>3. WorkerTypeOK'
    BY <1>4 DEF ApplyExcluded, WorkerTypeOK
  <2> QED
    BY <2>1, <2>2, <2>3
<1> QED
  BY <1>1, <1>2, <1>3, <1>4

\* A request being served is about a booking that has been made.
RequestedBookingsExist ==
  \A r \in Requests :
    req[r].pc \in {"read", "decided"} => state[req[r].booking] # "NONE"

TypeInv == TypeOK /\ RequestedBookingsExist

\* The transaction of an HTTP transition.
LEMMA ApplyTypeOK ==
  ASSUME TypeInv, NEW r \in Requests, Apply(r)
  PROVE  TypeOK'
<1> DEFINE q == req[r]
           b == q.booking
           to == NextState(q.event)
           from == state[b]
           job == [ booking |-> b, event |-> q.event, from |-> q.seen, run |-> q.run,
                    settled |-> 100, quoted |-> q.quoted ]
<1>1. q \in DecidedRequests
  BY DecidedRequestType DEF Apply, TypeInv, TypeOK
<1>2. /\ b \in Bookings
      /\ q.event \in BookingEvent
      /\ q.seen \in BookingState
      /\ q.run \in Seq(Effect)
      /\ q.quoted \in Quotes
      /\ q.remind \in BOOLEAN
  BY <1>1 DEF DecidedRequests, HttpEvents
<1>3. to \in BookingState
  BY <1>2, NextStateType
<1>4. from \in BookingState
  BY <1>2 DEF Apply, TypeInv, TypeOK, BookingTypeOK, RequestedBookingsExist
<1>5. job \in Job
  BY <1>2 DEF Job, Percent
<1>6. Owed(job) \in Seq(Job)
  BY <1>5, OwedType
<1>7. [from |-> AuditedFrom(r), to |-> to, event |-> q.event] \in AuditRow
  BY <1>2, <1>3, <1>4 DEF AuditRow, AuditedFrom
<1>8. Announce(from, to, q.event) \in Seq(OutboxRow)
  BY <1>2, <1>3, <1>4, AnnounceType
<1>9. AutoAtAfter(b, q.event) \in Nat \cup {NoTime}
  <2>1. SlotEnd[b] + AutoCompleteWindow \in Nat
    BY <1>2, SlotsAreIntervals, WindowsAreNatural
  <2>2. autoAt[b] \in Nat \cup {NoTime}
    BY <1>2 DEF TypeInv, TypeOK, BookingTypeOK
  <2> QED
    BY <2>1, <2>2 DEF AutoAtAfter
<1>10. RemindersAfter(b, to, q.remind) \in Nat
  BY <1>2 DEF RemindersAfter, TypeInv, TypeOK, BookingTypeOK
<1>11. /\ state' = [state EXCEPT ![b] = to]
       /\ autoAt' = [autoAt EXCEPT ![b] = AutoAtAfter(b, q.event)]
       /\ reminders' = [reminders EXCEPT ![b] = RemindersAfter(b, to, q.remind)]
       /\ audit' = [audit EXCEPT ![b] =
            Append(@, [from |-> AuditedFrom(r), to |-> to, event |-> q.event])]
       /\ outbox' = [outbox EXCEPT ![b] = @ \o Announce(from, to, q.event)]
       /\ work' = [work EXCEPT ![r] = Owed(job)]
       /\ req' = [req EXCEPT ![r] = Over]
       /\ UNCHANGED <<clock, deadline, moneyVars, alarms, standing, quote, poll, faults>>
  BY DEF Apply
<1> HIDE DEF to, job, from
<1>12. BookingTypeOK'
  <2> USE DEF TypeInv, TypeOK, BookingTypeOK
  <2>1. state' \in [Bookings -> BookingState \cup {"NONE"}]
    BY <1>2, <1>3, <1>11
  <2>2. deadline' \in [Bookings -> Int]
    BY <1>11
  <2>3. ASSUME NEW c \in Bookings
        PROVE  deadline'[c] \in IF state'[c] = "NONE" THEN {NoTime} ELSE 0..SlotStart[c]
    <3>1. from # "NONE" /\ to # "NONE"
      BY <1>3, <1>4 DEF BookingState, Holding, Terminal
    <3>2. deadline'[c] = deadline[c]
      BY <1>11
    <3>3. (state'[c] = "NONE") = (state[c] = "NONE")
      BY <1>2, <1>11, <3>1 DEF from
    <3> QED
      BY <3>2, <3>3
  <2>4. autoAt' \in [Bookings -> Nat \cup {NoTime}] /\ reminders' \in [Bookings -> Nat]
    BY <1>2, <1>9, <1>10, <1>11
  <2>5. audit' \in [Bookings -> Seq(AuditRow)]
    BY <1>2, <1>7, <1>11
  <2>6. outbox' \in [Bookings -> Seq(OutboxRow)]
    <3>1. outbox[b] \o Announce(from, to, q.event) \in Seq(OutboxRow)
      BY <1>2, <1>8
    <3> QED
      BY <1>2, <1>11, <3>1
  <2>7. alarms' \in [Bookings -> Seq(AlarmRow)] /\ standing' \in [Bookings -> Seq(StandingKinds)]
    BY <1>11
  <2> QED
    BY <2>1, <2>2, <2>3, <2>4, <2>5, <2>6, <2>7
<1>13. MoneyTypeOK'
  BY <1>11 DEF TypeInv, TypeOK, MoneyTypeOK, moneyVars
<1>14. WorkerTypeOK'
  BY <1>6, <1>11 DEF TypeInv, TypeOK, WorkerTypeOK, Workers
<1> QED
  BY <1>12, <1>13, <1>14 DEF TypeOK

\* The event a poller phase claims rows for is an event of the system.
LEMMA EventOfType ==
  ASSUME NEW phase
  PROVE  EventOf(phase) \in BookingEvent
BY DEF EventOf, BookingEvent, PendingEvents, ConfirmedEvents

\* A row that is due holds its slot.
LEMMA DueHolds ==
  ASSUME NEW phase, NEW now, NEW b \in Due(phase, now)
  PROVE  b \in Bookings /\ state[b] \in Holding
BY DEF Due, Holding

\* One claim transaction of the poller.
LEMMA ClaimTypeOK ==
  ASSUME TypeOK, NEW p \in Pollers, NEW b \in Bookings, Claim(p, b)
  PROVE  TypeOK'
<1> DEFINE event == EventOf(poll[p].phase)
           to == NextState(event)
           from == state[b]
           job == [ booking |-> b, event |-> event, from |-> from,
                    run |-> RunEffects(from, event, Context(b, event, poll[p].now)),
                    settled |-> 100, quoted |-> "none" ]
<1>1. event \in BookingEvent
  BY EventOfType
<1>2. to \in BookingState
  BY <1>1, NextStateType
<1>3. from \in BookingState
  BY DueHolds DEF Claim, BookingState
<1>4. job \in Job
  <2> DEFINE run == RunEffects(from, event, Context(b, event, poll[p].now))
  <2>1. run \in Seq(Effect)
    BY RunEffectsType
  <2> HIDE DEF run
  <2> QED
    BY <1>1, <1>3, <2>1 DEF Job, Percent, Quotes, run
<1>5. [from |-> from, to |-> to, event |-> event] \in AuditRow
  BY <1>1, <1>2, <1>3 DEF AuditRow
<1>6. ClaimAnnounces(b, event) \in Seq(OutboxRow)
  BY <1>1, <1>2, <1>3, AnnounceType DEF ClaimAnnounces
<1>7. RemindersAfter(b, to, FALSE) \in Nat
  BY DEF RemindersAfter, TypeOK, BookingTypeOK
<1>8. /\ state' = [state EXCEPT ![b] = to]
      /\ audit' = [audit EXCEPT ![b] =
           Append(@, [from |-> from, to |-> to, event |-> event])]
      /\ outbox' = [outbox EXCEPT ![b] = @ \o ClaimAnnounces(b, event)]
      /\ reminders' = [reminders EXCEPT ![b] = RemindersAfter(b, to, FALSE)]
      /\ work' = [work EXCEPT ![p] = Append(work[p], job)]
      /\ UNCHANGED <<clock, deadline, autoAt, moneyVars, alarms, standing, quote,
                     req, poll, faults>>
  BY DEF Claim, QueueEffects
<1> HIDE DEF event, to, from, job
<1>9. BookingTypeOK'
  <2> USE DEF TypeOK, BookingTypeOK
  <2>1. state' \in [Bookings -> BookingState \cup {"NONE"}]
    BY <1>2, <1>8
  <2>2. ASSUME NEW c \in Bookings
        PROVE  deadline'[c] \in IF state'[c] = "NONE" THEN {NoTime} ELSE 0..SlotStart[c]
    <3>1. from # "NONE" /\ to # "NONE"
      BY <1>2, <1>3 DEF BookingState, Holding, Terminal
    <3>2. deadline'[c] = deadline[c]
      BY <1>8
    <3>3. (state'[c] = "NONE") = (state[c] = "NONE")
      BY <1>8, <3>1 DEF from
    <3> QED
      BY <3>2, <3>3
  <2>3. reminders' \in [Bookings -> Nat]
    BY <1>7, <1>8
  <2>4. audit' \in [Bookings -> Seq(AuditRow)]
    BY <1>5, <1>8
  <2>5. outbox' \in [Bookings -> Seq(OutboxRow)]
    <3>1. outbox[b] \o ClaimAnnounces(b, event) \in Seq(OutboxRow)
      BY <1>6
    <3> QED
      BY <1>8, <3>1
  <2>6. /\ deadline' \in [Bookings -> Int]
        /\ autoAt' \in [Bookings -> Nat \cup {NoTime}]
        /\ alarms' \in [Bookings -> Seq(AlarmRow)]
        /\ standing' \in [Bookings -> Seq(StandingKinds)]
    BY <1>8
  <2> QED
    BY <2>1, <2>2, <2>3, <2>4, <2>5, <2>6
<1>10. MoneyTypeOK'
  BY <1>8 DEF TypeOK, MoneyTypeOK, moneyVars
<1>11. WorkerTypeOK'
  BY <1>4, <1>8 DEF TypeOK, WorkerTypeOK, Workers
<1> QED
  BY <1>9, <1>10, <1>11 DEF TypeOK

\* The steps of a poller other than its claims.
LEMMA PollerTypeOK ==
  ASSUME TypeOK, NEW p \in Pollers,
         \/ BeginTick(p)
         \/ \E b \in Bookings : ClaimFails(p, b)
         \/ ClaimsDone(p)
         \/ EffectsDone(p)
  PROVE  TypeOK'
<1>0. /\ clock \in 0..MaxTime
      /\ poll \in [Pollers -> [phase : Phases, now : 0..MaxTime]]
      /\ 0 \in 0..MaxTime
  BY BoundsAreNatural DEF TypeOK, WorkerTypeOK
<1>1. ASSUME BeginTick(p) PROVE TypeOK'
  <2>1. poll' \in [Pollers -> [phase : Phases, now : 0..MaxTime]]
    BY <1>0, <1>1 DEF BeginTick, Phases
  <2> QED
    BY <1>1, <2>1 DEF BeginTick, rowVars, moneyVars, TypeOK, BookingTypeOK,
                      MoneyTypeOK, WorkerTypeOK
<1>2. ASSUME NEW b \in Bookings, ClaimFails(p, b) PROVE TypeOK'
  <2> DEFINE row == [state |-> state[b], event |-> EventOf(poll[p].phase),
                     reason |-> "poller_attempt_failed"]
  <2>1. row \in AlarmRow
    BY <1>2, EventOfType, DueHolds DEF ClaimFails, AlarmRow, BookingState
  <2>2. alarms' = [alarms EXCEPT ![b] = Append(@, row)]
    BY <1>2 DEF ClaimFails
  <2> HIDE DEF row
  <2>3. alarms' \in [Bookings -> Seq(AlarmRow)]
    BY <2>1, <2>2 DEF TypeOK, BookingTypeOK
  <2>4. faults' \in 0..MaxFaults
    BY <1>2, BoundsAreNatural DEF ClaimFails, TypeOK, WorkerTypeOK
  <2> QED
    BY <1>2, <2>3, <2>4 DEF ClaimFails, rowVars, moneyVars, TypeOK, BookingTypeOK,
                            MoneyTypeOK, WorkerTypeOK
<1>3. ASSUME ClaimsDone(p) PROVE TypeOK'
  <2>1. poll' \in [Pollers -> [phase : Phases, now : 0..MaxTime]]
    BY <1>0, <1>3 DEF ClaimsDone, Phases
  <2> QED
    BY <1>3, <2>1 DEF ClaimsDone, rowVars, moneyVars, TypeOK, BookingTypeOK,
                      MoneyTypeOK, WorkerTypeOK
<1>4. ASSUME EffectsDone(p) PROVE TypeOK'
  <2>1. poll' \in [Pollers -> [phase : Phases, now : 0..MaxTime]]
    BY <1>0, <1>4 DEF EffectsDone, Phases
  <2> QED
    BY <1>4, <2>1 DEF EffectsDone, rowVars, moneyVars, TypeOK, BookingTypeOK,
                      MoneyTypeOK, WorkerTypeOK
<1> QED
  BY <1>1, <1>2, <1>3, <1>4

\* The job whose effect a worker runs next.
LEMMA NextEffectType ==
  ASSUME TypeOK, NEW w \in Workers, NEW e, NextEffect(w, e)
  PROVE  /\ work[w] # << >> /\ Head(work[w]).run # << >>
         /\ Head(work[w]) \in Job
         /\ Head(work[w]).booking \in Bookings
         /\ Head(work[w]).settled \in Percent
         /\ \A settled \in Percent : Onward(w, settled) \in [Workers -> Seq(Job)]
         /\ AbandonJob(w) \in [Workers -> Seq(Job)]
<1>1. work[w] # << >> /\ Head(work[w]).run # << >>
  BY DEF NextEffect
<1>2. Head(work[w]) \in Job /\ Tail(work[w]) \in Seq(Job)
  BY <1>1, HeadJobType DEF TypeOK
<1>3. Head(work[w]).booking \in Bookings /\ Head(work[w]).settled \in Percent
  BY <1>2 DEF Job
<1>4. work \in [Workers -> Seq(Job)]
  BY DEF TypeOK, WorkerTypeOK
<1>5. \A settled \in Percent : Onward(w, settled) \in [Workers -> Seq(Job)]
  BY <1>1, <1>4, OnwardType
<1>6. AbandonJob(w) \in [Workers -> Seq(Job)]
  BY <1>2, <1>4 DEF AbandonJob
<1> QED
  BY <1>1, <1>2, <1>3, <1>5, <1>6

\* What the poller records when an effect fails is an alarm row.
LEMMA RecordFailureType ==
  ASSUME TypeOK, NEW w \in Workers, NEW e, NextEffect(w, e), RecordFailure(w)
  PROVE  alarms' \in [Bookings -> Seq(AlarmRow)]
<1> DEFINE job == Head(work[w])
           row == [state |-> job.from, event |-> job.event, reason |-> "effect_failed"]
<1>1. job \in Job
  BY NextEffectType
<1>2. row \in AlarmRow /\ job.booking \in Bookings
  BY <1>1 DEF Job, AlarmRow
<1>3. \/ alarms' = alarms
      \/ alarms' = [alarms EXCEPT ![job.booking] = Append(@, row)]
  BY DEF RecordFailure
<1>4. alarms \in [Bookings -> Seq(AlarmRow)]
  BY DEF TypeOK, BookingTypeOK
<1>5. [alarms EXCEPT ![job.booking] = Append(@, row)] \in [Bookings -> Seq(AlarmRow)]
  BY <1>2, <1>4, AppendType
<1> QED
  BY <1>3, <1>4, <1>5

\* An operation of a booking is completed or fails.
LEMMA OpUpdateType ==
  ASSUME MoneyTypeOK, NEW b \in Bookings, NEW outcome \in OpState
  PROVE  /\ [op EXCEPT ![b].cancel = outcome]
              \in [Bookings -> [cancel : OpState, capture : OpState]]
         /\ [op EXCEPT ![b].capture = outcome]
              \in [Bookings -> [cancel : OpState, capture : OpState]]
<1> DEFINE type == [cancel : OpState, capture : OpState]
<1>1. op \in [Bookings -> type]
  BY DEF MoneyTypeOK
<1>2. [op[b] EXCEPT !.cancel = outcome] \in type /\ [op[b] EXCEPT !.capture = outcome] \in type
  BY <1>1
<1> HIDE DEF type
<1> QED
  BY <1>1, <1>2 DEF type

\* One effect of a job, or its failure.
LEMMA EffectTypeOK ==
  ASSUME TypeOK, NEW w \in Workers, EffectStep(w)
  PROVE  TypeOK'
<1> DEFINE job == Head(work[w])
           b == job.booking
<1>0. \A e : NextEffect(w, e) =>
        /\ b \in Bookings /\ job.settled \in Percent
        /\ \A settled \in Percent : Onward(w, settled) \in [Workers -> Seq(Job)]
        /\ AbandonJob(w) \in [Workers -> Seq(Job)]
        /\ RecordFailure(w) => alarms' \in [Bookings -> Seq(AlarmRow)]
  <2> SUFFICES ASSUME NEW e, NextEffect(w, e)
                PROVE  /\ b \in Bookings /\ job.settled \in Percent
                       /\ \A settled \in Percent :
                            Onward(w, settled) \in [Workers -> Seq(Job)]
                       /\ AbandonJob(w) \in [Workers -> Seq(Job)]
                       /\ RecordFailure(w) => alarms' \in [Bookings -> Seq(AlarmRow)]
    OBVIOUS
  <2>1. RecordFailure(w) => alarms' \in [Bookings -> Seq(AlarmRow)]
    BY RecordFailureType
  <2> QED
    BY <2>1, NextEffectType
<1>1. ASSUME ReleaseAuth(w) PROVE TypeOK'
  <2>1. b \in Bookings /\ work' \in [Workers -> Seq(Job)]
    BY <1>0, <1>1 DEF ReleaseAuth
  <2>2. BookingTypeOK'
    BY <1>1 DEF ReleaseAuth, rowVars, TypeOK, BookingTypeOK
  <2>3. MoneyTypeOK'
    <3>0. op' = op \/ op' = [op EXCEPT ![b].cancel = "succeeded"]
      BY <1>1 DEF ReleaseAuth
    <3>2. /\ \/ UNCHANGED <<intent, auth>>
             \/ /\ intent' = [intent EXCEPT ![b] = IF @ = "held" THEN "canceled" ELSE @]
                /\ auth' = [auth EXCEPT ![b] = "CANCELLED"]
          /\ UNCHANGED <<ledger, captured, quote>>
      BY <1>1 DEF ReleaseAuth
    <3>3. {"succeeded", "failed"} \subseteq OpState
      BY DEF OpState
    <3> HIDE DEF b, job
    <3>1. op' \in [Bookings -> [cancel : OpState, capture : OpState]]
      <4>1. MoneyTypeOK /\ op \in [Bookings -> [cancel : OpState, capture : OpState]]
        BY DEF TypeOK, MoneyTypeOK
      <4> QED
        BY <2>1, <3>0, <3>3, <4>1, OpUpdateType
    <3>4. MoneyTypeOK
      BY DEF TypeOK
    <3>5. /\ intent' \in [Bookings -> {"none", "held", "canceled", "captured"}]
          /\ captured' \in [Bookings -> Percent \cup {0}]
          /\ auth' \in [Bookings -> {"none", "AUTHORIZED", "SETUP_ONLY", "CANCELLED", "CAPTURED"}]
      BY <2>1, <3>2, <3>4 DEF MoneyTypeOK
    <3> QED
      BY <3>1, <3>2, <3>4, <3>5 DEF MoneyTypeOK
  <2>4. WorkerTypeOK'
    BY <1>1, <2>1 DEF ReleaseAuth, TypeOK, WorkerTypeOK
  <2> QED
    BY <2>2, <2>3, <2>4 DEF TypeOK
<1>2. ASSUME ReleaseAuthFails(w) PROVE TypeOK'
  <2>1. /\ b \in Bookings /\ work' \in [Workers -> Seq(Job)]
        /\ alarms' \in [Bookings -> Seq(AlarmRow)]
    BY <1>0, <1>2 DEF ReleaseAuthFails
  <2>2. BookingTypeOK'
    BY <1>2, <2>1 DEF ReleaseAuthFails, rowVars, TypeOK, BookingTypeOK
  <2>3. MoneyTypeOK'
    <3>0. op' = op \/ op' = [op EXCEPT ![b].cancel = "failed"]
      BY <1>2 DEF ReleaseAuthFails
    <3>2. /\ intent' = intent \/ intent' = [intent EXCEPT ![b] = "canceled"]
          /\ UNCHANGED <<ledger, captured, auth, quote>>
      BY <1>2 DEF ReleaseAuthFails
    <3>3. {"succeeded", "failed"} \subseteq OpState
      BY DEF OpState
    <3> HIDE DEF b, job
    <3>1. op' \in [Bookings -> [cancel : OpState, capture : OpState]]
      <4>1. MoneyTypeOK /\ op \in [Bookings -> [cancel : OpState, capture : OpState]]
        BY DEF TypeOK, MoneyTypeOK
      <4> QED
        BY <2>1, <3>0, <3>3, <4>1, OpUpdateType
    <3>4. MoneyTypeOK
      BY DEF TypeOK
    <3>5. /\ intent' \in [Bookings -> {"none", "held", "canceled", "captured"}]
          /\ captured' \in [Bookings -> Percent \cup {0}]
          /\ auth' \in [Bookings -> {"none", "AUTHORIZED", "SETUP_ONLY", "CANCELLED", "CAPTURED"}]
      BY <2>1, <3>2, <3>4 DEF MoneyTypeOK
    <3> QED
      BY <3>1, <3>2, <3>4, <3>5 DEF MoneyTypeOK
  <2>4. WorkerTypeOK'
    BY <1>2, <2>1 DEF ReleaseAuthFails, TypeOK, WorkerTypeOK
  <2> QED
    BY <2>2, <2>3, <2>4 DEF TypeOK
<1>3. ASSUME NEW pct \in Percent, Capture(w, pct) PROVE TypeOK'
  <2>1. b \in Bookings /\ work' \in [Workers -> Seq(Job)]
    BY <1>0, <1>3 DEF Capture
  <2>2. outbox' \in [Bookings -> Seq(OutboxRow)]
    <3> DEFINE row == [type |-> "PaymentCaptured"]
    <3>1. row \in OutboxRow
      BY DEF OutboxRow
    <3>2. outbox' = outbox \/ outbox' = [outbox EXCEPT ![b] = Append(@, row)]
      BY <1>3 DEF Capture
    <3>3. outbox \in [Bookings -> Seq(OutboxRow)]
      BY DEF TypeOK, BookingTypeOK
    <3> HIDE DEF row, b
    <3>4. [outbox EXCEPT ![b] = Append(@, row)] \in [Bookings -> Seq(OutboxRow)]
      BY <2>1, <3>1, <3>3, AppendType
    <3> QED
      BY <3>2, <3>3, <3>4
  <2>3. BookingTypeOK'
    BY <1>3, <2>2 DEF Capture, TypeOK, BookingTypeOK
  <2>4. MoneyTypeOK'
    <3>0. op' = op \/ op' = [op EXCEPT ![b].capture = "succeeded"]
      BY <1>3 DEF Capture
    <3>2. /\ \/ UNCHANGED <<intent, captured, auth>>
             \/ /\ intent' = [intent EXCEPT ![b] = "captured"]
                /\ captured' = [captured EXCEPT ![b] = pct]
                /\ auth' = [auth EXCEPT ![b] = "CAPTURED"]
          /\ UNCHANGED <<ledger, quote>>
      BY <1>3 DEF Capture
    <3>3. {"succeeded", "failed"} \subseteq OpState
      BY DEF OpState
    <3> HIDE DEF b, job
    <3>1. op' \in [Bookings -> [cancel : OpState, capture : OpState]]
      <4>1. MoneyTypeOK /\ op \in [Bookings -> [cancel : OpState, capture : OpState]]
        BY DEF TypeOK, MoneyTypeOK
      <4> QED
        BY <2>1, <3>0, <3>3, <4>1, OpUpdateType
    <3>4. MoneyTypeOK
      BY DEF TypeOK
    <3>5. /\ intent' \in [Bookings -> {"none", "held", "canceled", "captured"}]
          /\ captured' \in [Bookings -> Percent \cup {0}]
          /\ auth' \in [Bookings -> {"none", "AUTHORIZED", "SETUP_ONLY", "CANCELLED", "CAPTURED"}]
      BY <2>1, <3>2, <3>4 DEF MoneyTypeOK
    <3> QED
      BY <3>1, <3>2, <3>4, <3>5 DEF MoneyTypeOK
  <2>5. WorkerTypeOK'
    BY <1>3, <2>1 DEF Capture, TypeOK, WorkerTypeOK
  <2> QED
    BY <2>3, <2>4, <2>5 DEF TypeOK
<1>4. ASSUME NEW pct \in Percent, CaptureFails(w, pct) PROVE TypeOK'
  <2>1. /\ b \in Bookings /\ work' \in [Workers -> Seq(Job)]
        /\ alarms' \in [Bookings -> Seq(AlarmRow)]
    BY <1>0, <1>4 DEF CaptureFails
  <2>2. BookingTypeOK'
    BY <1>4, <2>1 DEF CaptureFails, rowVars, TypeOK, BookingTypeOK
  <2>3. MoneyTypeOK'
    <3>0. op' = op \/ op' = [op EXCEPT ![b].capture = "failed"]
      BY <1>4 DEF CaptureFails
    <3>2. /\ \/ intent' = intent /\ captured' = captured
             \/ /\ intent' = [intent EXCEPT ![b] = "captured"]
                /\ captured' = [captured EXCEPT ![b] = pct]
          /\ UNCHANGED <<ledger, auth, quote>>
      BY <1>4 DEF CaptureFails
    <3>3. {"succeeded", "failed"} \subseteq OpState
      BY DEF OpState
    <3> HIDE DEF b, job
    <3>1. op' \in [Bookings -> [cancel : OpState, capture : OpState]]
      <4>1. MoneyTypeOK /\ op \in [Bookings -> [cancel : OpState, capture : OpState]]
        BY DEF TypeOK, MoneyTypeOK
      <4> QED
        BY <2>1, <3>0, <3>3, <4>1, OpUpdateType
    <3>4. MoneyTypeOK
      BY DEF TypeOK
    <3>5. /\ intent' \in [Bookings -> {"none", "held", "canceled", "captured"}]
          /\ captured' \in [Bookings -> Percent \cup {0}]
          /\ auth' \in [Bookings -> {"none", "AUTHORIZED", "SETUP_ONLY", "CANCELLED", "CAPTURED"}]
      BY <2>1, <3>2, <3>4 DEF MoneyTypeOK
    <3> QED
      BY <3>1, <3>2, <3>4, <3>5 DEF MoneyTypeOK
  <2>4. WorkerTypeOK'
    BY <1>4, <2>1 DEF CaptureFails, TypeOK, WorkerTypeOK
  <2> QED
    BY <2>2, <2>3, <2>4 DEF TypeOK
<1>5. ASSUME Split(w) PROVE TypeOK'
  <2>1. b \in Bookings /\ job.settled \in Percent /\ work' \in [Workers -> Seq(Job)]
    BY <1>0, <1>5 DEF Split
  <2>2. BookingTypeOK'
    BY <1>5 DEF Split, rowVars, TypeOK, BookingTypeOK
  <2>3. MoneyTypeOK'
    BY <1>5, <2>1 DEF Split, TypeOK, MoneyTypeOK
  <2>4. WorkerTypeOK'
    BY <1>5, <2>1 DEF Split, TypeOK, WorkerTypeOK
  <2> QED
    BY <2>2, <2>3, <2>4 DEF TypeOK
<1>6. ASSUME RecordStanding(w) PROVE TypeOK'
  <2>1. b \in Bookings /\ work' \in [Workers -> Seq(Job)]
    BY <1>0, <1>6 DEF RecordStanding
  <2>2. BookingTypeOK'
    BY <1>6, <2>1, StandingKindType DEF RecordStanding, rowVars, TypeOK, BookingTypeOK
  <2>3. MoneyTypeOK'
    BY <1>6 DEF RecordStanding, moneyVars, TypeOK, MoneyTypeOK
  <2>4. WorkerTypeOK'
    BY <1>6, <2>1 DEF RecordStanding, TypeOK, WorkerTypeOK
  <2> QED
    BY <2>2, <2>3, <2>4 DEF TypeOK
<1>7. ASSUME InsertFails(w) PROVE TypeOK'
  <2>1. /\ work' \in [Workers -> Seq(Job)]
        /\ alarms' \in [Bookings -> Seq(AlarmRow)]
    BY <1>0, <1>7 DEF InsertFails
  <2>2. faults' \in 0..MaxFaults
    BY <1>7, BoundsAreNatural DEF InsertFails, TypeOK, WorkerTypeOK
  <2> QED
    BY <1>7, <2>1, <2>2 DEF InsertFails, rowVars, moneyVars, TypeOK, BookingTypeOK,
                            MoneyTypeOK, WorkerTypeOK
<1> QED
  BY <1>1, <1>2, <1>3, <1>4, <1>5, <1>6, <1>7 DEF EffectStep

\* A crash, the clock, and a step that changes nothing.
LEMMA OtherTypeOK ==
  ASSUME TypeOK, Tick \/ (\E w \in Workers : Crash(w)) \/ UNCHANGED vars
  PROVE  TypeOK'
<1>1. ASSUME NEW w \in Workers, Crash(w) PROVE TypeOK'
  <2>1. faults' \in 0..MaxFaults /\ 0 \in 0..MaxTime
    BY <1>1, BoundsAreNatural DEF Crash, TypeOK, WorkerTypeOK
  <2>2. req' \in [Requests -> {Idle, Over} \cup ReadRequests \cup DecidedRequests]
    BY <1>1 DEF Crash, TypeOK, WorkerTypeOK
  <2>3. poll' \in [Pollers -> [phase : Phases, now : 0..MaxTime]]
    BY <1>1, <2>1 DEF Crash, TypeOK, WorkerTypeOK, Phases
  <2>4. work' \in [Workers -> Seq(Job)]
    BY <1>1 DEF Crash, TypeOK, WorkerTypeOK
  <2>5. WorkerTypeOK'
    BY <1>1, <2>1, <2>2, <2>3, <2>4 DEF Crash, TypeOK, WorkerTypeOK
  <2> QED
    BY <1>1, <2>5 DEF Crash, rowVars, moneyVars, TypeOK, BookingTypeOK, MoneyTypeOK
<1>2. ASSUME Tick PROVE TypeOK'
  <2>1. clock' \in 0..MaxTime
    BY <1>2, BoundsAreNatural DEF Tick, TypeOK, WorkerTypeOK
  <2> QED
    BY <1>2, <2>1 DEF Tick, rowVars, moneyVars, TypeOK, BookingTypeOK,
                      MoneyTypeOK, WorkerTypeOK
<1>3. ASSUME UNCHANGED vars PROVE TypeOK'
  BY <1>3 DEF vars, rowVars, moneyVars, TypeOK, BookingTypeOK, MoneyTypeOK,
              WorkerTypeOK
<1> QED
  BY <1>1, <1>2, <1>3

\* Only a creation, an HTTP transition or a claim writes a booking's row.
LEMMA RowWriters ==
  ASSUME [Next]_vars
  PROVE  \/ \E b \in Bookings : CreateBooking(b)
         \/ \E r \in Requests : Apply(r)
         \/ \E p \in Pollers, b \in Bookings : Claim(p, b)
         \/ UNCHANGED <<state, deadline, autoAt, reminders, audit>>
<1>1. ASSUME NEW r \in Requests, RequestStep(r)
      PROVE  Apply(r) \/ UNCHANGED <<state, deadline, autoAt, reminders, audit>>
  BY <1>1 DEF RequestStep, DiscloseConsequence, Read, Decide, ApplyExcluded, rowVars
<1>2. ASSUME NEW p \in Pollers, PollerStep(p)
      PROVE  \/ \E b \in Bookings : Claim(p, b)
             \/ UNCHANGED <<state, deadline, autoAt, reminders, audit>>
  BY <1>2 DEF PollerStep, BeginTick, ClaimFails, ClaimsDone, EffectsDone, rowVars
<1>3. ASSUME NEW w \in Workers, EffectStep(w) \/ Crash(w)
      PROVE  UNCHANGED <<state, deadline, autoAt, reminders, audit>>
  BY <1>3 DEF EffectStep, ReleaseAuth, ReleaseAuthFails, Capture, CaptureFails, Split,
              RecordStanding, InsertFails, Crash, rowVars
<1>4. Tick \/ UNCHANGED vars => UNCHANGED <<state, deadline, autoAt, reminders, audit>>
  BY DEF Tick, rowVars, vars
<1> QED
  BY <1>1, <1>2, <1>3, <1>4 DEF Next

\* Once made, a booking is never unmade.
LEMMA BookingsStayMade ==
  ASSUME TypeOK, TypeOK', [Next]_vars, NEW b \in Bookings, state[b] # "NONE"
  PROVE  state'[b] # "NONE"
<1>0. state \in [Bookings -> BookingState \cup {"NONE"}] /\ "NONE" \notin BookingState
  BY DEF TypeOK, BookingTypeOK, BookingState, Holding, Terminal
<1>1. ASSUME NEW c \in Bookings, CreateBooking(c) PROVE state'[b] # "NONE"
  BY <1>0, <1>1 DEF CreateBooking
<1>2. ASSUME NEW r \in Requests, Apply(r) PROVE state'[b] # "NONE"
  <2> DEFINE to == NextState(req[r].event)
  <2>1. req[r].event \in BookingEvent
    BY <1>2, DecidedRequestType DEF Apply, TypeOK, DecidedRequests, HttpEvents
  <2>2. to \in BookingState
    BY <2>1, NextStateType
  <2>3. state' = [state EXCEPT ![req[r].booking] = to]
    BY <1>2 DEF Apply
  <2> HIDE DEF to
  <2> QED
    BY <1>0, <2>2, <2>3
<1>3. ASSUME NEW p \in Pollers, NEW c \in Bookings, Claim(p, c) PROVE state'[b] # "NONE"
  <2> DEFINE to == NextState(EventOf(poll[p].phase))
  <2>1. to \in BookingState
    BY EventOfType, NextStateType
  <2>2. state' = [state EXCEPT ![c] = to]
    BY <1>3 DEF Claim
  <2> HIDE DEF to
  <2> QED
    BY <1>0, <2>1, <2>2
<1> QED
  BY <1>1, <1>2, <1>3, RowWriters

\* What a request knows changes only by its own steps.
LEMMA RequestWriters ==
  ASSUME [Next]_vars, NEW r \in Requests, req'[r] # req[r],
         req \in [Requests -> {Idle, Over} \cup ReadRequests \cup DecidedRequests]
  PROVE  \/ \E b \in Bookings, event \in HttpEvents : Read(r, b, event)
         \/ Decide(r)
         \/ req'[r] = Over
<1>1. ASSUME NEW q \in Requests, RequestStep(q)
      PROVE  \/ \E b \in Bookings, event \in HttpEvents : Read(r, b, event)
             \/ Decide(r)
             \/ req'[r] = Over
  BY <1>1 DEF RequestStep, DiscloseConsequence, Read, Decide, Apply, ApplyExcluded
<1>2. ASSUME NEW p \in Pollers, PollerStep(p) PROVE req' = req
  BY <1>2 DEF PollerStep, BeginTick, Claim, ClaimFails, ClaimsDone, EffectsDone
<1>3. ASSUME NEW w \in Workers, EffectStep(w) PROVE req' = req
  BY <1>3 DEF EffectStep, ReleaseAuth, ReleaseAuthFails, Capture, CaptureFails, Split,
              RecordStanding, InsertFails
<1>4. ASSUME NEW w \in Workers, Crash(w) PROVE req'[r] = Over
  BY <1>4 DEF Crash
<1>5. (\E b \in Bookings : CreateBooking(b)) \/ Tick \/ UNCHANGED vars => req' = req
  BY DEF CreateBooking, Tick, vars
<1> QED
  BY <1>1, <1>2, <1>3, <1>4, <1>5 DEF Next

\* No step makes a request speak of a booking that has not been made.
LEMMA RequestedBookingsExistStep ==
  ASSUME TypeInv, TypeOK', [Next]_vars
  PROVE  RequestedBookingsExist'
<1> SUFFICES ASSUME NEW r \in Requests, req'[r].pc \in {"read", "decided"}
             PROVE  state'[req'[r].booking] # "NONE"
  BY DEF RequestedBookingsExist
<1>0. req \in [Requests -> {Idle, Over} \cup ReadRequests \cup DecidedRequests]
  BY DEF TypeInv, TypeOK, WorkerTypeOK
<1>1. req'[r].booking \in Bookings /\ state[req'[r].booking] # "NONE"
  <2>1. CASE req'[r] = req[r]
    BY <2>1, <1>0, ReadRequestType, DecidedRequestType
       DEF TypeInv, TypeOK, RequestedBookingsExist, ReadRequests, DecidedRequests
  <2>2. ASSUME NEW b \in Bookings, NEW event \in HttpEvents, Read(r, b, event)
        PROVE  req'[r].booking \in Bookings /\ state[req'[r].booking] # "NONE"
    BY <2>2, <1>0 DEF Read
  <2>3. CASE Decide(r)
    <3>1. req[r] \in ReadRequests /\ state[req[r].booking] # "NONE"
      BY <2>3, ReadRequestType DEF Decide, TypeInv, TypeOK, RequestedBookingsExist
    <3>2. req'[r].booking = req[r].booking
      BY <2>3, <1>0 DEF Decide, Over
    <3> QED
      BY <3>1, <3>2 DEF ReadRequests
  <2>4. req'[r] # Over
    BY DEF Over
  <2> QED
    BY <1>0, <2>1, <2>2, <2>3, <2>4, RequestWriters
<1> QED
  BY <1>1, BookingsStayMade DEF TypeInv

\* Every step keeps the types, given that requests are about bookings made.
LEMMA TypeInvStep ==
  ASSUME TypeInv, [Next]_vars
  PROVE  TypeInv'
<1>0. TypeOK
  BY DEF TypeInv
<1>1. ASSUME NEW r \in Requests, RequestStep(r) PROVE TypeOK'
  BY <1>0, <1>1, RequestTypeOK, ApplyTypeOK DEF RequestStep
<1>2. ASSUME NEW p \in Pollers, PollerStep(p) PROVE TypeOK'
  BY <1>0, <1>2, PollerTypeOK, ClaimTypeOK DEF PollerStep
<1>3. TypeOK'
  BY <1>0, <1>1, <1>2, CreateTypeOK, EffectTypeOK, OtherTypeOK DEF Next
<1> QED
  BY <1>3, RequestedBookingsExistStep DEF TypeInv

\* The types hold throughout, and requests speak of bookings that exist.
THEOREM TypeInvariant == Spec => []TypeInv
<1>1. Init => TypeInv
  BY InitTypeOK DEF Init, TypeInv, RequestedBookingsExist, Idle
<1>2. TypeInv /\ [Next]_vars => TypeInv'
  BY TypeInvStep
<1> QED
  BY <1>1, <1>2, PTL DEF Spec

\* Every variable keeps its type, and no deadline lies after its slot's start,
\* whatever requests and pollers do and however often they fail (BOK-004).
THEOREM TypeCorrect == Spec => []TypeOK
<1>1. TypeInv => TypeOK
  BY DEF TypeInv
<1> QED
  BY <1>1, TypeInvariant, PTL

---------------------------------------------------------------------------
\* The three transactions that write a booking's row, seen as one: the row of
\* some booking b goes to state `to`, its audit row says from where, and the
\* exclusion constraint has let it pass.
RowStep(b, to, event, remind) ==
  /\ b \in Bookings /\ to \in BookingState /\ event \in BookingEvent
  /\ state[b] \in BookingState
  /\ ~Excluded(b, to)
  /\ state' = [state EXCEPT ![b] = to]
  /\ audit' = [audit EXCEPT ![b] =
       Append(@, [from |-> state[b], to |-> to, event |-> event])]
  /\ reminders' = [reminders EXCEPT ![b] = RemindersAfter(b, to, remind)]

\* An HTTP transition is such a step.
LEMMA ApplyIsRowStep ==
  ASSUME TypeInv, NEW r \in Requests, Apply(r)
  PROVE  RowStep(req[r].booking, NextState(req[r].event), req[r].event, req[r].remind)
<1>1. req[r] \in DecidedRequests
  BY DecidedRequestType DEF Apply, TypeInv, TypeOK
<1>2. req[r].booking \in Bookings /\ req[r].event \in BookingEvent
  BY <1>1 DEF DecidedRequests, HttpEvents
<1>3. state[req[r].booking] \in BookingState
  BY <1>2 DEF Apply, TypeInv, TypeOK, BookingTypeOK, RequestedBookingsExist
<1>4. NextState(req[r].event) \in BookingState
  BY <1>2, NextStateType
<1> QED
  BY <1>2, <1>3, <1>4 DEF Apply, RowStep, AuditedFrom

\* So is a claim, whose booking stops holding its slot.
LEMMA ClaimIsRowStep ==
  ASSUME TypeInv, NEW p \in Pollers, NEW b \in Bookings, Claim(p, b)
  PROVE  LET event == EventOf(poll[p].phase)
         IN  RowStep(b, NextState(event), event, FALSE)
<1> DEFINE event == EventOf(poll[p].phase)
<1>1. event \in BookingEvent /\ NextState(event) \in BookingState
  BY EventOfType, NextStateType
<1>2. state[b] \in BookingState
  BY DueHolds DEF Claim, BookingState
<1>3. NextState(event) \notin Holding
  BY DEF EventOf, NextState, Holding
<1> QED
  BY <1>1, <1>2, <1>3 DEF Claim, RowStep, Excluded

\* Every step creates a booking, is a row step, or leaves the rows alone.
LEMMA RowStepCases ==
  ASSUME TypeInv, [Next]_vars
  PROVE  \/ \E b \in Bookings : CreateBooking(b)
         \/ \E b, to, event, remind : RowStep(b, to, event, remind)
         \/ UNCHANGED <<state, audit, reminders>>
<1>1. ASSUME NEW r \in Requests, Apply(r)
      PROVE  \E b, to, event, remind : RowStep(b, to, event, remind)
  BY <1>1, ApplyIsRowStep
<1>2. ASSUME NEW p \in Pollers, NEW b \in Bookings, Claim(p, b)
      PROVE  \E c, to, event, remind : RowStep(c, to, event, remind)
  BY <1>2, ClaimIsRowStep
<1> QED
  BY <1>1, <1>2, RowWriters

---------------------------------------------------------------------------
\* No double booking.

\* Overlap does not depend on the order of the two bookings.
LEMMA OverlapSymmetric ==
  ASSUME NEW b, NEW c, Overlap(b, c)
  PROVE  Overlap(c, b)
BY DEF Overlap

\* A row the constraint lets into a state overlaps no row that holds its slot.
LEMMA AdmittedRowOverlapsNone ==
  ASSUME NoDoubleBooking, state \in [Bookings -> BookingState \cup {"NONE"}],
         NEW b \in Bookings, NEW to,
         ~Excluded(b, to), state' = [state EXCEPT ![b] = to]
  PROVE  NoDoubleBooking'
<1> SUFFICES ASSUME NEW c \in Bookings, NEW d \in Bookings,
                    c # d, state'[c] \in Holding, state'[d] \in Holding,
                    Overlap(c, d)
             PROVE  FALSE
  BY DEF NoDoubleBooking, Overlap
<1>1. CASE c = b
  BY <1>1 DEF Excluded
<1>2. CASE d = b
  BY <1>2, OverlapSymmetric DEF Excluded
<1>3. CASE c # b /\ d # b
  BY <1>3 DEF NoDoubleBooking
<1> QED
  BY <1>1, <1>2, <1>3

\* BOK-002: whatever stale answers handlers apply, no two bookings that hold
\* their slots at one provider ever overlap, because every transaction that
\* makes a row hold its slot goes past the exclusion constraint.
THEOREM NeverDoubleBooked == Spec => []NoDoubleBooking
<1>1. Init => NoDoubleBooking
  BY DEF Init, NoDoubleBooking, Holding
<1>2. TypeInv /\ NoDoubleBooking /\ [Next]_vars => NoDoubleBooking'
  <2> SUFFICES ASSUME TypeInv, NoDoubleBooking, [Next]_vars PROVE NoDoubleBooking'
    OBVIOUS
  <2>0. state \in [Bookings -> BookingState \cup {"NONE"}]
    BY DEF TypeInv, TypeOK, BookingTypeOK
  <2>1. ASSUME NEW b \in Bookings, CreateBooking(b) PROVE NoDoubleBooking'
    BY <2>0, <2>1, AdmittedRowOverlapsNone DEF CreateBooking
  <2>2. ASSUME NEW b, NEW to, NEW event, NEW remind, RowStep(b, to, event, remind)
        PROVE  NoDoubleBooking'
    BY <2>0, <2>2, AdmittedRowOverlapsNone DEF RowStep
  <2>3. CASE UNCHANGED state
    BY <2>3 DEF NoDoubleBooking, Overlap
  <2> QED
    BY <2>1, <2>2, <2>3, RowStepCases
<1> QED
  BY <1>1, <1>2, TypeInvariant, PTL DEF Spec

---------------------------------------------------------------------------
\* NOT-002: only a CONFIRMED booking has a reminder waiting, however it came
\* and went, because the one UPDATE that leaves CONFIRMED drops the unsent rows.
THEOREM RemindersOnlyWhileConfirmed == Spec => []ReminderOnlyWhileConfirmed
<1>1. Init => ReminderOnlyWhileConfirmed
  BY DEF Init, ReminderOnlyWhileConfirmed
<1>2. TypeInv /\ ReminderOnlyWhileConfirmed /\ [Next]_vars => ReminderOnlyWhileConfirmed'
  <2> SUFFICES ASSUME TypeInv, ReminderOnlyWhileConfirmed, [Next]_vars,
                      NEW c \in Bookings, reminders'[c] > 0
               PROVE  state'[c] = "CONFIRMED"
    BY DEF ReminderOnlyWhileConfirmed
  <2>0. /\ state \in [Bookings -> BookingState \cup {"NONE"}]
        /\ reminders \in [Bookings -> Nat]
    BY DEF TypeInv, TypeOK, BookingTypeOK
  <2>1. ASSUME NEW b \in Bookings, CreateBooking(b) PROVE state'[c] = "CONFIRMED"
    BY <2>0, <2>1 DEF CreateBooking, ReminderOnlyWhileConfirmed
  <2>2. ASSUME NEW b, NEW to, NEW event, NEW remind, RowStep(b, to, event, remind)
        PROVE  state'[c] = "CONFIRMED"
    <3>1. CASE c # b
      BY <2>0, <2>2, <3>1 DEF RowStep, ReminderOnlyWhileConfirmed
    <3>2. CASE c = b
      <4>1. reminders'[c] = RemindersAfter(b, to, remind) /\ state'[c] = to
        BY <2>0, <2>2, <3>2 DEF RowStep
      <4> QED
        BY <2>0, <3>2, <4>1 DEF RemindersAfter, ReminderOnlyWhileConfirmed
    <3> QED
      BY <3>1, <3>2
  <2>3. CASE UNCHANGED <<state, reminders>>
    BY <2>3 DEF ReminderOnlyWhileConfirmed
  <2> QED
    BY <2>1, <2>2, <2>3, RowStepCases
<1> QED
  BY <1>1, <1>2, TypeInvariant, PTL DEF Spec

---------------------------------------------------------------------------
\* The trail of one booking, and what AuditTrailExplainsState says of it.
Explains(trail, now) ==
  IF trail = << >> THEN now \in {"NONE", "PENDING"}
  ELSE /\ trail[1].from = "PENDING"
       /\ \A i \in 1..Len(trail) - 1 : trail[i + 1].from = trail[i].to
       /\ trail[Len(trail)].to = now

\* One more row that starts at the present state explains the next one.
LEMMA TrailGrows ==
  ASSUME NEW trail \in Seq(AuditRow), NEW from \in BookingState, NEW to \in BookingState,
         NEW event, Explains(trail, from)
  PROVE  Explains(Append(trail, [from |-> from, to |-> to, event |-> event]), to)
<1> DEFINE row == [from |-> from, to |-> to, event |-> event]
           longer == Append(trail, row)
<1>1. /\ Len(longer) = Len(trail) + 1
      /\ longer # << >>
      /\ longer[Len(longer)] = row
      /\ \A i \in 1..Len(trail) : longer[i] = trail[i]
      /\ Len(trail) \in Nat
  OBVIOUS
<1>2. row.from = from /\ row.to = to
  OBVIOUS
<1> HIDE DEF row, longer
<1>3. ASSUME trail = << >> PROVE Explains(longer, to)
  BY <1>1, <1>2, <1>3 DEF Explains, BookingState, Holding, Terminal
<1>4. ASSUME trail # << >> PROVE Explains(longer, to)
  BY <1>1, <1>2, <1>4 DEF Explains
<1>5. Explains(longer, to)
  BY <1>3, <1>4
<1> QED
  BY <1>5 DEF longer, row

\* Design 7.2.4: the audit rows of a booking chain from PENDING to the state it
\* is in, even when a stale handler moved it, since from_state is what the
\* transaction finds in the row it has locked.
THEOREM AuditTrailAlwaysExplains == Spec => []AuditTrailExplainsState
<1>0. AuditTrailExplainsState <=> \A b \in Bookings : Explains(audit[b], state[b])
  BY DEF AuditTrailExplainsState, Explains
<1>1. Init => AuditTrailExplainsState
  BY <1>0 DEF Init, Explains
<1>2. TypeInv /\ AuditTrailExplainsState /\ [Next]_vars => AuditTrailExplainsState'
  <2> SUFFICES ASSUME TypeInv, \A b \in Bookings : Explains(audit[b], state[b]),
                      [Next]_vars, NEW c \in Bookings
               PROVE  Explains(audit[c], state[c])'
    BY DEF AuditTrailExplainsState, Explains
  <2>0. /\ state \in [Bookings -> BookingState \cup {"NONE"}]
        /\ audit \in [Bookings -> Seq(AuditRow)]
    BY DEF TypeInv, TypeOK, BookingTypeOK
  <2>1. ASSUME NEW b \in Bookings, CreateBooking(b)
        PROVE  Explains(audit[c], state[c])'
    <3>1. CASE c # b
      BY <2>0, <2>1, <3>1 DEF CreateBooking, Explains
    <3>2. CASE c = b
      <4>1. state[c] = "NONE" /\ state'[c] = "PENDING" /\ audit'[c] = audit[c]
        BY <2>0, <2>1, <3>2 DEF CreateBooking
      <4>2. "NONE" \notin BookingState
        BY DEF BookingState, Holding, Terminal
      <4>3. audit[c] = << >>
        <5>1. CASE audit[c] # << >>
          <6>1. Len(audit[c]) \in 1..Len(audit[c]) /\ audit[c] \in Seq(AuditRow)
            BY <2>0, <5>1
          <6>2. audit[c][Len(audit[c])] \in AuditRow
            BY <6>1
          <6>3. audit[c][Len(audit[c])].to \in BookingState
            BY <6>2 DEF AuditRow
          <6> QED
            BY <4>1, <4>2, <5>1, <6>3 DEF Explains
        <5> QED
          BY <5>1
      <4> QED
        BY <4>1, <4>3 DEF Explains
    <3> QED
      BY <3>1, <3>2
  <2>2. ASSUME NEW b, NEW to, NEW event, NEW remind, RowStep(b, to, event, remind)
        PROVE  Explains(audit[c], state[c])'
    <3>1. CASE c # b
      <4>1. audit'[c] = audit[c] /\ state'[c] = state[c]
        BY <2>0, <2>2, <3>1 DEF RowStep
      <4> QED
        BY <4>1 DEF Explains
    <3>2. CASE c = b
      <4>1. /\ state'[c] = to
            /\ audit'[c] = Append(audit[c], [from |-> state[c], to |-> to, event |-> event])
            /\ state[c] \in BookingState /\ to \in BookingState
        BY <2>0, <2>2, <3>2 DEF RowStep
      <4>2. Explains(audit'[c], to)
        BY <2>0, <4>1, TrailGrows
      <4> QED
        BY <4>1, <4>2 DEF Explains
    <3> QED
      BY <3>1, <3>2
  <2>3. CASE UNCHANGED <<state, audit>>
    BY <2>3 DEF Explains
  <2> QED
    BY <2>1, <2>2, <2>3, RowStepCases
<1> QED
  BY <1>1, <1>2, TypeInvariant, PTL DEF Spec

---------------------------------------------------------------------------
\* Decisions.

\* The plans the machine makes for executeEffects while nothing is captured yet.
Plans ==
  { << >>, <<"ReleaseAuth">>, <<"ReleaseAuth", "RecordStanding">>,
    <<"Capture50", "Split">>, <<"Capture100", "Split">> }

\* What a handler has decided follows the table for the state it has read, and
\* plans a full capture only if the slot has started.
DecisionsSound ==
  \A r \in Requests : req[r].pc = "decided" =>
    /\ req[r].event \in EventsTakenIn(req[r].seen)
    /\ req[r].run \in Plans
    /\ req[r].run = <<"Capture100", "Split">> => clock >= SlotStart[req[r].booking]

\* transition() hands out only plans: no caller says the price is captured.
LEMMA RunEffectsPlan ==
  ASSUME NEW b, NEW s, NEW event, NEW now
  PROVE  /\ RunEffects(s, event, Context(b, event, now)) \in Plans
         /\ RunEffects(s, event, Context(b, event, now)) = <<"Capture100", "Split">>
              => event \notin { "ProviderAccepts", "ProviderDeclines",
                               "ResponseDeadlinePassed", "CustomerCancels",
                               "ProviderCancels", "CustomerReportsProviderNoShow" }
<1> DEFINE ctx == Context(b, event, now)
<1>1. FullReturn(ctx) = "ReleaseAuth" /\ ctx.alreadyCaptured = FALSE
  BY DEF Context, FullReturn
<1> HIDE DEF ctx
<1>2. /\ RunEffects(s, event, ctx) \in Plans
      /\ event \in { "ProviderAccepts", "ProviderDeclines", "ResponseDeadlinePassed",
                     "CustomerCancels", "ProviderCancels",
                     "CustomerReportsProviderNoShow" }
           => RunEffects(s, event, ctx) # <<"Capture100", "Split">>
  BY <1>1 DEF RunEffects, Plans
<1> QED
  BY <1>2 DEF ctx

\* A permitted event is one its state takes, and its guard holds.
LEMMA PermitsMeans ==
  ASSUME NEW s, NEW event, NEW ctx, Permits(s, event, ctx)
  PROVE  event \in EventsTakenIn(s) /\ Guard(event, ctx)
BY DEF Permits, Verdict

\* The clock never runs backwards.
LEMMA ClockAdvances ==
  ASSUME TypeInv, [Next]_vars
  PROVE  clock \in Nat /\ clock' \in Nat /\ clock <= clock'
<1>1. clock \in Nat
  BY BoundsAreNatural DEF TypeInv, TypeOK, WorkerTypeOK
<1>2. clock' = clock \/ clock' = clock + 1
  <2>1. ASSUME NEW r \in Requests, RequestStep(r) PROVE clock' = clock
    BY <2>1 DEF RequestStep, DiscloseConsequence, Read, Decide, Apply, ApplyExcluded
  <2>2. ASSUME NEW p \in Pollers, PollerStep(p) PROVE clock' = clock
    BY <2>2 DEF PollerStep, BeginTick, Claim, ClaimFails, ClaimsDone, EffectsDone
  <2>3. ASSUME NEW w \in Workers, EffectStep(w) \/ Crash(w) PROVE clock' = clock
    BY <2>3 DEF EffectStep, ReleaseAuth, ReleaseAuthFails, Capture, CaptureFails, Split,
                RecordStanding, InsertFails, Crash
  <2>4. (\E b \in Bookings : CreateBooking(b)) \/ UNCHANGED vars => clock' = clock
    BY DEF CreateBooking, vars
  <2> QED
    BY <2>1, <2>2, <2>3, <2>4 DEF Next, Tick
<1> QED
  BY <1>1, <1>2

\* Every step keeps what handlers have decided sound.
LEMMA DecisionsSoundStep ==
  ASSUME TypeInv, DecisionsSound, [Next]_vars
  PROVE  DecisionsSound'
<1> SUFFICES ASSUME NEW r \in Requests, req'[r].pc = "decided"
             PROVE  /\ req'[r].event \in EventsTakenIn(req'[r].seen)
                    /\ req'[r].run \in Plans
                    /\ req'[r].run = <<"Capture100", "Split">>
                         => clock' >= SlotStart[req'[r].booking]
  BY DEF DecisionsSound
<1>0. /\ req \in [Requests -> {Idle, Over} \cup ReadRequests \cup DecidedRequests]
      /\ clock \in Nat /\ clock' \in Nat /\ clock <= clock'
  BY ClockAdvances DEF TypeInv, TypeOK, WorkerTypeOK
<1>1. CASE req'[r] = req[r]
  <2>1. req[r] \in DecidedRequests
    BY <1>1, DecidedRequestType DEF TypeInv, TypeOK
  <2>2. SlotStart[req[r].booking] \in Nat
    BY <2>1, SlotsAreIntervals DEF DecidedRequests
  <2> QED
    BY <1>0, <1>1, <2>2 DEF DecisionsSound
<1>2. CASE Decide(r)
  <2> DEFINE q == req[r]
             ctx == Context(q.booking, q.event, clock)
             run == RunEffects(q.seen, q.event, ctx)
  <2>1. q \in ReadRequests
    BY <1>2, ReadRequestType DEF Decide, TypeInv, TypeOK
  <2>2. /\ Permits(q.seen, q.event, ctx)
        /\ clock' = clock
        /\ req'[r] = [ pc |-> "decided", booking |-> q.booking, event |-> q.event,
                       seen |-> q.seen, quoted |-> q.quoted, run |-> run,
                       remind |-> RemindFor(q.booking, q.event) ]
    BY <1>0, <1>2 DEF Decide, Over
  <2>3. q.event \in EventsTakenIn(q.seen) /\ Guard(q.event, ctx)
    BY <2>2, PermitsMeans
  <2>4. run \in Plans
    BY RunEffectsPlan
  <2>5. run = <<"Capture100", "Split">> => clock >= SlotStart[q.booking]
    <3> SUFFICES ASSUME run = <<"Capture100", "Split">> PROVE clock >= SlotStart[q.booking]
      OBVIOUS
    <3>1. q.event \in BookingEvent \ SystemEvents
      BY <2>1 DEF ReadRequests, HttpEvents
    <3>2. q.event \in {"ProviderCompletes", "ProviderReportsCustomerNoShow"}
      BY <3>1, RunEffectsPlan DEF BookingEvent, PendingEvents, ConfirmedEvents, SystemEvents
    <3> QED
      BY <2>3, <3>2 DEF Guard, Context
  <2>6. /\ req'[r].event = q.event /\ req'[r].seen = q.seen
        /\ req'[r].run = run /\ req'[r].booking = q.booking
    BY <2>2
  <2> HIDE DEF run, ctx, q
  <2> QED
    BY <2>2, <2>3, <2>4, <2>5, <2>6
<1>3. ASSUME NEW b \in Bookings, NEW event \in HttpEvents, Read(r, b, event) PROVE FALSE
  BY <1>0, <1>3 DEF Read
<1>4. req'[r] # Over
  BY DEF Over
<1> QED
  BY <1>0, <1>1, <1>2, <1>3, <1>4, RequestWriters

\* Handlers decide soundly on what they have read.
THEOREM DecisionsAreSound == Spec => []DecisionsSound
<1>1. Init => DecisionsSound
  BY DEF Init, DecisionsSound, Idle
<1>2. TypeInv /\ DecisionsSound /\ [Next]_vars => DecisionsSound'
  BY DecisionsSoundStep
<1> QED
  BY <1>1, <1>2, TypeInvariant, PTL DEF Spec

---------------------------------------------------------------------------
\* Design 7.4: a step that moves a booking off the table is the step of a
\* request whose decision has gone stale; every other move, the poller's claims
\* included, takes an event the table lists for the state the booking is in.
THEOREM TableLeftOnlyByStaleDecisions == Spec => OnlyStaleDecisionsBreakTheTable
<1>1. TypeInv /\ DecisionsSound /\ [Next]_vars =>
        [ \A b \in Bookings :
            state[b] # "NONE" /\ state'[b] # state[b] /\ ~Stale(b)
              => \E event \in BookingEvent :
                   /\ event \in EventsTakenIn(state[b])
                   /\ state'[b] = NextState(event) ]_vars
  <2> SUFFICES ASSUME TypeInv, DecisionsSound, [Next]_vars, NEW b \in Bookings,
                      state[b] # "NONE", state'[b] # state[b], ~Stale(b)
               PROVE  \E event \in BookingEvent :
                        event \in EventsTakenIn(state[b]) /\ state'[b] = NextState(event)
    OBVIOUS
  <2>0. state \in [Bookings -> BookingState \cup {"NONE"}]
    BY DEF TypeInv, TypeOK, BookingTypeOK
  <2>1. ASSUME NEW c \in Bookings, CreateBooking(c) PROVE FALSE
    BY <2>0, <2>1 DEF CreateBooking
  <2>2. ASSUME NEW r \in Requests, Apply(r)
        PROVE  \E event \in BookingEvent :
                 event \in EventsTakenIn(state[b]) /\ state'[b] = NextState(event)
    <3> DEFINE event == req[r].event
    <3>1. req[r] \in DecidedRequests
      BY <2>2, DecidedRequestType DEF Apply, TypeInv, TypeOK
    <3>2. req[r].booking = b /\ state'[b] = NextState(event)
      BY <2>0, <2>2 DEF Apply
    <3>3. req[r].seen = state[b]
      BY <2>2, <3>2 DEF Apply, Stale
    <3>4. event \in BookingEvent
      BY <3>1 DEF DecidedRequests, HttpEvents
    <3>5. event \in EventsTakenIn(state[b])
      BY <2>2, <3>3 DEF Apply, DecisionsSound
    <3> QED
      BY <3>2, <3>4, <3>5
  <2>3. ASSUME NEW p \in Pollers, NEW c \in Bookings, Claim(p, c)
        PROVE  \E event \in BookingEvent :
                 event \in EventsTakenIn(state[b]) /\ state'[b] = NextState(event)
    <3> DEFINE event == EventOf(poll[p].phase)
    <3>1. c = b /\ state'[b] = NextState(event)
      BY <2>0, <2>3 DEF Claim
    <3>2. event \in EventsTakenIn(state[b])
      BY <2>3, <3>1, PermitsMeans DEF Claim
    <3> QED
      BY <3>1, <3>2, EventOfType
  <2>4. CASE UNCHANGED state
    BY <2>4
  <2> QED
    BY <2>1, <2>2, <2>3, <2>4, RowWriters
<1> QED
  BY <1>1, TypeInvariant, DecisionsAreSound, PTL DEF Spec, OnlyStaleDecisionsBreakTheTable

---------------------------------------------------------------------------
\* Counting the rows of a log that are of some kind.
RowsIn(log, kind) == {i \in DOMAIN log : log[i] \in kind}
HowMany(log, kind) == Cardinality(RowsIn(log, kind))

\* A log has finitely many rows of any kind, and one more row of the kind counts once.
LEMMA RowsAreFinite ==
  ASSUME NEW Row, NEW log \in Seq(Row), NEW kind
  PROVE  IsFiniteSet(RowsIn(log, kind)) /\ HowMany(log, kind) \in Nat
<1>1. IsFiniteSet(1..Len(log)) /\ RowsIn(log, kind) \in SUBSET (1..Len(log))
  BY FS_Interval DEF RowsIn
<1> QED
  BY <1>1, FS_Subset, FS_CardinalityType DEF HowMany

LEMMA OneMoreRow ==
  ASSUME NEW Row, NEW log \in Seq(Row), NEW row \in Row, NEW kind
  PROVE  HowMany(Append(log, row), kind)
           = HowMany(log, kind) + (IF row \in kind THEN 1 ELSE 0)
<1> DEFINE n == Len(log) + 1
           old == RowsIn(log, kind)
<1>1. IsFiniteSet(old) /\ Cardinality(old) \in Nat
  BY RowsAreFinite DEF HowMany
<1>2. /\ DOMAIN Append(log, row) = DOMAIN log \cup {n}
      /\ Append(log, row)[n] = row
      /\ \A i \in DOMAIN log : Append(log, row)[i] = log[i]
      /\ n \notin DOMAIN log
  OBVIOUS
<1>3. n \notin old
  BY <1>2 DEF RowsIn
<1>4. CASE row \in kind
  <2>1. RowsIn(Append(log, row), kind) = old \cup {n}
    BY <1>2, <1>4 DEF RowsIn
  <2> HIDE DEF n, old
  <2> QED
    BY <1>1, <1>3, <1>4, <2>1, FS_AddElement DEF HowMany, old
<1>5. CASE row \notin kind
  <2>1. RowsIn(Append(log, row), kind) = old
    BY <1>2, <1>5 DEF RowsIn
  <2> QED
    BY <1>1, <1>5, <2>1 DEF HowMany
<1> QED
  BY <1>4, <1>5

---------------------------------------------------------------------------
\* The outbox tells the story.
Changes == {e \in OutboxRow : e.type = "BookingStateChanged"}
Completions == {e \in OutboxRow : e.type = "BookingCompleted"}
ToCompleted == {a \in AuditRow : a.to \in {"COMPLETED"}}

\* The rows of a box that announce a change, as far as row n, and how many they are.
ChangesTo(box, n) == {i \in DOMAIN box : i <= n /\ box[i].type = "BookingStateChanged"}
Nth(box, i) == Cardinality(ChangesTo(box, i))

\* What OutboxTellsTheStory says of the changes in one box: there are k of them,
\* and each is that of its row of the trail.
ChangesTell(box, trail, k) ==
  /\ Nth(box, Len(box)) = k
  /\ \A i \in ChangesTo(box, Len(box)) :
       /\ Nth(box, i) \in 1..k
       /\ IF Nth(box, i) = 1 THEN box[i] = CreatedEvent
          ELSE /\ box[i].from = trail[Nth(box, i) - 1].from
               /\ box[i].to = trail[Nth(box, i) - 1].to
               /\ box[i].event = trail[Nth(box, i) - 1].event

\* The changes as far as a row are not disturbed by a later row.
LEMMA EarlierChanges ==
  ASSUME NEW box \in Seq(OutboxRow), NEW e \in OutboxRow
  PROVE  /\ \A i \in 1..Len(box) : ChangesTo(Append(box, e), i) = ChangesTo(box, i)
         /\ e.type # "BookingStateChanged" =>
              /\ ChangesTo(Append(box, e), Len(box) + 1) = ChangesTo(box, Len(box))
              /\ Nth(Append(box, e), Len(box) + 1) = Nth(box, Len(box))
         /\ e.type = "BookingStateChanged" =>
              /\ ChangesTo(Append(box, e), Len(box) + 1)
                   = ChangesTo(box, Len(box)) \cup {Len(box) + 1}
              /\ Nth(Append(box, e), Len(box) + 1) = Nth(box, Len(box)) + 1
         /\ Nth(box, Len(box)) \in Nat
<1> DEFINE n == Len(box) + 1
           old == ChangesTo(box, Len(box))
<1>1. /\ Len(box) \in Nat
      /\ DOMAIN box = 1..Len(box)
      /\ DOMAIN Append(box, e) = 1..n
      /\ Append(box, e)[n] = e
      /\ \A i \in 1..Len(box) : Append(box, e)[i] = box[i]
  OBVIOUS
<1>2. ASSUME NEW i \in 1..Len(box) PROVE ChangesTo(Append(box, e), i) = ChangesTo(box, i)
  <2>1. \A j \in 1..n : j <= i => j \in 1..Len(box)
    BY <1>1
  <2> QED
    BY <1>1, <2>1 DEF ChangesTo
<1>3. n \notin old
  BY <1>1 DEF ChangesTo
<1>4. ChangesTo(Append(box, e), n)
        = IF e.type = "BookingStateChanged" THEN old \cup {n} ELSE old
  <2>1. \A j \in 1..n : j \in 1..Len(box) \/ j = n
    BY <1>1
  <2>2. \A j \in 1..Len(box) : j <= n /\ j <= Len(box)
    BY <1>1
  <2>3. \A j : j \in ChangesTo(Append(box, e), n) <=>
                 j \in IF e.type = "BookingStateChanged" THEN old \cup {n} ELSE old
    BY <1>1, <2>1, <2>2 DEF ChangesTo
  <2> QED
    BY <2>3
<1>5. IsFiniteSet(old) /\ Cardinality(old) \in Nat
  <2>1. IsFiniteSet(1..Len(box)) /\ old \in SUBSET (1..Len(box))
    BY <1>1, FS_Interval DEF ChangesTo
  <2> QED
    BY <2>1, FS_Subset, FS_CardinalityType
<1>6. Cardinality(old \cup {n}) = Cardinality(old) + 1
  <2> HIDE DEF n, old
  <2> QED
    BY <1>3, <1>5, FS_AddElement
<1> QED
  BY <1>2, <1>3, <1>4, <1>5, <1>6 DEF Nth

\* A row that announces no change tells nothing new.
LEMMA OtherRowTells ==
  ASSUME NEW box \in Seq(OutboxRow), NEW trail, NEW k, ChangesTell(box, trail, k),
         NEW e \in OutboxRow, e.type # "BookingStateChanged"
  PROVE  ChangesTell(Append(box, e), trail, k)
<1>1. /\ Len(box) \in Nat /\ Len(Append(box, e)) = Len(box) + 1
      /\ DOMAIN box = 1..Len(box)
      /\ \A i \in 1..Len(box) : Append(box, e)[i] = box[i]
  OBVIOUS
<1>2. /\ ChangesTo(Append(box, e), Len(box) + 1) = ChangesTo(box, Len(box))
      /\ Nth(Append(box, e), Len(box) + 1) = k
  BY EarlierChanges DEF ChangesTell
<1>3. ASSUME NEW i \in ChangesTo(box, Len(box))
      PROVE  Nth(Append(box, e), i) = Nth(box, i) /\ Append(box, e)[i] = box[i]
  <2>1. i \in 1..Len(box)
    BY <1>1 DEF ChangesTo
  <2> QED
    BY <1>1, <2>1, EarlierChanges DEF Nth
<1> QED
  BY <1>1, <1>2, <1>3 DEF ChangesTell

\* A row that announces the change of a further row of the trail goes on with the story.
LEMMA ChangeTells ==
  ASSUME NEW box \in Seq(OutboxRow), NEW trail \in Seq(AuditRow), NEW row \in AuditRow,
         ChangesTell(box, trail, Len(trail) + 1),
         NEW e \in Changes, e.from = row.from, e.to = row.to, e.event = row.event
  PROVE  ChangesTell(Append(box, e), Append(trail, row), Len(trail) + 2)
<1> DEFINE longer == Append(trail, row)
<1>0. PICK k \in Nat : k = Len(trail) + 1
  OBVIOUS
<1>1. /\ Len(box) \in Nat /\ Len(Append(box, e)) = Len(box) + 1
      /\ DOMAIN box = 1..Len(box)
      /\ Append(box, e)[Len(box) + 1] = e
      /\ \A i \in 1..Len(box) : Append(box, e)[i] = box[i]
      /\ e \in OutboxRow /\ e.type = "BookingStateChanged"
  BY DEF Changes
<1>2. /\ Len(trail) \in Nat
      /\ longer[k] = row
      /\ \A i \in 1..Len(trail) : longer[i] = trail[i]
  BY <1>0
<1>3. /\ ChangesTo(Append(box, e), Len(box) + 1) = ChangesTo(box, Len(box)) \cup {Len(box) + 1}
      /\ Nth(Append(box, e), Len(box) + 1) = k + 1
  BY <1>0, <1>1, EarlierChanges DEF ChangesTell
<1> HIDE DEF longer
<1>4. ASSUME NEW i \in ChangesTo(box, Len(box))
      PROVE  /\ Nth(Append(box, e), i) \in 1..k + 1
             /\ IF Nth(Append(box, e), i) = 1 THEN Append(box, e)[i] = CreatedEvent
                ELSE /\ Append(box, e)[i].from = longer[Nth(Append(box, e), i) - 1].from
                     /\ Append(box, e)[i].to = longer[Nth(Append(box, e), i) - 1].to
                     /\ Append(box, e)[i].event = longer[Nth(Append(box, e), i) - 1].event
  <2>1. i \in 1..Len(box)
    BY <1>1 DEF ChangesTo
  <2>2. Nth(Append(box, e), i) = Nth(box, i) /\ Append(box, e)[i] = box[i]
    BY <1>1, <2>1, EarlierChanges DEF Nth
  <2>3. PICK m \in 1..k : m = Nth(box, i)
    BY <1>0 DEF ChangesTell
  <2>4. m # 1 => m - 1 \in 1..Len(trail)
    BY <1>0, <1>2, <2>3
  <2>5. m # 1 => longer[m - 1] = trail[m - 1]
    BY <1>2, <2>4
  <2>6. IF m = 1 THEN box[i] = CreatedEvent
        ELSE /\ box[i].from = trail[m - 1].from
             /\ box[i].to = trail[m - 1].to
             /\ box[i].event = trail[m - 1].event
    BY <2>3 DEF ChangesTell
  <2>7. m \in 1..k + 1
    BY <1>2, <2>3
  <2> QED
    BY <2>2, <2>3, <2>5, <2>6, <2>7
<1>5. k + 1 \in 1..k + 1 /\ k + 1 # 1 /\ k + 1 - 1 = k /\ k + 1 = Len(trail) + 2
  BY <1>0, <1>2
<1>6. longer[k].from = e.from /\ longer[k].to = e.to /\ longer[k].event = e.event
  BY <1>2
<1>7. ChangesTell(Append(box, e), longer, k + 1)
  <2>1. ASSUME NEW i \in ChangesTo(Append(box, e), Len(box) + 1)
        PROVE  /\ Nth(Append(box, e), i) \in 1..k + 1
               /\ IF Nth(Append(box, e), i) = 1 THEN Append(box, e)[i] = CreatedEvent
                  ELSE /\ Append(box, e)[i].from = longer[Nth(Append(box, e), i) - 1].from
                       /\ Append(box, e)[i].to = longer[Nth(Append(box, e), i) - 1].to
                       /\ Append(box, e)[i].event = longer[Nth(Append(box, e), i) - 1].event
    <3>1. CASE i \in ChangesTo(box, Len(box))
      BY <1>4, <3>1
    <3>2. CASE i = Len(box) + 1
      <4>1. Nth(Append(box, e), i) = k + 1 /\ Append(box, e)[i] = e
        BY <1>1, <1>3, <3>2
      <4> QED
        BY <1>5, <1>6, <4>1
    <3> QED
      BY <1>3, <2>1, <3>1, <3>2
  <2> QED
    BY <1>1, <1>3, <2>1 DEF ChangesTell
<1> QED
  BY <1>5, <1>7 DEF longer

\* The story begins with the row of the creation.
LEMMA CreationTells ==
  ASSUME NEW box \in Seq(OutboxRow), NEW trail, ChangesTell(box, trail, 0)
  PROVE  ChangesTell(Append(box, CreatedEvent), trail, 1)
<1>1. CreatedEvent \in OutboxRow /\ CreatedEvent.type = "BookingStateChanged"
  BY DEF CreatedEvent, OutboxRow, BookingState, Holding
<1>2. ChangesTo(box, Len(box)) = {} /\ Nth(box, Len(box)) = 0
  BY DEF ChangesTell
<1>3. /\ Len(Append(box, CreatedEvent)) = Len(box) + 1
      /\ Append(box, CreatedEvent)[Len(box) + 1] = CreatedEvent
  BY <1>1
<1>4. /\ ChangesTo(Append(box, CreatedEvent), Len(box) + 1) = {Len(box) + 1}
      /\ Nth(Append(box, CreatedEvent), Len(box) + 1) = 1
  <2>1. PICK e \in OutboxRow : e = CreatedEvent /\ e.type = "BookingStateChanged"
    BY <1>1
  <2>2. /\ ChangesTo(Append(box, e), Len(box) + 1) = ChangesTo(box, Len(box)) \cup {Len(box) + 1}
        /\ Nth(Append(box, e), Len(box) + 1) = Nth(box, Len(box)) + 1
    BY <2>1, EarlierChanges
  <2> QED
    BY <1>2, <2>1, <2>2
<1> HIDE DEF CreatedEvent
<1> QED
  BY <1>3, <1>4 DEF ChangesTell

\* A booking not made yet has no trail.
LEMMA NoTrailBeforeCreation ==
  ASSUME TypeOK, AuditTrailExplainsState, NEW b \in Bookings, state[b] = "NONE"
  PROVE  audit[b] = << >>
<1> SUFFICES ASSUME audit[b] # << >> PROVE FALSE
  OBVIOUS
<1>1. audit[b] \in Seq(AuditRow)
  BY DEF TypeOK, BookingTypeOK
<1>2. Len(audit[b]) \in 1..Len(audit[b])
  BY <1>1
<1>3. audit[b][Len(audit[b])] \in AuditRow
  BY <1>1, <1>2
<1>4. audit[b][Len(audit[b])].to = "NONE"
  BY DEF AuditTrailExplainsState
<1> QED
  BY <1>3, <1>4 DEF AuditRow, BookingState, Holding, Terminal

\* The outbox rows of a transition, one at a time.
LEMMA AnnounceRows ==
  ASSUME NEW box \in Seq(OutboxRow), NEW from \in BookingState, NEW to \in BookingState,
         NEW event \in BookingEvent
  PROVE  \E e \in Changes :
           /\ e.from = from /\ e.to = to /\ e.event = event
           /\ to # "COMPLETED" => box \o Announce(from, to, event) = Append(box, e)
           /\ to = "COMPLETED" => box \o Announce(from, to, event)
                = Append(Append(box, e), [type |-> "BookingCompleted"])
<1> DEFINE change == [type |-> "BookingStateChanged", from |-> from, to |-> to,
                      event |-> event]
           completion == [type |-> "BookingCompleted"]
<1>1. change \in Changes /\ completion \in OutboxRow
  BY DEF Changes, OutboxRow
<1>2. change.from = from /\ change.to = to /\ change.event = event
  OBVIOUS
<1>3. /\ to = "COMPLETED" => Announce(from, to, event) = <<change>> \o <<completion>>
      /\ to # "COMPLETED" => Announce(from, to, event) = <<change>> \o << >>
  BY DEF Announce
<1> HIDE DEF change, completion
<1>4. change \in OutboxRow
  BY <1>1 DEF Changes
<1>5. \A c, d \in OutboxRow : /\ box \o (<<c>> \o << >>) = Append(box, c)
                              /\ box \o (<<c>> \o <<d>>) = Append(Append(box, c), d)
  OBVIOUS
<1>6. /\ to # "COMPLETED" => box \o Announce(from, to, event) = Append(box, change)
      /\ to = "COMPLETED" => box \o Announce(from, to, event)
                               = Append(Append(box, change), completion)
  BY <1>1, <1>3, <1>4, <1>5
<1> QED
  BY <1>1, <1>2, <1>6 DEF completion

\* What a step may do to the outbox rows of booking b: nothing, the row of its
\* creation, those of a transition, or that of a capture.
Announced(b) ==
  \E to \in BookingState, event \in BookingEvent :
    /\ state[b] \in BookingState /\ state'[b] = to
    /\ audit'[b] = Append(audit[b], [from |-> state[b], to |-> to, event |-> event])
    /\ outbox'[b] = outbox[b] \o Announce(state[b], to, event)

LEMMA OutboxWriters ==
  ASSUME TypeInv, [Next]_vars, NEW b \in Bookings
  PROVE  \/ UNCHANGED <<state[b], audit[b], outbox[b]>>
         \/ /\ state[b] = "NONE" /\ state'[b] # "NONE" /\ audit'[b] = audit[b]
            /\ outbox'[b] = Append(outbox[b], CreatedEvent)
         \/ Announced(b)
         \/ /\ UNCHANGED <<state[b], audit[b]>>
            /\ outbox'[b] = Append(outbox[b], [type |-> "PaymentCaptured"])
<1> DEFINE Quiet == UNCHANGED <<state[b], audit[b], outbox[b]>>
<1>0. /\ state \in [Bookings -> BookingState \cup {"NONE"}]
      /\ audit \in [Bookings -> Seq(AuditRow)]
      /\ outbox \in [Bookings -> Seq(OutboxRow)]
  BY DEF TypeInv, TypeOK, BookingTypeOK
<1>1. ASSUME NEW c \in Bookings, CreateBooking(c)
      PROVE  \/ Quiet
             \/ /\ state[b] = "NONE" /\ state'[b] # "NONE" /\ audit'[b] = audit[b]
                /\ outbox'[b] = Append(outbox[b], CreatedEvent)
  BY <1>0, <1>1 DEF CreateBooking
<1>2. ASSUME NEW r \in Requests, Apply(r) PROVE Quiet \/ Announced(b)
  <2> DEFINE c == req[r].booking
             event == req[r].event
             to == NextState(event)
  <2>1. RowStep(c, to, event, req[r].remind)
    BY <1>2, ApplyIsRowStep
  <2>2. outbox' = [outbox EXCEPT ![c] = @ \o Announce(state[c], to, event)]
    BY <1>2 DEF Apply
  <2> HIDE DEF c, event, to
  <2> QED
    BY <1>0, <2>1, <2>2 DEF RowStep, Announced
<1>3. ASSUME NEW p \in Pollers, NEW c \in Bookings, Claim(p, c) PROVE Quiet \/ Announced(b)
  <2> DEFINE event == EventOf(poll[p].phase)
             to == NextState(event)
  <2>1. RowStep(c, to, event, FALSE)
    BY <1>3, ClaimIsRowStep
  <2>2. outbox' = [outbox EXCEPT ![c] = @ \o Announce(state[c], to, event)]
    BY <1>3 DEF Claim, ClaimAnnounces
  <2> HIDE DEF event, to
  <2> QED
    BY <1>0, <2>1, <2>2 DEF RowStep, Announced
<1>4. ASSUME NEW w \in Workers, NEW pct \in Percent, Capture(w, pct)
      PROVE  \/ Quiet
             \/ /\ UNCHANGED <<state[b], audit[b]>>
                /\ outbox'[b] = Append(outbox[b], [type |-> "PaymentCaptured"])
  <2> DEFINE c == Head(work[w]).booking
  <2>1. /\ \/ outbox' = outbox
           \/ outbox' = [outbox EXCEPT ![c] = Append(@, [type |-> "PaymentCaptured"])]
        /\ UNCHANGED <<state, audit>>
    BY <1>4 DEF Capture
  <2> HIDE DEF c
  <2> QED
    BY <1>0, <2>1
<1>5. ASSUME NEW w \in Workers, EffectStep(w) \/ Crash(w)
      PROVE  Quiet \/ \E pct \in Percent : Capture(w, pct)
  BY <1>5 DEF EffectStep, ReleaseAuth, ReleaseAuthFails, CaptureFails, Split,
              RecordStanding, InsertFails, Crash, rowVars
<1>6. ASSUME NEW r \in Requests, RequestStep(r) PROVE Quiet \/ Apply(r)
  BY <1>6 DEF RequestStep, DiscloseConsequence, Read, Decide, ApplyExcluded, rowVars
<1>7. ASSUME NEW p \in Pollers, PollerStep(p)
      PROVE  Quiet \/ \E c \in Bookings : Claim(p, c)
  BY <1>7 DEF PollerStep, BeginTick, ClaimFails, ClaimsDone, EffectsDone, rowVars
<1>8. Tick \/ UNCHANGED vars => Quiet
  BY DEF Tick, rowVars, vars
<1> HIDE DEF Quiet
<1>9. \/ Quiet
      \/ /\ state[b] = "NONE" /\ state'[b] # "NONE" /\ audit'[b] = audit[b]
         /\ outbox'[b] = Append(outbox[b], CreatedEvent)
      \/ Announced(b)
      \/ /\ UNCHANGED <<state[b], audit[b]>>
         /\ outbox'[b] = Append(outbox[b], [type |-> "PaymentCaptured"])
  BY <1>1, <1>2, <1>3, <1>4, <1>5, <1>6, <1>7, <1>8 DEF Next
<1> QED
  BY <1>9 DEF Quiet

\* The story of one booking: what its box says of its trail.
Story(box, trail, made) ==
  /\ ChangesTell(box, trail, IF made THEN Len(trail) + 1 ELSE 0)
  /\ HowMany(box, Completions) = HowMany(trail, ToCompleted)

\* A transition goes on with the story.
LEMMA TransitionTells ==
  ASSUME NEW box \in Seq(OutboxRow), NEW trail \in Seq(AuditRow), Story(box, trail, TRUE),
         NEW from \in BookingState, NEW to \in BookingState, NEW event \in BookingEvent
  PROVE  Story(box \o Announce(from, to, event),
               Append(trail, [from |-> from, to |-> to, event |-> event]), TRUE)
<1>1. PICK row \in AuditRow : row = [from |-> from, to |-> to, event |-> event]
  BY DEF AuditRow
<1>2. PICK e \in Changes :
        /\ e.from = from /\ e.to = to /\ e.event = event
        /\ to # "COMPLETED" => box \o Announce(from, to, event) = Append(box, e)
        /\ to = "COMPLETED" => box \o Announce(from, to, event)
             = Append(Append(box, e), [type |-> "BookingCompleted"])
  BY AnnounceRows
<1>3. PICK c : c = [type |-> "BookingCompleted"]
  OBVIOUS
<1>4. /\ e \in OutboxRow /\ e.type = "BookingStateChanged" /\ e \notin Completions
      /\ c \in OutboxRow /\ c.type # "BookingStateChanged" /\ c \in Completions
      /\ row \in ToCompleted <=> to = "COMPLETED"
  BY <1>1, <1>3 DEF Changes, Completions, ToCompleted, OutboxRow
<1>5. PICK longer : longer = Append(trail, row)
  OBVIOUS
<1>6. /\ longer \in Seq(AuditRow)
      /\ Len(longer) = Len(trail) + 1 /\ Len(trail) \in Nat
      /\ Len(longer) + 1 = Len(trail) + 2
  BY <1>5
<1>7. PICK box1 : box1 = Append(box, e)
  OBVIOUS
<1>7a. box1 \in Seq(OutboxRow)
  BY <1>4, <1>7
<1>8. ChangesTell(box1, longer, Len(longer) + 1)
  BY <1>1, <1>2, <1>5, <1>6, <1>7, ChangeTells DEF Story
<1>9. HowMany(box1, Completions) = HowMany(box, Completions)
  BY <1>4, <1>7, OneMoreRow, RowsAreFinite
<1>10. HowMany(trail, ToCompleted) \in Nat /\ HowMany(box, Completions) = HowMany(trail, ToCompleted)
  BY RowsAreFinite DEF Story
<1>11. CASE to = "COMPLETED"
  <2>1. ChangesTell(Append(box1, c), longer, Len(longer) + 1)
    BY <1>4, <1>8, <1>7a, OtherRowTells
  <2>2. HowMany(Append(box1, c), Completions) = HowMany(box, Completions) + 1
    BY <1>4, <1>9, <1>7a, OneMoreRow
  <2>3. HowMany(longer, ToCompleted) = HowMany(trail, ToCompleted) + 1
    BY <1>4, <1>5, <1>11, OneMoreRow
  <2> QED
    BY <1>1, <1>2, <1>3, <1>5, <1>7, <1>10, <1>11, <2>1, <2>2, <2>3 DEF Story
<1>12. CASE to # "COMPLETED"
  <2>1. HowMany(longer, ToCompleted) = HowMany(trail, ToCompleted)
    BY <1>4, <1>5, <1>10, <1>12, OneMoreRow
  <2> QED
    BY <1>1, <1>2, <1>5, <1>7, <1>8, <1>9, <1>10, <1>12, <2>1 DEF Story
<1> QED
  BY <1>11, <1>12

\* No transition goes without its notification: the outbox of a booking tells,
\* after the row of its creation, the transitions its audit trail records, in
\* their order, and each completion once more (design 7.2.4, section 9).
THEOREM OutboxAlwaysTells == Spec => []OutboxTellsTheStory
<1> DEFINE Told == \A b \in Bookings : Story(outbox[b], audit[b], state[b] # "NONE")
<1>1. Init => Told
  <2> SUFFICES ASSUME Init, NEW b \in Bookings
               PROVE  Story(outbox[b], audit[b], state[b] # "NONE")
    OBVIOUS
  <2>1. outbox[b] = << >> /\ audit[b] = << >> /\ state[b] = "NONE"
    BY DEF Init
  <2>2. /\ ChangesTo(<< >>, Len(<< >>)) = {}
        /\ RowsIn(<< >>, Completions) = {} /\ RowsIn(<< >>, ToCompleted) = {}
    BY DEF ChangesTo, RowsIn
  <2>3. Cardinality({}) = 0
    BY FS_EmptySet
  <2> QED
    BY <2>1, <2>2, <2>3 DEF Story, ChangesTell, Nth, HowMany
<1>2. TypeInv /\ AuditTrailExplainsState /\ Told /\ [Next]_vars => Told'
  <2> SUFFICES ASSUME TypeInv, AuditTrailExplainsState, Told, [Next]_vars,
                      NEW b \in Bookings
               PROVE  Story(outbox'[b], audit'[b], state'[b] # "NONE")
    OBVIOUS
  <2>0. /\ outbox[b] \in Seq(OutboxRow) /\ audit[b] \in Seq(AuditRow)
        /\ Story(outbox[b], audit[b], state[b] # "NONE")
    BY DEF TypeInv, TypeOK, BookingTypeOK
  <2>1. CASE UNCHANGED <<state[b], audit[b], outbox[b]>>
    BY <2>0, <2>1
  <2>2. CASE /\ state[b] = "NONE" /\ state'[b] # "NONE" /\ audit'[b] = audit[b]
             /\ outbox'[b] = Append(outbox[b], CreatedEvent)
    <3>1. audit[b] = << >>
      BY <2>2, NoTrailBeforeCreation DEF TypeInv
    <3>2. ChangesTell(Append(outbox[b], CreatedEvent), audit[b], 1)
      BY <2>0, <2>2, CreationTells DEF Story
    <3>3. CreatedEvent \in OutboxRow /\ CreatedEvent \notin Completions
      BY DEF CreatedEvent, OutboxRow, Completions, BookingState, Holding
    <3>4. HowMany(Append(outbox[b], CreatedEvent), Completions) = HowMany(outbox[b], Completions)
      BY <2>0, <3>3, OneMoreRow, RowsAreFinite
    <3>5. Len(audit[b]) + 1 = 1
      BY <3>1
    <3> QED
      BY <2>0, <2>2, <3>2, <3>4, <3>5 DEF Story
  <2>3. CASE Announced(b)
    <3>1. PICK to \in BookingState, event \in BookingEvent :
            /\ state[b] \in BookingState /\ state'[b] = to
            /\ audit'[b] = Append(audit[b], [from |-> state[b], to |-> to, event |-> event])
            /\ outbox'[b] = outbox[b] \o Announce(state[b], to, event)
      BY <2>3 DEF Announced
    <3>2. state[b] # "NONE" /\ state'[b] # "NONE"
      BY <3>1 DEF BookingState, Holding, Terminal
    <3> QED
      BY <2>0, <3>1, <3>2, TransitionTells
  <2>4. CASE /\ UNCHANGED <<state[b], audit[b]>>
             /\ outbox'[b] = Append(outbox[b], [type |-> "PaymentCaptured"])
    <3>0. PICK e : e = [type |-> "PaymentCaptured"]
      OBVIOUS
    <3>1. e \in OutboxRow /\ e.type # "BookingStateChanged" /\ e \notin Completions
      BY <3>0 DEF OutboxRow, Completions
    <3>2. HowMany(Append(outbox[b], e), Completions) = HowMany(outbox[b], Completions)
      BY <2>0, <3>1, OneMoreRow, RowsAreFinite
    <3>3. ChangesTell(Append(outbox[b], e), audit[b],
                      IF state[b] # "NONE" THEN Len(audit[b]) + 1 ELSE 0)
      BY <2>0, <3>1, OtherRowTells DEF Story
    <3> QED
      BY <2>0, <2>4, <3>0, <3>2, <3>3 DEF Story
  <2> QED
    BY <2>1, <2>2, <2>3, <2>4, OutboxWriters
<1>3. TypeInv /\ AuditTrailExplainsState /\ Told => OutboxTellsTheStory
  <2> SUFFICES ASSUME TypeInv, AuditTrailExplainsState, Told, NEW b \in Bookings
               PROVE  LET rows == Len(outbox[b])
                          N(i) == Cardinality(OutboxRows(b, "BookingStateChanged", i))
                      IN  /\ N(rows) = Len(audit[b]) + (IF state[b] = "NONE" THEN 0 ELSE 1)
                          /\ \A i \in OutboxRows(b, "BookingStateChanged", rows) :
                               LET e == outbox[b][i]
                                   a == audit[b][N(i) - 1]
                               IN  IF N(i) = 1 THEN e = CreatedEvent
                                   ELSE e.from = a.from /\ e.to = a.to /\ e.event = a.event
                          /\ Cardinality(OutboxRows(b, "BookingCompleted", rows))
                               = Cardinality(TransitionsTo(b, {"COMPLETED"}))
    BY DEF OutboxTellsTheStory
  <2>0. /\ outbox[b] \in Seq(OutboxRow) /\ audit[b] \in Seq(AuditRow)
        /\ Story(outbox[b], audit[b], state[b] # "NONE")
    BY DEF TypeInv, TypeOK, BookingTypeOK
  <2>1. \A i : /\ OutboxRows(b, "BookingStateChanged", i) = ChangesTo(outbox[b], i)
               /\ Cardinality(OutboxRows(b, "BookingStateChanged", i)) = Nth(outbox[b], i)
    BY DEF OutboxRows, ChangesTo, Nth
  <2>2. OutboxRows(b, "BookingCompleted", Len(outbox[b])) = RowsIn(outbox[b], Completions)
    BY <2>0 DEF OutboxRows, RowsIn, Completions
  <2>3. TransitionsTo(b, {"COMPLETED"}) = RowsIn(audit[b], ToCompleted)
    BY <2>0 DEF TransitionsTo, RowsIn, ToCompleted
  <2>4. state[b] = "NONE" => Len(audit[b]) + 0 = 0
    BY NoTrailBeforeCreation DEF TypeInv
  <2>5. Cardinality(OutboxRows(b, "BookingCompleted", Len(outbox[b])))
          = Cardinality(TransitionsTo(b, {"COMPLETED"}))
    BY <2>0, <2>2, <2>3 DEF Story, HowMany
  <2>6. Cardinality(OutboxRows(b, "BookingStateChanged", Len(outbox[b])))
          = Len(audit[b]) + (IF state[b] = "NONE" THEN 0 ELSE 1)
    BY <2>0, <2>1, <2>4 DEF Story, ChangesTell
  <2>7. ASSUME NEW i \in ChangesTo(outbox[b], Len(outbox[b]))
        PROVE  IF Nth(outbox[b], i) = 1 THEN outbox[b][i] = CreatedEvent
               ELSE /\ outbox[b][i].from = audit[b][Nth(outbox[b], i) - 1].from
                    /\ outbox[b][i].to = audit[b][Nth(outbox[b], i) - 1].to
                    /\ outbox[b][i].event = audit[b][Nth(outbox[b], i) - 1].event
    BY <2>0 DEF Story, ChangesTell
  <2> HIDE DEF Told
  <2> QED
    BY <2>1, <2>5, <2>6, <2>7
<1> QED
  BY <1>1, <1>2, <1>3, TypeInvariant, AuditTrailAlwaysExplains, PTL DEF Spec

---------------------------------------------------------------------------
(* Charges.                                                                *)

\* The gateway holds a charge for b.
Charged(b) == intent[b] = "captured" /\ captured[b] > 0

\* What may be left of a plan.
Remainders == Plans \cup {<<"RecordStanding">>, <<"Split">>}

\* A job that has only its split left has charged; one that is to capture the
\* full price belongs to a booking whose slot has started.
SoundJobs ==
  { job \in Job :
      /\ job.run \in Remainders \ {<< >>}
      /\ job.run = <<"Split">> => Charged(job.booking)
      /\ job.run = <<"Capture100", "Split">> => clock >= SlotStart[job.booking] }

JobsSound == work \in [Workers -> Seq(SoundJobs)]

\* A booking not made yet has no PaymentIntent; an operation that succeeded and
\* a credit in the ledger have a charge behind them.
MoneySound ==
  \A b \in Bookings :
    /\ state[b] = "NONE" => intent[b] = "none"
    /\ op[b].capture = "succeeded" => Charged(b)
    /\ ledger[b] # << >> => Charged(b)
    /\ captured[b] = 100 => clock >= SlotStart[b]

\* Auto-completion comes after the slot starts, and no poller's `now` is ahead.
TimesSound ==
  /\ \A b \in Bookings : autoAt[b] # NoTime => autoAt[b] >= SlotStart[b]
  /\ \A p \in Pollers : poll[p].now <= clock

MoneyInv == JobsSound /\ MoneySound /\ TimesSound

---------------------------------------------------------------------------
\* No step brings auto-completion before the slot or a poller ahead of the clock.
LEMMA TimesSoundStep ==
  ASSUME TypeInv, TypeInv', TimesSound, [Next]_vars
  PROVE  TimesSound'
<1>0. /\ clock \in Nat /\ clock' \in Nat /\ clock <= clock'
      /\ autoAt \in [Bookings -> Nat \cup {NoTime}]
      /\ poll \in [Pollers -> [phase : Phases, now : 0..MaxTime]]
  BY ClockAdvances DEF TypeInv, TypeOK, BookingTypeOK, WorkerTypeOK
<1>1. ASSUME NEW b \in Bookings, autoAt'[b] # NoTime
      PROVE  autoAt'[b] >= SlotStart[b]
  <2>1. CASE autoAt'[b] = autoAt[b]
    BY <1>1, <2>1 DEF TimesSound
  <2>2. ASSUME NEW r \in Requests, Apply(r), autoAt'[b] # autoAt[b]
        PROVE  autoAt'[b] >= SlotStart[b]
    <3>1. autoAt'[b] = SlotEnd[b] + AutoCompleteWindow
      BY <1>0, <2>2 DEF Apply, AutoAtAfter
    <3>2. /\ SlotStart[b] \in Nat /\ SlotEnd[b] \in Nat /\ AutoCompleteWindow \in Nat
          /\ SlotStart[b] < SlotEnd[b]
      BY SlotsAreIntervals, WindowsAreNatural
    <3> QED
      BY <3>1, <3>2
  <2>3. ASSUME NEW c \in Bookings, CreateBooking(c) PROVE autoAt' = autoAt
    BY <2>3 DEF CreateBooking
  <2>4. ASSUME NEW p \in Pollers, NEW c \in Bookings, Claim(p, c) PROVE autoAt' = autoAt
    BY <2>4 DEF Claim
  <2> QED
    BY <2>1, <2>2, <2>3, <2>4, RowWriters
<1>2. ASSUME NEW p \in Pollers PROVE poll'[p].now <= clock'
  <2>0. poll[p].now \in Nat /\ poll[p].now <= clock
    BY <1>0, BoundsAreNatural DEF TimesSound
  <2>1. poll'[p].now \in {poll[p].now, clock, 0}
    <3>1. ASSUME NEW q \in Pollers, PollerStep(q)
          PROVE  poll'[p].now \in {poll[p].now, clock, 0}
      <4>1. CASE BeginTick(q)
        BY <1>0, <4>1 DEF BeginTick
      <4>2. CASE ClaimsDone(q)
        BY <1>0, <4>2 DEF ClaimsDone
      <4>3. CASE EffectsDone(q)
        BY <1>0, <4>3 DEF EffectsDone
      <4>4. CASE \E b \in Bookings : Claim(q, b) \/ ClaimFails(q, b)
        BY <4>4 DEF Claim, ClaimFails
      <4> QED
        BY <3>1, <4>1, <4>2, <4>3, <4>4 DEF PollerStep
    <3>2. ASSUME NEW w \in Workers, Crash(w)
          PROVE  poll'[p].now \in {poll[p].now, clock, 0}
      BY <1>0, <3>2 DEF Crash
    <3>3. ASSUME NEW w \in Workers, EffectStep(w) PROVE poll' = poll
      BY <3>3 DEF EffectStep, ReleaseAuth, ReleaseAuthFails, Capture, CaptureFails,
                  Split, RecordStanding, InsertFails
    <3>4. ASSUME NEW r \in Requests, RequestStep(r) PROVE poll' = poll
      BY <3>4 DEF RequestStep, DiscloseConsequence, Read, Decide, Apply, ApplyExcluded
    <3>5. (\E b \in Bookings : CreateBooking(b)) \/ Tick \/ UNCHANGED vars => poll' = poll
      BY DEF CreateBooking, Tick, vars
    <3> QED
      BY <3>1, <3>2, <3>3, <3>4, <3>5 DEF Next
  <2> QED
    BY <1>0, <2>0, <2>1
<1> QED
  BY <1>1, <1>2 DEF TimesSound

---------------------------------------------------------------------------
\* What a capture needs and leaves, seen from booking b.
CaptureStep(b, pct) ==
  /\ \E w \in Workers : /\ NextEffect(w, CaptureEffect(pct))
                        /\ Head(work[w]).booking = b
  /\ intent[b] \in {"held", "captured"}
  /\ intent'[b] = "captured" /\ captured'[b] = pct

\* Everything that happens to the PaymentIntent of a booking.
LEMMA IntentMoves ==
  ASSUME TypeInv, [Next]_vars, NEW b \in Bookings
  PROVE  \/ intent'[b] = intent[b] /\ captured'[b] = captured[b]
         \/ state[b] = "NONE" /\ state'[b] # "NONE" /\ captured'[b] = captured[b]
         \/ intent[b] = "held" /\ intent'[b] = "canceled" /\ captured'[b] = captured[b]
         \/ \E pct \in Percent : CaptureStep(b, pct)
<1>0. /\ intent \in [Bookings -> {"none", "held", "canceled", "captured"}]
      /\ captured \in [Bookings -> Percent \cup {0}]
      /\ state \in [Bookings -> BookingState \cup {"NONE"}]
  BY DEF TypeInv, TypeOK, MoneyTypeOK, BookingTypeOK
<1>1. ASSUME NEW c \in Bookings, CreateBooking(c)
      PROVE  \/ intent'[b] = intent[b] /\ captured'[b] = captured[b]
             \/ state[b] = "NONE" /\ state'[b] # "NONE" /\ captured'[b] = captured[b]
  BY <1>0, <1>1 DEF CreateBooking
<1>2. ASSUME NEW w \in Workers, ReleaseAuth(w) \/ ReleaseAuthFails(w)
      PROVE  \/ intent'[b] = intent[b] /\ captured'[b] = captured[b]
             \/ intent[b] = "held" /\ intent'[b] = "canceled" /\ captured'[b] = captured[b]
  BY <1>0, <1>2 DEF ReleaseAuth, ReleaseAuthFails
<1>3. ASSUME NEW w \in Workers, NEW pct \in Percent, Capture(w, pct) \/ CaptureFails(w, pct)
      PROVE  \/ intent'[b] = intent[b] /\ captured'[b] = captured[b]
             \/ CaptureStep(b, pct)
  <2> DEFINE c == Head(work[w]).booking
  <2>1. /\ NextEffect(w, CaptureEffect(pct))
        /\ \/ intent' = intent /\ captured' = captured
           \/ /\ intent[c] \in {"held", "captured"}
              /\ intent' = [intent EXCEPT ![c] = "captured"]
              /\ captured' = [captured EXCEPT ![c] = pct]
    BY <1>3 DEF Capture, CaptureFails
  <2> QED
    BY <1>0, <2>1 DEF CaptureStep
<1>4. ASSUME NEW w \in Workers, Split(w) \/ RecordStanding(w) \/ InsertFails(w) \/ Crash(w)
      PROVE  intent' = intent /\ captured' = captured
  BY <1>4 DEF Split, RecordStanding, InsertFails, Crash, moneyVars
<1>5. ASSUME NEW r \in Requests, RequestStep(r) PROVE intent' = intent /\ captured' = captured
  BY <1>5 DEF RequestStep, DiscloseConsequence, Read, Decide, Apply, ApplyExcluded, moneyVars
<1>6. ASSUME NEW p \in Pollers, PollerStep(p) PROVE intent' = intent /\ captured' = captured
  BY <1>6 DEF PollerStep, BeginTick, Claim, ClaimFails, ClaimsDone, EffectsDone, moneyVars
<1>7. Tick \/ UNCHANGED vars => intent' = intent /\ captured' = captured
  BY DEF Tick, vars, moneyVars
<1> QED
  BY <1>1, <1>2, <1>3, <1>4, <1>5, <1>6, <1>7 DEF Next, EffectStep

\* A charge is never undone.
LEMMA ChargesStay ==
  ASSUME TypeInv, MoneySound, [Next]_vars, NEW b \in Bookings, Charged(b)
  PROVE  Charged(b)'
BY IntentMoves DEF Charged, MoneySound, CaptureStep, Percent

\* A sound job stays sound until its worker takes it further.
LEMMA SoundJobsStay ==
  ASSUME TypeInv, MoneySound, [Next]_vars
  PROVE  SoundJobs \subseteq SoundJobs'
<1> SUFFICES ASSUME NEW job \in SoundJobs PROVE job \in SoundJobs'
  OBVIOUS
<1>1. /\ job \in Job /\ job.booking \in Bookings
      /\ job.run \in Remainders \ {<< >>}
      /\ job.run = <<"Split">> => Charged(job.booking)
      /\ job.run = <<"Capture100", "Split">> => clock >= SlotStart[job.booking]
  BY DEF SoundJobs, Job
<1>2. job.run = <<"Split">> => Charged(job.booking)'
  BY <1>1, ChargesStay
<1>3. job.run = <<"Capture100", "Split">> => clock' >= SlotStart[job.booking]
  BY <1>1, ClockAdvances, SlotsAreIntervals
<1> QED
  BY <1>1, <1>2, <1>3 DEF SoundJobs

\* The plans one effect at a time.
LEMMA RemainderTails ==
  ASSUME NEW run \in Remainders \ {<< >>}
  PROVE  /\ Head(run) = "ReleaseAuth" => Tail(run) \in {<< >>, <<"RecordStanding">>}
         /\ Head(run) \in {"Capture50", "Capture100"} => Tail(run) = <<"Split">>
         /\ Head(run) \in {"Split", "RecordStanding"} => Tail(run) = << >>
         /\ Head(run) = "Split" => run = <<"Split">>
         /\ Head(run) = "Capture100" => run = <<"Capture100", "Split">>
<1>1. CASE run \in {<<"ReleaseAuth">>, <<"RecordStanding">>, <<"Split">>}
  <2>1. /\ Head(<<"ReleaseAuth">>) = "ReleaseAuth" /\ Tail(<<"ReleaseAuth">>) = << >>
        /\ Head(<<"RecordStanding">>) = "RecordStanding" /\ Tail(<<"RecordStanding">>) = << >>
        /\ Head(<<"Split">>) = "Split" /\ Tail(<<"Split">>) = << >>
    OBVIOUS
  <2> QED
    BY <1>1, <2>1
<1>2. CASE run = <<"ReleaseAuth", "RecordStanding">>
  <2>1. /\ Head(<<"ReleaseAuth", "RecordStanding">>) = "ReleaseAuth"
        /\ Tail(<<"ReleaseAuth", "RecordStanding">>) = <<"RecordStanding">>
    OBVIOUS
  <2> QED
    BY <1>2, <2>1
<1>3. CASE run = <<"Capture50", "Split">>
  <2>1. /\ Head(<<"Capture50", "Split">>) = "Capture50"
        /\ Tail(<<"Capture50", "Split">>) = <<"Split">>
    OBVIOUS
  <2> QED
    BY <1>3, <2>1
<1>4. CASE run = <<"Capture100", "Split">>
  <2>1. /\ Head(<<"Capture100", "Split">>) = "Capture100"
        /\ Tail(<<"Capture100", "Split">>) = <<"Split">>
    OBVIOUS
  <2> QED
    BY <1>4, <2>1
<1> QED
  BY <1>1, <1>2, <1>3, <1>4 DEF Remainders, Plans

\* The first job of a worker about to run an effect, and the job that remains.
LEMMA NextEffectSound ==
  ASSUME TypeInv, JobsSound, NEW w \in Workers, NEW e, NextEffect(w, e)
  PROVE  /\ work[w] # << >> /\ work[w] \in Seq(SoundJobs)
         /\ Head(work[w]) \in SoundJobs
         /\ Tail(work[w]) \in Seq(SoundJobs)
         /\ Head(Head(work[w]).run) = e
BY DEF NextEffect, JobsSound

\* A worker that goes on with a sound job, or with none, has sound jobs.
LEMMA OnwardSound ==
  ASSUME TypeInv, JobsSound, SoundJobs \subseteq SoundJobs',
         NEW w \in Workers, NEW e, NextEffect(w, e), NEW settled \in Percent,
         work' = Onward(w, settled),
         NEW b \in Bookings, Head(work[w]).booking = b,
         \/ Tail(Head(work[w]).run) = << >>
         \/ Tail(Head(work[w]).run) = <<"RecordStanding">>
         \/ Tail(Head(work[w]).run) = <<"Split">> /\ Charged(b)'
  PROVE  JobsSound'
<1>1. PICK job \in SoundJobs : job = Head(work[w])
  BY NextEffectSound
<1>2. /\ job \in Job /\ job.run \in Seq(Effect) /\ job.run # << >>
      /\ job.booking = b
  BY <1>1 DEF SoundJobs, Job, NextEffect
<1>3. PICK rest : rest = [job EXCEPT !.run = Tail(job.run), !.settled = settled]
  OBVIOUS
<1>4. rest \in Job /\ rest.run = Tail(job.run) /\ rest.booking = b
  <2>1. Tail(job.run) \in Seq(Effect)
    BY <1>2
  <2> QED
    BY <1>2, <1>3, <2>1 DEF Job
<1>5. Owed(rest) \in Seq(SoundJobs')
  <2>1. CASE rest.run = << >>
    BY <2>1 DEF Owed
  <2>2. CASE rest.run # << >>
    <3>1. /\ rest.run \in {<<"RecordStanding">>, <<"Split">>}
          /\ rest.run = <<"Split">> => Charged(b)'
      <4>1. <<"RecordStanding">> # <<"Split">>
        OBVIOUS
      <4> QED
        BY <1>1, <1>4, <2>2, <4>1
    <3>2. rest.run # <<"Capture100", "Split">>
      BY <3>1
    <3>3. rest \in SoundJobs'
      BY <1>4, <2>2, <3>1, <3>2 DEF SoundJobs, Remainders
    <3> QED
      BY <3>3 DEF Owed
  <2> QED
    BY <2>1, <2>2
<1>6. Tail(work[w]) \in Seq(SoundJobs') /\ work \in [Workers -> Seq(SoundJobs')]
  <2>1. Tail(work[w]) \in Seq(SoundJobs) /\ work \in [Workers -> Seq(SoundJobs)]
    BY NextEffectSound DEF JobsSound
  <2> QED
    BY <2>1
<1>7. Owed(rest) \o Tail(work[w]) \in Seq(SoundJobs')
  BY <1>5, <1>6
<1>8. work' = [work EXCEPT ![w] = Owed(rest) \o Tail(work[w])]
  BY <1>1, <1>3 DEF Onward
<1> QED
  BY <1>6, <1>7, <1>8 DEF JobsSound

\* A worker that gives a job up has sound jobs left.
LEMMA AbandonSound ==
  ASSUME TypeInv, JobsSound, SoundJobs \subseteq SoundJobs',
         NEW w \in Workers, NEW e, NextEffect(w, e), work' = AbandonJob(w)
  PROVE  JobsSound'
<1>1. Tail(work[w]) \in Seq(SoundJobs') /\ work \in [Workers -> Seq(SoundJobs')]
  <2>1. Tail(work[w]) \in Seq(SoundJobs) /\ work \in [Workers -> Seq(SoundJobs)]
    BY NextEffectSound DEF JobsSound
  <2> QED
    BY <2>1
<1> QED
  BY <1>1 DEF AbandonJob, JobsSound

\* Every effect that runs leaves its worker with sound jobs: a split is what
\* remains only after a capture that has charged.
LEMMA EffectJobsSound ==
  ASSUME TypeInv, TypeInv', MoneyInv, [Next]_vars, NEW w \in Workers, EffectStep(w)
  PROVE  JobsSound'
<1> DEFINE job == Head(work[w])
<1>0. /\ JobsSound /\ MoneySound /\ TypeOK
      /\ SoundJobs \subseteq SoundJobs'
  BY SoundJobsStay DEF MoneyInv, TypeInv
<1>00. ASSUME NEW e, NextEffect(w, e)
       PROVE  /\ job.run \in Remainders \ {<< >>}
              /\ Head(job.run) = e
              /\ job.booking \in Bookings /\ job.settled \in Percent
  BY <1>0, <1>00, NextEffectSound DEF SoundJobs, Job
<1>1. CASE ReleaseAuth(w)
  <2>1. NextEffect(w, "ReleaseAuth") /\ work' = Onward(w, job.settled)
    BY <1>1 DEF ReleaseAuth
  <2>2. /\ Tail(job.run) \in {<< >>, <<"RecordStanding">>}
        /\ job.settled \in Percent /\ job.booking \in Bookings
    BY <1>00, <2>1, RemainderTails
  <2> QED
    BY <1>0, <2>1, <2>2, OnwardSound
<1>2. ASSUME NEW pct \in Percent, Capture(w, pct) PROVE JobsSound'
  <2>1. NextEffect(w, CaptureEffect(pct)) /\ work' = Onward(w, pct)
    BY <1>2 DEF Capture
  <2>2. Tail(job.run) = <<"Split">> /\ job.booking \in Bookings
    BY <1>00, <2>1, RemainderTails DEF CaptureEffect
  <2>3. PICK b \in Bookings : job.booking = b
    BY <2>2
  <2>4. Charged(b)'
    <3>1. CASE op[b].capture = "succeeded"
      BY <1>0, <3>1, ChargesStay DEF MoneySound
    <3>2. CASE op[b].capture # "succeeded"
      <4>1. /\ intent' = [intent EXCEPT ![b] = "captured"]
            /\ captured' = [captured EXCEPT ![b] = pct]
        BY <1>2, <2>3, <3>2 DEF Capture
      <4>2. /\ intent \in [Bookings -> {"none", "held", "canceled", "captured"}]
            /\ captured \in [Bookings -> Percent \cup {0}]
        BY <1>0 DEF TypeOK, MoneyTypeOK
      <4>3. intent'[b] = "captured" /\ captured'[b] > 0
        BY <4>1, <4>2 DEF Percent
      <4> QED
        BY <4>3 DEF Charged
    <3> QED
      BY <3>1, <3>2
  <2> QED
    BY <1>0, <2>1, <2>2, <2>3, <2>4, OnwardSound
<1>3. CASE Split(w) \/ RecordStanding(w)
  <2>1. PICK e \in {"Split", "RecordStanding"} : NextEffect(w, e)
    BY <1>3 DEF Split, RecordStanding
  <2>2. work' = Onward(w, job.settled)
    BY <1>3 DEF Split, RecordStanding
  <2>3. Tail(job.run) = << >> /\ job.settled \in Percent /\ job.booking \in Bookings
    BY <1>00, <2>1, RemainderTails
  <2> QED
    BY <1>0, <2>1, <2>2, <2>3, OnwardSound
<1>4. CASE ReleaseAuthFails(w) \/ InsertFails(w) \/ \E pct \in Percent : CaptureFails(w, pct)
  <2>1. PICK e : NextEffect(w, e)
    BY <1>4 DEF ReleaseAuthFails, InsertFails, CaptureFails
  <2>2. work' = AbandonJob(w)
    BY <1>4 DEF ReleaseAuthFails, InsertFails, CaptureFails
  <2> QED
    BY <1>0, <2>1, <2>2, AbandonSound
<1> QED
  BY <1>1, <1>2, <1>3, <1>4 DEF EffectStep

\* The jobs every worker has left stay sound: those an HTTP transition or a
\* claim queues are plans, and the clock only helps the others.
LEMMA JobsSoundStep ==
  ASSUME TypeInv, TypeInv', MoneyInv, DecisionsSound, [Next]_vars
  PROVE  JobsSound'
<1>0. /\ work \in [Workers -> Seq(SoundJobs)] /\ SoundJobs \subseteq SoundJobs'
      /\ work \in [Workers -> Seq(SoundJobs')]
  <2>1. work \in [Workers -> Seq(SoundJobs)] /\ SoundJobs \subseteq SoundJobs'
    BY SoundJobsStay DEF MoneyInv, JobsSound
  <2> QED
    BY <2>1
<1>1. ASSUME NEW r \in Requests, Apply(r) PROVE JobsSound'
  <2> DEFINE q == req[r]
             job == [ booking |-> q.booking, event |-> q.event, from |-> q.seen,
                      run |-> q.run, settled |-> 100, quoted |-> q.quoted ]
  <2>1. q \in DecidedRequests
    BY <1>1, DecidedRequestType DEF Apply, TypeInv, TypeOK
  <2>2. /\ q.run \in Plans
        /\ q.run = <<"Capture100", "Split">> => clock >= SlotStart[q.booking]
    BY <1>1 DEF Apply, DecisionsSound
  <2>3. job \in Job
    BY <2>1 DEF DecidedRequests, Job, Percent, HttpEvents
  <2>4. clock' = clock /\ work' = [work EXCEPT ![r] = Owed(job)]
    BY <1>1 DEF Apply
  <2>5. Owed(job) \in Seq(SoundJobs')
    <3>1. CASE q.run = << >>
      BY <3>1 DEF Owed
    <3>2. CASE q.run # << >>
      <4>1. q.run # <<"Split">>
        BY <2>2 DEF Plans
      <4>2. job \in SoundJobs'
        BY <2>2, <2>3, <2>4, <3>2, <4>1 DEF SoundJobs, Remainders
      <4>3. Owed(job) = <<job>>
        BY <3>2 DEF Owed
      <4> HIDE DEF job
      <4> QED
        BY <4>2, <4>3
    <3> QED
      BY <3>1, <3>2
  <2> HIDE DEF job
  <2> QED
    BY <1>0, <2>4, <2>5 DEF JobsSound, Workers
<1>2. ASSUME NEW p \in Pollers, NEW b \in Bookings, Claim(p, b) PROVE JobsSound'
  <2> DEFINE event == EventOf(poll[p].phase)
             run == RunEffects(state[b], event, Context(b, event, poll[p].now))
             job == [ booking |-> b, event |-> event, from |-> state[b],
                      run |-> run, settled |-> 100, quoted |-> "none" ]
  <2>1. run \in Plans /\ run # << >>
    BY RunEffectsPlan DEF EventOf, RunEffects
  <2>2. run # <<"Split">>
    BY <2>1 DEF Plans
  <2>3. run = <<"Capture100", "Split">> => clock >= SlotStart[b]
    <3> SUFFICES ASSUME run = <<"Capture100", "Split">> PROVE clock >= SlotStart[b]
      OBVIOUS
    <3>1. event # "ResponseDeadlinePassed"
      BY RunEffectsPlan
    <3>2. poll[p].phase # "expiry"
      BY <3>1 DEF EventOf
    <3>3. b \in Due(poll[p].phase, poll[p].now)
      BY <1>2 DEF Claim
    <3>4. autoAt[b] # NoTime /\ autoAt[b] <= poll[p].now
      BY <3>2, <3>3 DEF Due
    <3>5. autoAt[b] >= SlotStart[b] /\ poll[p].now <= clock
      BY <3>4 DEF MoneyInv, TimesSound
    <3>6. /\ autoAt[b] \in Int /\ poll[p].now \in Int /\ clock \in Int
          /\ SlotStart[b] \in Int
      BY <3>4, SlotsAreIntervals, BoundsAreNatural
         DEF TypeInv, TypeOK, BookingTypeOK, WorkerTypeOK, NoTime
    <3> QED
      BY <3>4, <3>5, <3>6
  <2>4. /\ work' = [work EXCEPT ![p] = Append(work[p], job)]
        /\ clock' = clock
    BY <1>2 DEF Claim, QueueEffects
  <2>5. state[b] \in BookingState /\ event \in BookingEvent /\ run \in Seq(Effect)
    BY <1>2, DueHolds, EventOfType, RunEffectsType DEF Claim, BookingState
  <2> HIDE DEF run, event
  <2>6. job \in Job
    BY <2>5 DEF Job, Percent, Quotes
  <2>7. job \in SoundJobs'
    BY <2>1, <2>2, <2>3, <2>4, <2>6 DEF SoundJobs, Remainders
  <2> HIDE DEF job
  <2>8. Append(work[p], job) \in Seq(SoundJobs')
    BY <1>0, <2>7 DEF Workers
  <2> QED
    BY <1>0, <2>4, <2>8 DEF JobsSound
<1>3. ASSUME NEW w \in Workers, EffectStep(w) PROVE JobsSound'
  BY <1>3, EffectJobsSound
<1>4. ASSUME NEW w \in Workers, Crash(w) PROVE JobsSound'
  BY <1>0, <1>4 DEF Crash, JobsSound
<1>5. CASE work' = work
  BY <1>0, <1>5 DEF JobsSound
<1>6. ASSUME NEW r \in Requests, RequestStep(r) PROVE Apply(r) \/ work' = work
  BY <1>6 DEF RequestStep, DiscloseConsequence, Read, Decide, ApplyExcluded
<1>7. ASSUME NEW p \in Pollers, PollerStep(p)
      PROVE  work' = work \/ \E b \in Bookings : Claim(p, b)
  BY <1>7 DEF PollerStep, BeginTick, ClaimFails, ClaimsDone, EffectsDone
<1>8. (\E b \in Bookings : CreateBooking(b)) \/ Tick \/ UNCHANGED vars => work' = work
  BY DEF CreateBooking, Tick, vars
<1> QED
  BY <1>1, <1>2, <1>3, <1>4, <1>5, <1>6, <1>7, <1>8 DEF Next

\* The ledger grows by a split only.
LEMMA LedgerWriters ==
  ASSUME TypeInv, [Next]_vars, NEW b \in Bookings
  PROVE  ledger'[b] = ledger[b] \/ \E w \in Workers : Split(w) /\ Head(work[w]).booking = b
<1>0. ledger \in [Bookings -> Seq(Percent)]
  BY DEF TypeInv, TypeOK, MoneyTypeOK
<1>1. ASSUME NEW w \in Workers, EffectStep(w)
      PROVE  ledger'[b] = ledger[b] \/ (Split(w) /\ Head(work[w]).booking = b)
  BY <1>0, <1>1 DEF EffectStep, ReleaseAuth, ReleaseAuthFails, Capture, CaptureFails,
                    Split, RecordStanding, InsertFails, moneyVars
<1>2. ASSUME NEW r \in Requests, RequestStep(r) PROVE ledger' = ledger
  BY <1>2 DEF RequestStep, DiscloseConsequence, Read, Decide, Apply, ApplyExcluded, moneyVars
<1>3. ASSUME NEW p \in Pollers, PollerStep(p) PROVE ledger' = ledger
  BY <1>3 DEF PollerStep, BeginTick, Claim, ClaimFails, ClaimsDone, EffectsDone, moneyVars
<1>4. ASSUME NEW w \in Workers, Crash(w) PROVE ledger' = ledger
  BY <1>4 DEF Crash, moneyVars
<1>5. (\E c \in Bookings : CreateBooking(c)) \/ Tick \/ UNCHANGED vars => ledger' = ledger
  BY DEF CreateBooking, Tick, vars, moneyVars
<1> QED
  BY <1>1, <1>2, <1>3, <1>4, <1>5 DEF Next

\* The gateway, the operations table and the ledger move together.
LEMMA MoneySoundStep ==
  ASSUME TypeInv, TypeInv', MoneyInv, [Next]_vars
  PROVE  MoneySound'
<1> SUFFICES ASSUME NEW b \in Bookings
             PROVE  /\ state'[b] = "NONE" => intent'[b] = "none"
                    /\ op'[b].capture = "succeeded" => Charged(b)'
                    /\ ledger'[b] # << >> => Charged(b)'
                    /\ captured'[b] = 100 => clock' >= SlotStart[b]
  BY DEF MoneySound
<1>0. /\ MoneySound /\ JobsSound
      /\ op \in [Bookings -> [cancel : OpState, capture : OpState]]
      /\ ledger \in [Bookings -> Seq(Percent)]
  BY DEF MoneyInv, TypeInv, TypeOK, MoneyTypeOK
<1>1. state'[b] = "NONE" => intent'[b] = "none"
  <2>1. state'[b] = "NONE" => state[b] = "NONE"
    BY BookingsStayMade DEF TypeInv
  <2> QED
    BY <1>0, <2>1, IntentMoves DEF MoneySound, CaptureStep
<1>2. captured'[b] = 100 => clock' >= SlotStart[b]
  <2>1. clock \in Nat /\ clock' \in Nat /\ clock <= clock' /\ SlotStart[b] \in Nat
    BY ClockAdvances, SlotsAreIntervals
  <2>2. ASSUME captured'[b] = captured[b], captured'[b] = 100
        PROVE  clock' >= SlotStart[b]
    <3>1. clock >= SlotStart[b]
      BY <1>0, <2>2 DEF MoneySound
    <3> QED
      BY <2>1, <3>1
  <2>3. ASSUME CaptureStep(b, 100) PROVE clock >= SlotStart[b]
    <3>1. PICK w \in Workers : /\ NextEffect(w, "Capture100")
                               /\ Head(work[w]).booking = b
      BY <2>3 DEF CaptureStep, CaptureEffect
    <3>2. /\ Head(work[w]) \in SoundJobs
          /\ Head(Head(work[w]).run) = "Capture100"
      BY <1>0, <3>1, NextEffectSound
    <3>3. Head(work[w]).run = <<"Capture100", "Split">>
      BY <3>2, RemainderTails DEF SoundJobs
    <3> QED
      BY <3>1, <3>2, <3>3 DEF SoundJobs
  <2> QED
    BY <2>1, <2>2, <2>3, IntentMoves DEF CaptureStep
<1>3. op'[b].capture = "succeeded" => op[b].capture = "succeeded" \/ Charged(b)'
  <2>1. ASSUME NEW w \in Workers, EffectStep(w)
        PROVE  op'[b].capture = "succeeded" => op[b].capture = "succeeded" \/ Charged(b)'
    <3>1. CASE ReleaseAuth(w) \/ ReleaseAuthFails(w)
      <4> DEFINE c == Head(work[w]).booking
      <4>1. PICK outcome : op' = op \/ op' = [op EXCEPT ![c].cancel = outcome]
        BY <3>1 DEF ReleaseAuth, ReleaseAuthFails
      <4> HIDE DEF c
      <4>2. op'[b].capture = op[b].capture
        BY <1>0, <4>1
      <4> QED
        BY <4>2
    <3>3. ASSUME NEW pct \in Percent, Capture(w, pct)
          PROVE  op'[b].capture = "succeeded" => op[b].capture = "succeeded" \/ Charged(b)'
      <4>1. CASE b = Head(work[w]).booking
        BY <1>0, <3>3, <4>1 DEF Capture, Charged, TypeInv, TypeOK, MoneyTypeOK, Percent
      <4>2. CASE b # Head(work[w]).booking
        BY <1>0, <3>3, <4>2 DEF Capture
      <4> QED
        BY <4>1, <4>2
    <3>4. ASSUME NEW pct \in Percent, CaptureFails(w, pct)
          PROVE  op'[b].capture = "succeeded" => op[b].capture = "succeeded"
      BY <1>0, <3>4 DEF CaptureFails
    <3>5. Split(w) \/ RecordStanding(w) \/ InsertFails(w) => op' = op
      BY DEF Split, RecordStanding, InsertFails, moneyVars
    <3> QED
      BY <2>1, <3>1, <3>3, <3>4, <3>5 DEF EffectStep
  <2>2. ASSUME NEW r \in Requests, RequestStep(r) PROVE op' = op
    BY <2>2 DEF RequestStep, DiscloseConsequence, Read, Decide, Apply, ApplyExcluded, moneyVars
  <2>3. ASSUME NEW p \in Pollers, PollerStep(p) PROVE op' = op
    BY <2>3 DEF PollerStep, BeginTick, Claim, ClaimFails, ClaimsDone, EffectsDone, moneyVars
  <2>4. ASSUME NEW w \in Workers, Crash(w) PROVE op' = op
    BY <2>4 DEF Crash, moneyVars
  <2>5. (\E c \in Bookings : CreateBooking(c)) \/ Tick \/ UNCHANGED vars => op' = op
    BY DEF CreateBooking, Tick, vars, moneyVars
  <2> QED
    BY <2>1, <2>2, <2>3, <2>4, <2>5 DEF Next
<1>4. ledger'[b] # << >> => Charged(b)
  <2>1. ASSUME NEW w \in Workers, Split(w), Head(work[w]).booking = b PROVE Charged(b)
    <3>1. Head(work[w]) \in SoundJobs /\ Head(Head(work[w]).run) = "Split"
      BY <1>0, <2>1, NextEffectSound DEF Split
    <3>2. Head(work[w]).run = <<"Split">>
      BY <3>1, RemainderTails DEF SoundJobs
    <3> QED
      BY <2>1, <3>1, <3>2 DEF SoundJobs
  <2> QED
    BY <1>0, <2>1, LedgerWriters DEF MoneySound
<1> QED
  BY <1>0, <1>1, <1>2, <1>3, <1>4, ChargesStay DEF MoneySound

---------------------------------------------------------------------------
\* What a plan asks for is what its job does, and a split follows its charge.
THEOREM MoneyInvariant == Spec => []MoneyInv
<1>1. Init => MoneyInv
  BY DEF Init, MoneyInv, JobsSound, MoneySound, TimesSound
<1>2. TypeInv /\ TypeInv' /\ DecisionsSound /\ MoneyInv /\ [Next]_vars => MoneyInv'
  BY JobsSoundStep, MoneySoundStep, TimesSoundStep DEF MoneyInv
<1> QED
  BY <1>1, <1>2, TypeInvariant, DecisionsAreSound, PTL DEF Spec

\* [D-3], BOK-007: nobody is charged the full price before the slot starts, for
\* no request decides so earlier and no auto-completion falls due earlier.
THEOREM FullPriceOnlyAfterStart == Spec => []NoFullChargeBeforeStart
<1>1. MoneyInv => NoFullChargeBeforeStart
  BY DEF MoneyInv, MoneySound, NoFullChargeBeforeStart
<1> QED
  BY <1>1, MoneyInvariant, PTL

---------------------------------------------------------------------------
\* What is still owed: where the workers' queues hold jobs of a set W.
OwedIn(queues, W) ==
  {x \in Workers \X Nat : x[2] \in DOMAIN queues[x[1]] /\ queues[x[1]][x[2]] \in W}
HowManyOwed(queues, W) == Cardinality(OwedIn(queues, W))

\* There is at most one place more where the later queues hold such a job.
OneMoreOwed(later, queues, W) ==
  \E x : OwedIn(later, W) \subseteq OwedIn(queues, W) \cup {x}

\* A queue that loses its first job owes that job less; the others move up.
LEMMA OwedWithoutHead ==
  ASSUME NEW queues \in [Workers -> Seq(Job)], NEW w \in Workers, queues[w] # << >>,
         NEW W, IsFiniteSet(OwedIn(queues, W)),
         NEW later, later = [queues EXCEPT ![w] = Tail(queues[w])]
  PROVE  /\ IsFiniteSet(OwedIn(later, W))
         /\ HowManyOwed(later, W) <= HowManyOwed(queues, W)
         /\ Head(queues[w]) \in W => HowManyOwed(later, W) + 1 <= HowManyOwed(queues, W)
<1> DEFINE S == OwedIn(later, W)
           T == OwedIn(queues, W)
           first == <<w, 1>>
           f == [x \in S |-> IF x[1] = w THEN <<w, x[2] + 1>> ELSE x]
<1>1. /\ later[w] = Tail(queues[w])
      /\ \A v \in Workers : v # w => later[v] = queues[v]
  OBVIOUS
<1>2. \A i \in DOMAIN Tail(queues[w]) :
        /\ i + 1 \in DOMAIN queues[w]
        /\ Tail(queues[w])[i] = queues[w][i + 1]
        /\ i \in Nat /\ i + 1 # 1 /\ i + 1 \in Nat
  <2>1. queues[w] \in Seq(Job)
    OBVIOUS
  <2> QED
    BY <2>1
<1>3. \A x \in S : x = <<x[1], x[2]>> /\ x[1] \in Workers /\ x[2] \in Nat
  BY DEF OwedIn
<1>4. ASSUME NEW x \in S PROVE f[x] \in T \ {first}
  <2>1. CASE x[1] = w
    <3>1. x[2] \in DOMAIN Tail(queues[w]) /\ Tail(queues[w])[x[2]] \in W
      BY <1>1, <2>1 DEF OwedIn
    <3>2. f[x] = <<w, x[2] + 1>>
      BY <2>1
    <3>3. <<w, x[2] + 1>> \in T
      BY <1>2, <3>1 DEF OwedIn
    <3>4. <<w, x[2] + 1>> # first
      BY <1>2, <3>1
    <3> QED
      BY <3>2, <3>3, <3>4
  <2>2. CASE x[1] # w
    <3>1. f[x] = x /\ x \in T
      BY <1>1, <1>3, <2>2 DEF OwedIn
    <3>2. x # first
      BY <2>2
    <3> QED
      BY <3>1, <3>2
  <2> QED
    BY <2>1, <2>2
<1>5. ASSUME NEW x \in S, NEW y \in S, f[x] = f[y] PROVE x = y
  <2>1. CASE x[1] = w /\ y[1] = w
    <3>1. x[2] + 1 = y[2] + 1
      BY <1>5, <2>1
    <3>2. x[2] \in Nat /\ y[2] \in Nat
      BY <1>3
    <3>3. x[2] = y[2]
      BY <3>1, <3>2
    <3> QED
      BY <1>3, <2>1, <3>3
  <2>2. CASE x[1] = w /\ y[1] # w
    <3>1. f[x][1] = w /\ f[y][1] # w
      BY <2>2
    <3> QED
      BY <1>5, <3>1
  <2>3. CASE x[1] # w /\ y[1] = w
    <3>1. f[x][1] # w /\ f[y][1] = w
      BY <2>3
    <3> QED
      BY <1>5, <3>1
  <2>4. CASE x[1] # w /\ y[1] # w
    BY <1>5, <2>4
  <2> QED
    BY <2>1, <2>2, <2>3, <2>4
<1>6. f \in Injection(S, T \ {first})
  <2>1. f \in [S -> T \ {first}]
    BY <1>4
  <2>2. DOMAIN f = S
    OBVIOUS
  <2>3. \A x, y \in DOMAIN f : f[x] = f[y] => x = y
    BY <1>5
  <2> HIDE DEF f, S, T, first
  <2> QED
    BY <2>1, <2>3 DEF Injection, IsInjective
<1>7. Head(queues[w]) \in W => first \in T
  <2>1. 1 \in DOMAIN queues[w] /\ queues[w][1] = Head(queues[w]) /\ 1 \in Nat
    OBVIOUS
  <2> QED
    BY <2>1 DEF OwedIn
<1> HIDE DEF f, S, T, first
<1>8. IsFiniteSet(T) /\ Cardinality(T) \in Nat
  BY FS_CardinalityType DEF T
<1>9. /\ IsFiniteSet(T \ {first})
      /\ Cardinality(T \ {first}) = IF first \in T THEN Cardinality(T) - 1 ELSE Cardinality(T)
  BY <1>8, FS_RemoveElement
<1>10. IsFiniteSet(S) /\ Cardinality(S) <= Cardinality(T \ {first})
  BY <1>6, <1>9, FS_Injection
<1>11. Cardinality(S) \in Nat
  BY <1>10, FS_CardinalityType
<1>12. /\ Cardinality(S) <= Cardinality(T)
       /\ first \in T => Cardinality(S) + 1 <= Cardinality(T)
  BY <1>8, <1>9, <1>10, <1>11
<1> QED
  BY <1>7, <1>10, <1>12 DEF HowManyOwed, S, T

\* Queues that hold no other jobs of W owe no more.
LEMMA OwedShrinks ==
  ASSUME NEW queues, NEW later, NEW W, IsFiniteSet(OwedIn(queues, W)),
         OwedIn(later, W) \subseteq OwedIn(queues, W)
  PROVE  /\ IsFiniteSet(OwedIn(later, W))
         /\ HowManyOwed(later, W) <= HowManyOwed(queues, W)
BY FS_Subset DEF HowManyOwed

\* Queues that hold at most one more job of W owe at most one more.
LEMMA OwedGrows ==
  ASSUME NEW queues, NEW later, NEW W, IsFiniteSet(OwedIn(queues, W)),
         OneMoreOwed(later, queues, W)
  PROVE  /\ IsFiniteSet(OwedIn(later, W))
         /\ HowManyOwed(later, W) <= HowManyOwed(queues, W) + 1
<1> DEFINE T == OwedIn(queues, W)
<1>0. PICK x : OwedIn(later, W) \subseteq T \cup {x}
  BY DEF OneMoreOwed
<1>1. /\ IsFiniteSet(T \cup {x}) /\ Cardinality(T) \in Nat
      /\ Cardinality(T \cup {x}) = IF x \in T THEN Cardinality(T) ELSE Cardinality(T) + 1
  BY FS_AddElement, FS_CardinalityType
<1>2. /\ IsFiniteSet(OwedIn(later, W))
      /\ Cardinality(OwedIn(later, W)) <= Cardinality(T \cup {x})
  BY <1>0, <1>1, FS_Subset
<1>3. Cardinality(OwedIn(later, W)) \in Nat
  BY <1>2, FS_CardinalityType
<1> HIDE DEF T
<1>4. Cardinality(OwedIn(later, W)) <= Cardinality(T) + 1
  BY <1>1, <1>2, <1>3
<1> QED
  BY <1>2, <1>4 DEF HowManyOwed, T

\* The three ways a queue changes other than by losing its first job: the job
\* goes on, one more is queued, or everything the worker had is replaced.
LEMMA OwedAfterHeadGoesOn ==
  ASSUME NEW queues \in [Workers -> Seq(Job)], NEW w \in Workers, queues[w] # << >>,
         NEW W, NEW rest \in Job, rest \in W => Head(queues[w]) \in W,
         NEW later, later = [queues EXCEPT ![w] = <<rest>> \o Tail(queues[w])]
  PROVE  OwedIn(later, W) \subseteq OwedIn(queues, W)
<1>1. /\ queues[w] \in Seq(Job) /\ queues[w][1] = Head(queues[w])
      /\ DOMAIN (<<rest>> \o Tail(queues[w])) = DOMAIN queues[w]
      /\ (<<rest>> \o Tail(queues[w]))[1] = rest
      /\ \A i \in DOMAIN queues[w] : i # 1 =>
           (<<rest>> \o Tail(queues[w]))[i] = queues[w][i]
  OBVIOUS
<1>2. /\ later[w] = <<rest>> \o Tail(queues[w])
      /\ \A v \in Workers : v # w => later[v] = queues[v]
  OBVIOUS
<1>3. ASSUME NEW x \in OwedIn(later, W) PROVE x \in OwedIn(queues, W)
  <2>1. /\ x \in Workers \X Nat /\ x[2] \in DOMAIN later[x[1]]
        /\ later[x[1]][x[2]] \in W
    BY DEF OwedIn
  <2>2. x[2] \in DOMAIN queues[x[1]] /\ queues[x[1]][x[2]] \in W
    BY <1>1, <1>2, <2>1
  <2> QED
    BY <2>1, <2>2 DEF OwedIn
<1> QED
  BY <1>3

LEMMA OwedAfterOneMore ==
  ASSUME NEW queues \in [Workers -> Seq(Job)], NEW w \in Workers, NEW W, NEW job \in Job,
         NEW later, later = [queues EXCEPT ![w] = Append(queues[w], job)]
  PROVE  /\ job \in W => OneMoreOwed(later, queues, W)
         /\ job \notin W => OwedIn(later, W) \subseteq OwedIn(queues, W)
<1> DEFINE n == Len(queues[w]) + 1
<1>1. /\ queues[w] \in Seq(Job)
      /\ DOMAIN Append(queues[w], job) = DOMAIN queues[w] \cup {n}
      /\ Append(queues[w], job)[n] = job
      /\ \A i \in DOMAIN queues[w] : Append(queues[w], job)[i] = queues[w][i]
  OBVIOUS
<1>2. /\ later[w] = Append(queues[w], job)
      /\ \A v \in Workers : v # w => later[v] = queues[v]
  OBVIOUS
<1> HIDE DEF n
<1>3. ASSUME NEW x \in OwedIn(later, W)
      PROVE  x \in OwedIn(queues, W) \/ (x = <<w, n>> /\ job \in W)
  <2>1. /\ x \in Workers \X Nat /\ x[2] \in DOMAIN later[x[1]]
        /\ later[x[1]][x[2]] \in W
    BY DEF OwedIn
  <2>2. CASE x[1] = w /\ x[2] = n
    <3>1. x = <<w, n>>
      BY <2>1, <2>2
    <3> QED
      BY <1>1, <1>2, <2>1, <2>2, <3>1
  <2>3. CASE ~(x[1] = w /\ x[2] = n)
    <3>1. x[2] \in DOMAIN queues[x[1]] /\ queues[x[1]][x[2]] \in W
      BY <1>1, <1>2, <2>1, <2>3
    <3> QED
      BY <2>1, <3>1 DEF OwedIn
  <2> QED
    BY <2>2, <2>3
<1>4. OwedIn(later, W) \subseteq OwedIn(queues, W) \cup {<<w, n>>}
  BY <1>3
<1> QED
  BY <1>3, <1>4 DEF OneMoreOwed

LEMMA OwedAfterReplacement ==
  ASSUME NEW queues \in [Workers -> Seq(Job)], NEW w \in Workers, NEW W, NEW job \in Job,
         NEW later, \/ later = [queues EXCEPT ![w] = <<job>>]
                    \/ later = [queues EXCEPT ![w] = << >>]
  PROVE  /\ job \in W => OneMoreOwed(later, queues, W)
         /\ job \notin W \/ later = [queues EXCEPT ![w] = << >>]
              => OwedIn(later, W) \subseteq OwedIn(queues, W)
<1>1. /\ DOMAIN <<job>> = {1} /\ <<job>>[1] = job /\ DOMAIN << >> = {}
  OBVIOUS
<1>2. /\ \/ later[w] = <<job>> /\ later = [queues EXCEPT ![w] = <<job>>]
         \/ later[w] = << >> /\ later = [queues EXCEPT ![w] = << >>]
      /\ \A v \in Workers : v # w => later[v] = queues[v]
  OBVIOUS
<1>3. later = [queues EXCEPT ![w] = << >>] => later[w] = << >>
  OBVIOUS
<1>4. ASSUME NEW x \in OwedIn(later, W)
      PROVE  \/ x \in OwedIn(queues, W)
             \/ x = <<w, 1>> /\ job \in W /\ later # [queues EXCEPT ![w] = << >>]
  <2>1. /\ x \in Workers \X Nat /\ x[2] \in DOMAIN later[x[1]]
        /\ later[x[1]][x[2]] \in W
    BY DEF OwedIn
  <2>2. CASE x[1] = w
    <3>1. later[w] # << >> /\ later[w] = <<job>> /\ x[2] = 1
      BY <1>1, <1>2, <2>1, <2>2
    <3>2. x = <<w, 1>> /\ job \in W
      BY <1>1, <2>1, <2>2, <3>1
    <3> QED
      BY <1>3, <3>1, <3>2
  <2>3. CASE x[1] # w
    BY <1>2, <2>1, <2>3 DEF OwedIn
  <2> QED
    BY <2>2, <2>3
<1>5. OwedIn(later, W) \subseteq OwedIn(queues, W) \cup {<<w, 1>>}
  BY <1>4
<1>6. OneMoreOwed(later, queues, W)
  BY <1>5 DEF OneMoreOwed
<1> QED
  BY <1>4, <1>6

---------------------------------------------------------------------------
\* What the effects of a plan pay, and which transitions may ask for it.
WithSplit == {<<"Split">>, <<"Capture50", "Split">>, <<"Capture100", "Split">>}
WithStanding == {<<"RecordStanding">>, <<"ReleaseAuth", "RecordStanding">>}
StandingEvents == {"ResponseDeadlinePassed", "ProviderCancels", "CustomerReportsProviderNoShow"}

PlanOf(run, event) ==
  /\ run \in WithSplit => NextState(event) \in CreditingStates
  /\ run \in WithStanding => event \in StandingEvents

\* transition() asks for a split on a completion, a customer's no-show or a
\* cancellation only, and for a standing event on the provider's three failures.
LEMMA RunEffectsPlanOf ==
  ASSUME NEW b, NEW s, NEW event \in BookingEvent, NEW now
  PROVE  PlanOf(RunEffects(s, event, Context(b, event, now)), event)
<1> DEFINE ctx == Context(b, event, now)
<1>1. FullReturn(ctx) = "ReleaseAuth" /\ ctx.alreadyCaptured = FALSE
  BY DEF Context, FullReturn
<1> HIDE DEF ctx
<1>2. /\ event = "ProviderAccepts" => RunEffects(s, event, ctx) = << >>
      /\ event = "ProviderDeclines" => RunEffects(s, event, ctx) = <<"ReleaseAuth">>
      /\ event = "CustomerCancels" =>
           RunEffects(s, event, ctx) \in {<<"Capture50", "Split">>, <<"ReleaseAuth">>}
      /\ event \in StandingEvents =>
           RunEffects(s, event, ctx) = <<"ReleaseAuth", "RecordStanding">>
      /\ event \in {"ProviderCompletes", "AutoCompleteElapsed", "ProviderReportsCustomerNoShow"}
           => RunEffects(s, event, ctx) = <<"Capture100", "Split">>
  BY <1>1 DEF RunEffects, StandingEvents
<1>3. /\ << >> \notin WithSplit \cup WithStanding
      /\ <<"ReleaseAuth">> \notin WithSplit \cup WithStanding
      /\ <<"Capture50", "Split">> \notin WithStanding
      /\ <<"Capture100", "Split">> \notin WithStanding
      /\ <<"ReleaseAuth", "RecordStanding">> \notin WithSplit
  BY DEF WithSplit, WithStanding
<1>4. event \in {"ProviderAccepts", "ProviderDeclines", "CustomerCancels"} \cup StandingEvents
        \cup {"ProviderCompletes", "AutoCompleteElapsed", "ProviderReportsCustomerNoShow"}
  BY DEF BookingEvent, PendingEvents, ConfirmedEvents, StandingEvents
<1>5. /\ event = "CustomerCancels" => NextState(event) \in CreditingStates
      /\ event \in {"ProviderCompletes", "AutoCompleteElapsed", "ProviderReportsCustomerNoShow"}
           => NextState(event) \in CreditingStates
  BY DEF NextState, CreditingStates
<1>6. PlanOf(RunEffects(s, event, ctx), event)
  BY <1>2, <1>3, <1>4, <1>5 DEF PlanOf
<1> QED
  BY <1>6 DEF ctx

\* What a handler has decided owes what its event may ask for.
PlansSound ==
  \A r \in Requests : req[r].pc = "decided" => PlanOf(req[r].run, req[r].event)

LEMMA PlansSoundStep ==
  ASSUME TypeInv, PlansSound, [Next]_vars
  PROVE  PlansSound'
<1> SUFFICES ASSUME NEW r \in Requests, req'[r].pc = "decided"
             PROVE  PlanOf(req'[r].run, req'[r].event)
  BY DEF PlansSound
<1>0. req \in [Requests -> {Idle, Over} \cup ReadRequests \cup DecidedRequests]
  BY DEF TypeInv, TypeOK, WorkerTypeOK
<1>1. CASE req'[r] = req[r]
  BY <1>1 DEF PlansSound
<1>2. CASE Decide(r)
  <2> DEFINE q == req[r]
             run == RunEffects(q.seen, q.event, Context(q.booking, q.event, clock))
  <2>1. q.event \in BookingEvent
    BY <1>2, ReadRequestType DEF Decide, TypeInv, TypeOK, ReadRequests, HttpEvents
  <2>2. req'[r] = [ pc |-> "decided", booking |-> q.booking, event |-> q.event,
                    seen |-> q.seen, quoted |-> q.quoted, run |-> run,
                    remind |-> RemindFor(q.booking, q.event) ]
    BY <1>0, <1>2 DEF Decide, Over
  <2>3. PlanOf(run, q.event)
    BY <2>1, RunEffectsPlanOf
  <2>4. req'[r].event = q.event /\ req'[r].run = run
    BY <2>2
  <2> HIDE DEF run, q
  <2> QED
    BY <2>3, <2>4
<1>3. ASSUME NEW b \in Bookings, NEW event \in HttpEvents, Read(r, b, event) PROVE FALSE
  BY <1>0, <1>3 DEF Read
<1>4. req'[r] # Over
  BY DEF Over
<1> QED
  BY <1>0, <1>1, <1>2, <1>3, <1>4, RequestWriters

\* A row step that queues a job of W, and writes nothing the effects write.
Queues(W) ==
  /\ \E job \in W : \E remind :
       /\ RowStep(job.booking, NextState(job.event), job.event, remind)
       /\ PlanOf(job.run, job.event)
  /\ UNCHANGED <<ledger, standing>>

\* A worker w pays: it splits, or records a standing event, and its job is done.
Pays(w, W) ==
  /\ Split(w) \/ RecordStanding(w)
  /\ HowManyOwed(work', W) <= HowManyOwed(work, W)
  /\ Head(work[w]) \in W => HowManyOwed(work', W) + 1 <= HowManyOwed(work, W)

\* The jobs of W: a job that goes on and is still in W was in W before.
Closed(W) ==
  \A job \in SoundJobs, rest \in Job :
    /\ rest.booking = job.booking /\ rest.event = job.event /\ rest.run = Tail(job.run)
    /\ rest \in W
    => job \in W

\* A worker goes on with its first job, or is through with it.
LEMMA OwedOnward ==
  ASSUME TypeInv, JobsSound, NEW W, Closed(W), IsFiniteSet(OwedIn(work, W)),
         NEW w \in Workers, NEW e, NextEffect(w, e), NEW settled \in Percent,
         work' = Onward(w, settled)
  PROVE  /\ IsFiniteSet(OwedIn(work', W))
         /\ HowManyOwed(work', W) <= HowManyOwed(work, W)
         /\ Tail(Head(work[w]).run) = << >> /\ Head(work[w]) \in W
              => HowManyOwed(work', W) + 1 <= HowManyOwed(work, W)
<1>0. work \in [Workers -> Seq(Job)]
  BY DEF TypeInv, TypeOK, WorkerTypeOK
<1>1. PICK job \in SoundJobs : job = Head(work[w]) /\ work[w] # << >>
  BY NextEffectSound
<1>2. job \in Job /\ job.run \in Seq(Effect) /\ job.run # << >>
  BY <1>1 DEF SoundJobs, Job, NextEffect
<1>3. PICK rest : rest = [job EXCEPT !.run = Tail(job.run), !.settled = settled]
  OBVIOUS
<1>4. /\ rest \in Job /\ rest.run = Tail(job.run)
      /\ rest.booking = job.booking /\ rest.event = job.event
  <2>1. Tail(job.run) \in Seq(Effect)
    BY <1>2
  <2> QED
    BY <1>2, <1>3, <2>1 DEF Job
<1>5. work' = [work EXCEPT ![w] = Owed(rest) \o Tail(work[w])]
  BY <1>1, <1>3 DEF Onward
<1>6. CASE rest.run = << >>
  <2>1. Owed(rest) \o Tail(work[w]) = Tail(work[w])
    BY <1>0, <1>1, <1>6 DEF Owed
  <2>2. work' = [work EXCEPT ![w] = Tail(work[w])]
    BY <1>5, <2>1
  <2> QED
    BY <1>0, <1>1, <2>2, OwedWithoutHead
<1>7. CASE rest.run # << >>
  <2>1. work' = [work EXCEPT ![w] = <<rest>> \o Tail(work[w])]
    BY <1>5, <1>7 DEF Owed
  <2>2. rest \in W => Head(work[w]) \in W
    BY <1>1, <1>4 DEF Closed
  <2>3. OwedIn(work', W) \subseteq OwedIn(work, W)
    BY <1>0, <1>1, <1>4, <2>1, <2>2, OwedAfterHeadGoesOn
  <2> QED
    BY <1>1, <1>4, <1>7, <2>3, OwedShrinks
<1> QED
  BY <1>6, <1>7

\* Every step leaves no more owed, or pays, or queues one more job for the
\* transition it makes.
LEMMA DebtMoves ==
  ASSUME TypeInv, MoneyInv, PlansSound, [Next]_vars,
         NEW W, Closed(W), IsFiniteSet(OwedIn(work, W))
  PROVE  /\ IsFiniteSet(OwedIn(work', W))
         /\ \/ /\ HowManyOwed(work', W) <= HowManyOwed(work, W)
               /\ UNCHANGED <<ledger, standing>>
            \/ \E w \in Workers : Pays(w, W)
            \/ /\ HowManyOwed(work', W) <= HowManyOwed(work, W) + 1
               /\ Queues(W)
<1> DEFINE Fewer == HowManyOwed(work', W) <= HowManyOwed(work, W)
           Finite == IsFiniteSet(OwedIn(work', W))
           More == HowManyOwed(work', W) <= HowManyOwed(work, W) + 1
           Goal == /\ Finite
                   /\ \/ Fewer /\ UNCHANGED <<ledger, standing>>
                      \/ \E w \in Workers : Pays(w, W)
                      \/ More /\ Queues(W)
<1>0. /\ work \in [Workers -> Seq(Job)] /\ JobsSound
      /\ OwedIn(work, W) \subseteq OwedIn(work, W)
  BY DEF TypeInv, TypeOK, WorkerTypeOK, MoneyInv
<1>1. ASSUME NEW r \in Requests, Apply(r) PROVE Goal
  <2> DEFINE q == req[r]
  <2>1. PICK job : job = [ booking |-> q.booking, event |-> q.event, from |-> q.seen,
                           run |-> q.run, settled |-> 100, quoted |-> q.quoted ]
    OBVIOUS
  <2>2. q \in DecidedRequests
    BY <1>1, DecidedRequestType DEF Apply, TypeInv, TypeOK
  <2>3. /\ job \in Job /\ job.booking = q.booking /\ job.event = q.event
        /\ job.run = q.run
    BY <2>1, <2>2 DEF DecidedRequests, Job, Percent, HttpEvents
  <2>4. work' = [work EXCEPT ![r] = Owed(job)] /\ UNCHANGED <<ledger, standing>>
    BY <1>1, <2>1 DEF Apply, moneyVars
  <2>5. work' = [work EXCEPT ![r] = <<job>>] \/ work' = [work EXCEPT ![r] = << >>]
    BY <2>4 DEF Owed
  <2>6. r \in Workers
    BY DEF Workers
  <2>7. CASE job \in W
    <3>1. RowStep(job.booking, NextState(job.event), job.event, q.remind)
      BY <1>1, <2>3, ApplyIsRowStep
    <3>2. PlanOf(job.run, job.event)
      BY <1>1, <2>3 DEF PlansSound, Apply
    <3>3. Finite /\ More
      <4>1. OneMoreOwed(work', work, W)
        BY <1>0, <2>3, <2>5, <2>6, <2>7, OwedAfterReplacement
      <4> QED
        BY <4>1, OwedGrows
    <3> QED
      BY <2>4, <2>7, <3>1, <3>2, <3>3 DEF Queues
  <2>8. CASE job \notin W
    <3>1. OwedIn(work', W) \subseteq OwedIn(work, W)
      BY <1>0, <2>3, <2>5, <2>6, <2>8, OwedAfterReplacement
    <3> QED
      BY <2>4, <3>1, OwedShrinks
  <2> QED
    BY <2>7, <2>8
<1>2. ASSUME NEW p \in Pollers, NEW b \in Bookings, Claim(p, b) PROVE Goal
  <2> DEFINE event == EventOf(poll[p].phase)
             run == RunEffects(state[b], event, Context(b, event, poll[p].now))
  <2>1. PICK job : job = [ booking |-> b, event |-> event, from |-> state[b],
                           run |-> run, settled |-> 100, quoted |-> "none" ]
    OBVIOUS
  <2>2. state[b] \in BookingState /\ event \in BookingEvent /\ run \in Seq(Effect)
    BY <1>2, DueHolds, EventOfType, RunEffectsType DEF Claim, BookingState
  <2>3. RowStep(b, NextState(event), event, FALSE)
    BY <1>2, ClaimIsRowStep
  <2>4. PlanOf(run, event)
    BY <2>2, RunEffectsPlanOf
  <2>5. /\ work' = [work EXCEPT ![p] = Append(work[p], job)]
        /\ UNCHANGED <<ledger, standing>>
    BY <1>2, <2>1 DEF Claim, QueueEffects, moneyVars
  <2>6. p \in Workers
    BY DEF Workers
  <2> HIDE DEF run, event
  <2>7. job \in Job /\ job.booking = b /\ job.event = event /\ job.run = run
    BY <2>1, <2>2 DEF Job, Percent, Quotes
  <2>8. CASE job \in W
    <3>0. OneMoreOwed(work', work, W)
      BY <1>0, <2>5, <2>6, <2>7, <2>8, OwedAfterOneMore
    <3>1. Finite /\ More
      BY <3>0, OwedGrows
    <3> QED
      BY <2>3, <2>4, <2>5, <2>7, <2>8, <3>1 DEF Queues
  <2>9. CASE job \notin W
    <3>1. OwedIn(work', W) \subseteq OwedIn(work, W)
      BY <1>0, <2>5, <2>6, <2>7, <2>9, OwedAfterOneMore
    <3> QED
      BY <2>5, <3>1, OwedShrinks
  <2> QED
    BY <2>8, <2>9
<1>3. ASSUME NEW w \in Workers, EffectStep(w) PROVE Goal
  <2>1. CASE Split(w) \/ RecordStanding(w)
    <3>1. PICK e \in {"Split", "RecordStanding"} : NextEffect(w, e)
      BY <2>1 DEF Split, RecordStanding
    <3>2. work' = Onward(w, Head(work[w]).settled)
      BY <2>1 DEF Split, RecordStanding
    <3>3. /\ Head(work[w]) \in SoundJobs
          /\ Head(work[w]).settled \in Percent
          /\ Tail(Head(work[w]).run) = << >>
      BY <1>0, <3>1, NextEffectSound, RemainderTails DEF SoundJobs, Job
    <3>4. /\ Finite /\ Fewer
          /\ Head(work[w]) \in W => HowManyOwed(work', W) + 1 <= HowManyOwed(work, W)
      BY <1>0, <3>1, <3>2, <3>3, OwedOnward
    <3> QED
      BY <2>1, <3>4 DEF Pays
  <2>2. CASE ReleaseAuth(w) \/ \E pct \in Percent : Capture(w, pct)
    <3>1. PICK e : NextEffect(w, e)
      BY <2>2 DEF ReleaseAuth, Capture
    <3>2. Head(work[w]).settled \in Percent
      BY <1>0, <3>1, NextEffectSound DEF SoundJobs, Job
    <3>3. /\ \E settled \in Percent : work' = Onward(w, settled)
          /\ UNCHANGED <<ledger, standing>>
      BY <2>2, <3>2 DEF ReleaseAuth, Capture
    <3>4. Finite /\ Fewer
      BY <1>0, <3>1, <3>3, OwedOnward
    <3> QED
      BY <3>3, <3>4
  <2>3. CASE ReleaseAuthFails(w) \/ InsertFails(w) \/ \E pct \in Percent : CaptureFails(w, pct)
    <3>1. PICK e : NextEffect(w, e)
      BY <2>3 DEF ReleaseAuthFails, InsertFails, CaptureFails
    <3>2. work' = [work EXCEPT ![w] = Tail(work[w])] /\ UNCHANGED <<ledger, standing>>
      BY <2>3 DEF ReleaseAuthFails, InsertFails, CaptureFails, AbandonJob, moneyVars
    <3>3. work[w] # << >>
      BY <3>1 DEF NextEffect
    <3>4. Finite /\ Fewer
      BY <1>0, <3>2, <3>3, OwedWithoutHead
    <3> QED
      BY <3>2, <3>4
  <2> QED
    BY <1>3, <2>1, <2>2, <2>3 DEF EffectStep
<1>4. ASSUME NEW w \in Workers, Crash(w) PROVE Goal
  <2>1. work' = [work EXCEPT ![w] = << >>] /\ UNCHANGED <<ledger, standing>>
    BY <1>4 DEF Crash, moneyVars
  <2>2. ASSUME NEW x \in OwedIn(work', W) PROVE x \in OwedIn(work, W)
    <3>1. x \in Workers \X Nat /\ x[2] \in DOMAIN work'[x[1]] /\ work'[x[1]][x[2]] \in W
      BY DEF OwedIn
    <3>2. x[1] # w
      BY <1>0, <2>1, <3>1
    <3> QED
      BY <1>0, <2>1, <3>1, <3>2 DEF OwedIn
  <2> QED
    BY <2>1, <2>2, OwedShrinks
<1>5. ASSUME UNCHANGED <<work, ledger, standing>> PROVE Goal
  BY <1>0, <1>5, OwedShrinks
<1>6. ASSUME NEW r \in Requests, RequestStep(r)
      PROVE  Apply(r) \/ UNCHANGED <<work, ledger, standing>>
  BY <1>6 DEF RequestStep, DiscloseConsequence, Read, Decide, ApplyExcluded, moneyVars
<1>7. ASSUME NEW p \in Pollers, PollerStep(p)
      PROVE  UNCHANGED <<work, ledger, standing>> \/ \E b \in Bookings : Claim(p, b)
  BY <1>7 DEF PollerStep, BeginTick, ClaimFails, ClaimsDone, EffectsDone, moneyVars
<1>8. (\E b \in Bookings : CreateBooking(b)) \/ Tick \/ UNCHANGED vars
        => UNCHANGED <<work, ledger, standing>>
  BY DEF CreateBooking, Tick, vars, moneyVars
<1> HIDE DEF Goal
<1>9. Goal
  BY <1>1, <1>2, <1>3, <1>4, <1>5, <1>6, <1>7, <1>8 DEF Next
<1> QED
  BY <1>9 DEF Goal

---------------------------------------------------------------------------
\* The transitions a booking's trail counts for a credit.
Crediting == {a \in AuditRow : a.to \in CreditingStates}

\* The jobs that will credit the provider of b.
SplitJobs(b) == {job \in Job : job.booking = b /\ job.run \in WithSplit}

\* Every credit of b, given or still owed, has a transition of its own.
CreditsDeserved ==
  \A b \in Bookings :
    /\ IsFiniteSet(OwedIn(work, SplitJobs(b)))
    /\ Len(ledger[b]) + HowManyOwed(work, SplitJobs(b)) <= HowMany(audit[b], Crediting)

\* A job that has its split ahead still had it one effect earlier.
LEMMA SplitJobsClosed ==
  ASSUME NEW b
  PROVE  Closed(SplitJobs(b))
<1> SUFFICES ASSUME NEW job \in SoundJobs, NEW rest \in Job,
                    rest.booking = job.booking, rest.run = Tail(job.run),
                    rest \in SplitJobs(b)
             PROVE  job \in SplitJobs(b)
  BY DEF Closed
<1>1. job \in Job /\ job.run \in Remainders \ {<< >>} /\ job.booking = b
  BY DEF SoundJobs, SplitJobs
<1>2. Tail(job.run) \in WithSplit
  BY DEF SplitJobs
<1>3. << >> \notin WithSplit /\ <<"RecordStanding">> \notin WithSplit
  BY DEF WithSplit
<1>4. Head(job.run) \in {"ReleaseAuth", "Capture50", "Capture100", "Split", "RecordStanding"}
  BY <1>1 DEF Remainders, Plans
<1>5. Head(job.run) \in {"Capture50", "Capture100"}
  BY <1>1, <1>2, <1>3, <1>4, RemainderTails
<1>6. job.run \in WithSplit
  BY <1>1, <1>5 DEF Remainders, Plans, WithSplit
<1> QED
  BY <1>1, <1>6 DEF SplitJobs

\* The trail of a booking grows by the row of its own transition only.
LEMMA TrailStep ==
  ASSUME TypeInv, NEW b \in Bookings, NEW c, NEW to, NEW event, NEW remind,
         RowStep(c, to, event, remind), NEW kind
  PROVE  /\ HowMany(audit[b], kind) \in Nat /\ HowMany(audit'[b], kind) \in Nat
         /\ HowMany(audit[b], kind) <= HowMany(audit'[b], kind)
         /\ c = b /\ [from |-> state[c], to |-> to, event |-> event] \in kind
              => HowMany(audit'[b], kind) = HowMany(audit[b], kind) + 1
<1>1. audit \in [Bookings -> Seq(AuditRow)]
  BY DEF TypeInv, TypeOK, BookingTypeOK
<1>2. PICK row : row = [from |-> state[c], to |-> to, event |-> event]
  OBVIOUS
<1>3. row \in AuditRow
  BY <1>2 DEF RowStep, AuditRow
<1>4. HowMany(audit[b], kind) \in Nat
  BY <1>1, RowsAreFinite
<1>5. CASE c = b
  <2>1. audit'[b] = Append(audit[b], row)
    BY <1>1, <1>2, <1>5 DEF RowStep
  <2>2. HowMany(audit'[b], kind) = HowMany(audit[b], kind) + (IF row \in kind THEN 1 ELSE 0)
    BY <1>1, <1>3, <2>1, OneMoreRow
  <2> QED
    BY <1>2, <1>4, <2>2
<1>6. CASE c # b
  <2>1. audit'[b] = audit[b]
    BY <1>1, <1>6 DEF RowStep
  <2> QED
    BY <1>4, <1>6, <2>1
<1> QED
  BY <1>5, <1>6

\* No step shortens the trail of a booking.
LEMMA TrailNeverShrinks ==
  ASSUME TypeInv, [Next]_vars, NEW b \in Bookings, NEW kind
  PROVE  /\ HowMany(audit[b], kind) \in Nat /\ HowMany(audit'[b], kind) \in Nat
         /\ HowMany(audit[b], kind) <= HowMany(audit'[b], kind)
<1>1. ASSUME NEW c, NEW to, NEW event, NEW remind, RowStep(c, to, event, remind)
      PROVE  /\ HowMany(audit[b], kind) \in Nat /\ HowMany(audit'[b], kind) \in Nat
             /\ HowMany(audit[b], kind) <= HowMany(audit'[b], kind)
  BY <1>1, TrailStep
<1>2. ASSUME audit' = audit
      PROVE  /\ HowMany(audit[b], kind) \in Nat /\ HowMany(audit'[b], kind) \in Nat
             /\ HowMany(audit[b], kind) <= HowMany(audit'[b], kind)
  <2>1. HowMany(audit[b], kind) \in Nat
    BY RowsAreFinite DEF TypeInv, TypeOK, BookingTypeOK
  <2> QED
    BY <1>2, <2>1
<1>3. (\E c \in Bookings : CreateBooking(c)) => audit' = audit
  BY DEF CreateBooking
<1> QED
  BY <1>1, <1>2, <1>3, RowStepCases

\* Nothing is owed by workers who have no job.
LEMMA NothingOwed ==
  ASSUME Init, NEW W
  PROVE  IsFiniteSet(OwedIn(work, W)) /\ HowManyOwed(work, W) = 0
<1>1. OwedIn(work, W) = {}
  BY DEF Init, OwedIn
<1> QED
  BY <1>1, FS_EmptySet DEF HowManyOwed

\* Every step keeps the credits of a booking deserved: a split is paid out of
\* the one job its transition has queued.
LEMMA CreditsDeservedStep ==
  ASSUME TypeInv, MoneyInv, PlansSound, CreditsDeserved, [Next]_vars
  PROVE  CreditsDeserved'
<1> SUFFICES ASSUME NEW b \in Bookings
             PROVE  /\ IsFiniteSet(OwedIn(work', SplitJobs(b)))
                    /\ Len(ledger'[b]) + HowManyOwed(work', SplitJobs(b))
                         <= HowMany(audit'[b], Crediting)
  BY DEF CreditsDeserved
<1>1. PICK W : W = SplitJobs(b)
  OBVIOUS
<1>2. /\ IsFiniteSet(OwedIn(work, W))
      /\ Len(ledger[b]) + HowManyOwed(work, W) <= HowMany(audit[b], Crediting)
      /\ ledger \in [Bookings -> Seq(Percent)]
  BY <1>1 DEF CreditsDeserved, TypeInv, TypeOK, MoneyTypeOK
<1>3. Closed(W)
  BY <1>1, SplitJobsClosed
<1>4. /\ IsFiniteSet(OwedIn(work', W))
      /\ \/ /\ HowManyOwed(work', W) <= HowManyOwed(work, W)
            /\ UNCHANGED <<ledger, standing>>
         \/ \E w \in Workers : Pays(w, W)
         \/ /\ HowManyOwed(work', W) <= HowManyOwed(work, W) + 1
            /\ Queues(W)
  BY <1>2, <1>3, DebtMoves
<1>5. /\ HowManyOwed(work, W) \in Nat /\ HowManyOwed(work', W) \in Nat
      /\ Len(ledger[b]) \in Nat
  BY <1>2, <1>4, FS_CardinalityType DEF HowManyOwed
<1>6. /\ HowMany(audit[b], Crediting) \in Nat /\ HowMany(audit'[b], Crediting) \in Nat
      /\ HowMany(audit[b], Crediting) <= HowMany(audit'[b], Crediting)
  BY TrailNeverShrinks
<1>7. CASE HowManyOwed(work', W) <= HowManyOwed(work, W) /\ ledger' = ledger
  <2>1. Len(ledger'[b]) + HowManyOwed(work', W) <= HowMany(audit'[b], Crediting)
    BY <1>2, <1>5, <1>6, <1>7
  <2> QED
    BY <1>1, <1>4, <2>1
<1>8. ASSUME NEW w \in Workers, Pays(w, W)
      PROVE  Len(ledger'[b]) + HowManyOwed(work', W) <= HowMany(audit'[b], Crediting)
  <2>1. CASE RecordStanding(w)
    <3>1. ledger' = ledger
      BY <2>1 DEF RecordStanding, moneyVars
    <3> QED
      BY <1>2, <1>5, <1>6, <1>8, <3>1 DEF Pays
  <2>2. CASE Split(w) /\ Head(work[w]).booking # b
    <3>1. ledger'[b] = ledger[b]
      BY <1>2, <2>2 DEF Split
    <3> QED
      BY <1>2, <1>5, <1>6, <1>8, <3>1 DEF Pays
  <2>3. CASE Split(w) /\ Head(work[w]).booking = b
    <3>1. /\ Head(work[w]) \in SoundJobs /\ Head(Head(work[w]).run) = "Split"
      BY <2>3, NextEffectSound DEF Split, MoneyInv
    <3>2. Head(work[w]).run = <<"Split">> /\ Head(work[w]) \in Job
      BY <3>1, RemainderTails DEF SoundJobs
    <3>3. Head(work[w]) \in W
      BY <1>1, <2>3, <3>2 DEF SplitJobs, WithSplit
    <3>4. HowManyOwed(work', W) + 1 <= HowManyOwed(work, W)
      BY <1>8, <3>3 DEF Pays
    <3>5. Len(ledger'[b]) = Len(ledger[b]) + 1
      <4>1. ledger'[b] = Append(ledger[b], Head(work[w]).settled)
        BY <1>2, <2>3 DEF Split
      <4> QED
        BY <1>2, <4>1
    <3> QED
      BY <1>2, <1>5, <1>6, <3>4, <3>5
  <2> QED
    BY <1>8, <2>1, <2>2, <2>3 DEF Pays
<1>9. ASSUME HowManyOwed(work', W) <= HowManyOwed(work, W) + 1, Queues(W)
      PROVE  Len(ledger'[b]) + HowManyOwed(work', W) <= HowMany(audit'[b], Crediting)
  <2>0. PICK job \in W : \E remind :
          /\ RowStep(job.booking, NextState(job.event), job.event, remind)
          /\ PlanOf(job.run, job.event)
    BY <1>9 DEF Queues
  <2>1. PICK remind :
          /\ RowStep(job.booking, NextState(job.event), job.event, remind)
          /\ PlanOf(job.run, job.event)
    BY <2>0
  <2>2. job \in Job /\ job.booking = b /\ job.run \in WithSplit
    BY <1>1, <2>1 DEF SplitJobs
  <2>3. NextState(job.event) \in CreditingStates
    BY <2>1, <2>2 DEF PlanOf
  <2>4. [from |-> state[b], to |-> NextState(job.event), event |-> job.event] \in Crediting
    BY <2>1, <2>2, <2>3 DEF Crediting, AuditRow, RowStep
  <2>5. HowMany(audit'[b], Crediting) = HowMany(audit[b], Crediting) + 1
    BY <2>1, <2>2, <2>4, TrailStep
  <2>6. ledger' = ledger
    BY <1>9 DEF Queues
  <2> QED
    BY <1>2, <1>5, <1>6, <1>9, <2>5, <2>6
<1> QED
  BY <1>1, <1>4, <1>7, <1>8, <1>9

\* What is decided, owed and paid agrees throughout.
LEMMA PlansAreSound == Spec => []PlansSound
<1>1. Init => PlansSound
  BY DEF Init, PlansSound, Idle
<1>2. TypeInv /\ PlansSound /\ [Next]_vars => PlansSound'
  BY PlansSoundStep
<1> QED
  BY <1>1, <1>2, TypeInvariant, PTL DEF Spec

\* PAY-002: every credit of a provider has a transition of its own that asks for
\* one, whatever handlers and pollers decide on stale rows, fail or lose: a
\* transition queues its plan once, and a plan splits once.
THEOREM EveryCreditIsAskedFor == Spec => []SplitPerCompletion
<1>1. Init => CreditsDeserved
  <2> SUFFICES ASSUME Init, NEW b \in Bookings
               PROVE  /\ IsFiniteSet(OwedIn(work, SplitJobs(b)))
                      /\ Len(ledger[b]) + HowManyOwed(work, SplitJobs(b))
                           <= HowMany(audit[b], Crediting)
    BY DEF CreditsDeserved
  <2>1. ledger[b] = << >> /\ audit[b] = << >>
    BY DEF Init
  <2>2. HowMany(audit[b], Crediting) \in Nat
    <3>1. audit[b] \in Seq(AuditRow)
      BY <2>1
    <3> QED
      BY <3>1, RowsAreFinite
  <2> QED
    BY <2>1, <2>2, NothingOwed
<1>2. TypeInv /\ MoneyInv /\ PlansSound /\ CreditsDeserved /\ [Next]_vars => CreditsDeserved'
  BY CreditsDeservedStep
<1>3. TypeInv /\ CreditsDeserved => SplitPerCompletion
  <2> SUFFICES ASSUME TypeInv, CreditsDeserved, NEW b \in Bookings
               PROVE  Len(ledger[b]) <= Cardinality(TransitionsTo(b, CreditingStates))
    BY DEF SplitPerCompletion
  <2>1. audit[b] \in Seq(AuditRow) /\ ledger[b] \in Seq(Percent)
    BY DEF TypeInv, TypeOK, BookingTypeOK, MoneyTypeOK
  <2>2. TransitionsTo(b, CreditingStates) = RowsIn(audit[b], Crediting)
    BY <2>1 DEF TransitionsTo, RowsIn, Crediting
  <2>3. /\ IsFiniteSet(OwedIn(work, SplitJobs(b)))
        /\ Len(ledger[b]) + HowManyOwed(work, SplitJobs(b)) <= HowMany(audit[b], Crediting)
    BY DEF CreditsDeserved
  <2>4. /\ HowManyOwed(work, SplitJobs(b)) \in Nat /\ Len(ledger[b]) \in Nat
        /\ HowMany(audit[b], Crediting) \in Nat
    BY <2>1, <2>3, FS_CardinalityType, RowsAreFinite DEF HowManyOwed
  <2>5. Len(ledger[b]) <= HowMany(audit[b], Crediting)
    BY <2>3, <2>4
  <2> QED
    BY <2>2, <2>5 DEF HowMany
<1> QED
  BY <1>1, <1>2, <1>3, TypeInvariant, MoneyInvariant, PlansAreSound, PTL DEF Spec

---------------------------------------------------------------------------
(* Credits against captures.                                               *)

\* The jobs that will capture the price of b, or half of it.
CaptureRuns == {<<"Capture50", "Split">>, <<"Capture100", "Split">>}
CaptureJobs(b) == {job \in Job : job.booking = b /\ job.run \in CaptureRuns}

ChargeCount(b) == IF captured[b] > 0 THEN 1 ELSE 0

\* The capture of b, made or still owed, has a transition of its own: a second
\* one is owed only where a second transition asks for a settlement.
CapturesDeserved ==
  \A b \in Bookings :
    /\ IsFiniteSet(OwedIn(work, CaptureJobs(b)))
    /\ ChargeCount(b) + HowManyOwed(work, CaptureJobs(b)) <= HowMany(audit[b], Crediting)

SettledOnce(b) == HowMany(audit[b], Crediting) <= 1

\* A split that is left of a settlement is for what its own capture has moved.
FairSplit(job) ==
  job.run = <<"Split">> /\ SettledOnce(job.booking) => job.settled <= captured[job.booking]

\* Of a booking settled once, no credit given or left to give is for more than
\* has been captured.
SettlementsFair ==
  /\ \A w \in Workers : \A i \in DOMAIN work[w] : FairSplit(work[w][i])
  /\ \A b \in Bookings : SettledOnce(b) =>
       \A i \in DOMAIN ledger[b] : ledger[b][i] <= captured[b]

\* A job that has its capture ahead has run no effect yet.
LEMMA CaptureJobsClosed ==
  ASSUME NEW b
  PROVE  Closed(CaptureJobs(b))
<1> SUFFICES ASSUME NEW job \in SoundJobs, NEW rest \in Job,
                    rest.run = Tail(job.run), rest \in CaptureJobs(b)
             PROVE  FALSE
  BY DEF Closed
<1>1. job.run \in Remainders \ {<< >>} /\ Tail(job.run) \in CaptureRuns
  BY DEF SoundJobs, CaptureJobs
<1>2. /\ << >> \notin CaptureRuns /\ <<"RecordStanding">> \notin CaptureRuns
      /\ <<"Split">> \notin CaptureRuns
  BY DEF CaptureRuns
<1>3. Head(job.run) \in {"ReleaseAuth", "Capture50", "Capture100", "Split", "RecordStanding"}
  BY <1>1 DEF Remainders, Plans
<1> QED
  BY <1>1, <1>2, <1>3, RemainderTails

\* A queue whose first job goes on outside W owes that job less.
LEMMA OwedAfterHeadLeaves ==
  ASSUME NEW queues \in [Workers -> Seq(Job)], NEW w \in Workers, queues[w] # << >>,
         NEW W, IsFiniteSet(OwedIn(queues, W)), Head(queues[w]) \in W,
         NEW rest \in Job, rest \notin W,
         NEW later, later = [queues EXCEPT ![w] = <<rest>> \o Tail(queues[w])]
  PROVE  HowManyOwed(later, W) + 1 <= HowManyOwed(queues, W)
<1> DEFINE T == OwedIn(queues, W)
           S == OwedIn(later, W)
           first == <<w, 1>>
<1>1. S \subseteq T
  BY OwedAfterHeadGoesOn
<1>2. first \notin S
  <2>1. later[w] = <<rest>> \o Tail(queues[w]) /\ (<<rest>> \o Tail(queues[w]))[1] = rest
    OBVIOUS
  <2> QED
    BY <2>1 DEF OwedIn
<1>3. first \in T
  <2>1. 1 \in DOMAIN queues[w] /\ queues[w][1] = Head(queues[w]) /\ 1 \in Nat
    OBVIOUS
  <2> QED
    BY <2>1 DEF OwedIn
<1> HIDE DEF T, S, first
<1>4. /\ IsFiniteSet(T) /\ Cardinality(T) \in Nat
      /\ IsFiniteSet(T \ {first}) /\ Cardinality(T \ {first}) = Cardinality(T) - 1
  BY <1>3, FS_CardinalityType, FS_RemoveElement DEF T
<1>5. S \subseteq T \ {first}
  BY <1>1, <1>2
<1>6. Cardinality(S) <= Cardinality(T \ {first}) /\ Cardinality(S) \in Nat
  BY <1>4, <1>5, FS_Subset, FS_CardinalityType
<1>7. Cardinality(S) + 1 <= Cardinality(T)
  BY <1>4, <1>6
<1> QED
  BY <1>7 DEF HowManyOwed, S, T

\* A capture, made or failed, is owed no longer.
LEMMA CapturePays ==
  ASSUME TypeInv, MoneyInv, NEW w \in Workers, NEW pct \in Percent,
         Capture(w, pct) \/ CaptureFails(w, pct),
         NEW b \in Bookings, Head(work[w]).booking = b,
         IsFiniteSet(OwedIn(work, CaptureJobs(b)))
  PROVE  HowManyOwed(work', CaptureJobs(b)) + 1 <= HowManyOwed(work, CaptureJobs(b))
<1>0. work \in [Workers -> Seq(Job)] /\ JobsSound
  BY DEF TypeInv, TypeOK, WorkerTypeOK, MoneyInv
<1>1. NextEffect(w, CaptureEffect(pct))
  BY DEF Capture, CaptureFails
<1>2. PICK job \in SoundJobs : job = Head(work[w]) /\ work[w] # << >>
  BY <1>0, <1>1, NextEffectSound
<1>3. /\ job \in Job /\ job.run \in Remainders \ {<< >>} /\ job.booking = b
      /\ Head(job.run) \in {"Capture50", "Capture100"}
  <2>1. Head(job.run) = CaptureEffect(pct)
    BY <1>0, <1>1, <1>2, NextEffectSound
  <2>2. job \in Job /\ job.run \in Remainders \ {<< >>}
    BY DEF SoundJobs
  <2> QED
    BY <1>2, <2>1, <2>2 DEF CaptureEffect
<1>4. job.run \in CaptureRuns /\ Tail(job.run) = <<"Split">>
  <2>1. /\ Head(<<"ReleaseAuth">>) = "ReleaseAuth"
        /\ Head(<<"ReleaseAuth", "RecordStanding">>) = "ReleaseAuth"
        /\ Head(<<"RecordStanding">>) = "RecordStanding"
        /\ Head(<<"Split">>) = "Split"
    OBVIOUS
  <2> QED
    BY <1>3, <2>1, RemainderTails DEF Remainders, Plans, CaptureRuns
<1>5. job \in CaptureJobs(b)
  BY <1>3, <1>4 DEF CaptureJobs
<1>6. PICK W : W = CaptureJobs(b)
  OBVIOUS
<1>7. CASE CaptureFails(w, pct)
  <2>1. work' = [work EXCEPT ![w] = Tail(work[w])]
    BY <1>7 DEF CaptureFails, AbandonJob
  <2>2. HowManyOwed(work', W) + 1 <= HowManyOwed(work, W)
    BY <1>0, <1>2, <1>5, <1>6, <2>1, OwedWithoutHead
  <2> QED
    BY <1>6, <2>2
<1>8. CASE Capture(w, pct)
  <2>1. PICK rest : rest = [job EXCEPT !.run = Tail(job.run), !.settled = pct]
    OBVIOUS
  <2>2. rest.run = <<"Split">> /\ rest \in Job
    <3>1. <<"Split">> \in Seq(Effect)
      BY DEF Effect
    <3> QED
      BY <1>3, <1>4, <2>1, <3>1 DEF Job
  <2>3. work' = [work EXCEPT ![w] = <<rest>> \o Tail(work[w])]
    <3>1. work' = Onward(w, pct)
      BY <1>8 DEF Capture
    <3>2. work' = [work EXCEPT ![w] = Owed(rest) \o Tail(work[w])]
      BY <1>2, <2>1, <3>1 DEF Onward
    <3>3. Owed(rest) = <<rest>>
      BY <2>2 DEF Owed
    <3> QED
      BY <3>2, <3>3
  <2>4. rest \notin W
    BY <1>6, <2>2 DEF CaptureJobs, CaptureRuns
  <2>5. HowManyOwed(work', W) + 1 <= HowManyOwed(work, W)
    BY <1>0, <1>2, <1>5, <1>6, <2>2, <2>3, <2>4, OwedAfterHeadLeaves
  <2> QED
    BY <1>6, <2>5
<1> QED
  BY <1>7, <1>8

\* What has been captured changes by the capture of a held card only.
LEMMA CapturedMoves ==
  ASSUME TypeInv, [Next]_vars, NEW b \in Bookings
  PROVE  \/ captured'[b] = captured[b]
         \/ \E w \in Workers, pct \in Percent :
              /\ Capture(w, pct) \/ CaptureFails(w, pct)
              /\ Head(work[w]).booking = b
              /\ intent[b] = "held"
<1>0. captured \in [Bookings -> Percent \cup {0}]
  BY DEF TypeInv, TypeOK, MoneyTypeOK
<1>1. ASSUME NEW w \in Workers, NEW pct \in Percent, Capture(w, pct) \/ CaptureFails(w, pct)
      PROVE  captured'[b] = captured[b] \/ (Head(work[w]).booking = b /\ intent[b] = "held")
  <2> DEFINE c == Head(work[w]).booking
  <2>1. \/ captured' = captured
        \/ /\ intent[c] = "held" \/ captured[c] = pct
           /\ captured' = [captured EXCEPT ![c] = pct]
    BY <1>1 DEF Capture, CaptureFails
  <2> QED
    BY <1>0, <2>1
<1>2. ASSUME NEW w \in Workers, \/ ReleaseAuth(w) \/ ReleaseAuthFails(w) \/ Split(w)
                                \/ RecordStanding(w) \/ InsertFails(w) \/ Crash(w)
      PROVE  captured' = captured
  BY <1>2 DEF ReleaseAuth, ReleaseAuthFails, Split, RecordStanding, InsertFails, Crash,
              moneyVars
<1>3. ASSUME NEW r \in Requests, RequestStep(r) PROVE captured' = captured
  BY <1>3 DEF RequestStep, DiscloseConsequence, Read, Decide, Apply, ApplyExcluded, moneyVars
<1>4. ASSUME NEW p \in Pollers, PollerStep(p) PROVE captured' = captured
  BY <1>4 DEF PollerStep, BeginTick, Claim, ClaimFails, ClaimsDone, EffectsDone, moneyVars
<1>5. (\E c \in Bookings : CreateBooking(c)) \/ Tick \/ UNCHANGED vars => captured' = captured
  BY DEF CreateBooking, Tick, vars, moneyVars
<1> QED
  BY <1>1, <1>2, <1>3, <1>4, <1>5 DEF Next, EffectStep

\* Every step keeps the captures of a booking deserved: a charge is made by the
\* one job its transition has queued, and that job captures once.
LEMMA CapturesDeservedStep ==
  ASSUME TypeInv, TypeInv', MoneyInv, PlansSound, CapturesDeserved, [Next]_vars
  PROVE  CapturesDeserved'
<1> SUFFICES ASSUME NEW b \in Bookings
             PROVE  /\ IsFiniteSet(OwedIn(work', CaptureJobs(b)))
                    /\ ChargeCount(b)' + HowManyOwed(work', CaptureJobs(b))
                         <= HowMany(audit'[b], Crediting)
  BY DEF CapturesDeserved
<1>1. PICK W : W = CaptureJobs(b)
  OBVIOUS
<1>2. /\ IsFiniteSet(OwedIn(work, W))
      /\ ChargeCount(b) + HowManyOwed(work, W) <= HowMany(audit[b], Crediting)
  BY <1>1 DEF CapturesDeserved
<1>3. Closed(W)
  BY <1>1, CaptureJobsClosed
<1>4. /\ IsFiniteSet(OwedIn(work', W))
      /\ \/ /\ HowManyOwed(work', W) <= HowManyOwed(work, W)
            /\ UNCHANGED <<ledger, standing>>
         \/ \E w \in Workers : Pays(w, W)
         \/ /\ HowManyOwed(work', W) <= HowManyOwed(work, W) + 1
            /\ Queues(W)
  BY <1>2, <1>3, DebtMoves
<1>5. /\ HowManyOwed(work, W) \in Nat /\ HowManyOwed(work', W) \in Nat
      /\ ChargeCount(b) \in {0, 1} /\ ChargeCount(b)' \in {0, 1}
  BY <1>2, <1>4, FS_CardinalityType DEF HowManyOwed, ChargeCount
<1>6. /\ HowMany(audit[b], Crediting) \in Nat /\ HowMany(audit'[b], Crediting) \in Nat
      /\ HowMany(audit[b], Crediting) <= HowMany(audit'[b], Crediting)
  BY TrailNeverShrinks
<1>7. CASE captured'[b] = captured[b]
  <2>0. ChargeCount(b)' = ChargeCount(b)
    BY <1>7 DEF ChargeCount
  <2>1. CASE HowManyOwed(work', W) <= HowManyOwed(work, W)
    BY <1>1, <1>2, <1>4, <1>5, <1>6, <2>0, <2>1
  <2>2. CASE HowManyOwed(work', W) <= HowManyOwed(work, W) + 1 /\ Queues(W)
    <3>1. PICK job \in W : \E remind :
            /\ RowStep(job.booking, NextState(job.event), job.event, remind)
            /\ PlanOf(job.run, job.event)
      BY <2>2 DEF Queues
    <3>2. PICK remind :
            /\ RowStep(job.booking, NextState(job.event), job.event, remind)
            /\ PlanOf(job.run, job.event)
      BY <3>1
    <3>3. job \in Job /\ job.booking = b /\ job.run \in WithSplit
      BY <1>1, <3>1 DEF CaptureJobs, CaptureRuns, WithSplit
    <3>4. [from |-> state[b], to |-> NextState(job.event), event |-> job.event] \in Crediting
      BY <3>2, <3>3 DEF PlanOf, Crediting, AuditRow, RowStep
    <3>5. HowMany(audit'[b], Crediting) = HowMany(audit[b], Crediting) + 1
      BY <3>2, <3>3, <3>4, TrailStep
    <3>6. ChargeCount(b)' + HowManyOwed(work', W) <= HowMany(audit'[b], Crediting)
      BY <1>2, <1>5, <1>6, <2>0, <2>2, <3>5
    <3> QED
      BY <1>1, <1>4, <3>6
  <2> QED
    BY <1>4, <2>1, <2>2 DEF Pays
<1>8. CASE captured'[b] # captured[b]
  <2>1. PICK w \in Workers, pct \in Percent :
          /\ Capture(w, pct) \/ CaptureFails(w, pct)
          /\ Head(work[w]).booking = b
    BY <1>8, CapturedMoves
  <2>2. HowManyOwed(work', W) + 1 <= HowManyOwed(work, W)
    BY <1>1, <1>2, <2>1, CapturePays
  <2>3. ChargeCount(b)' + HowManyOwed(work', W) <= HowMany(audit'[b], Crediting)
    BY <1>2, <1>5, <1>6, <2>2
  <2> QED
    BY <1>1, <1>4, <2>3
<1> QED
  BY <1>7, <1>8

\* A charge stays the charge it was.
LEMMA ChargeKeepsItsAmount ==
  ASSUME TypeInv, [Next]_vars, NEW b \in Bookings, Charged(b)
  PROVE  captured'[b] = captured[b]
BY CapturedMoves DEF Charged

\* A booking settled at most once by now was so before.
LEMMA SettledOnceBefore ==
  ASSUME TypeInv, [Next]_vars, NEW b \in Bookings, SettledOnce(b)'
  PROVE  SettledOnce(b)
<1>1. /\ HowMany(audit[b], Crediting) \in Nat /\ HowMany(audit'[b], Crediting) \in Nat
      /\ HowMany(audit[b], Crediting) <= HowMany(audit'[b], Crediting)
  BY TrailNeverShrinks
<1>2. HowMany(audit'[b], Crediting) <= 1
  BY DEF SettledOnce
<1> QED
  BY <1>1, <1>2 DEF SettledOnce

\* A job that has only its split left was in its worker's queue before, or its
\* capture has just been made.
LEMMA SplitsComeFromCaptures ==
  ASSUME TypeInv, MoneyInv, DecisionsSound, [Next]_vars,
         NEW v \in Workers, NEW i \in DOMAIN work'[v], work'[v][i].run = <<"Split">>
  PROVE  \/ \E j \in DOMAIN work[v] : work'[v][i] = work[v][j]
         \/ \E pct \in Percent :
              /\ Capture(v, pct)
              /\ work'[v][i].booking = Head(work[v]).booking
              /\ work'[v][i].settled = pct
<1> DEFINE Old == \E j \in DOMAIN work[v] : work'[v][i] = work[v][j]
           New == \E pct \in Percent :
                    /\ Capture(v, pct)
                    /\ work'[v][i].booking = Head(work[v]).booking
                    /\ work'[v][i].settled = pct
<1>0. work \in [Workers -> Seq(Job)] /\ JobsSound
  BY DEF TypeInv, TypeOK, WorkerTypeOK, MoneyInv
<1>1. CASE work'[v] = work[v]
  BY <1>1
<1>2. ASSUME work'[v] = Tail(work[v]), work[v] # << >> PROVE Old
  <2>1. /\ work[v] \in Seq(Job) /\ i \in DOMAIN Tail(work[v])
        /\ work'[v][i] = Tail(work[v])[i]
    BY <1>0, <1>2
  <2>2. i + 1 \in DOMAIN work[v] /\ Tail(work[v])[i] = work[v][i + 1]
    BY <1>2, <2>1
  <2> QED
    BY <2>1, <2>2
<1>3. ASSUME NEW e, NextEffect(v, e), NEW settled \in Percent, work' = Onward(v, settled)
      PROVE  \/ Old
             \/ /\ work'[v][i].run = Tail(Head(work[v]).run)
                /\ work'[v][i].booking = Head(work[v]).booking
                /\ work'[v][i].settled = settled
  <2>1. PICK job : job = Head(work[v])
    OBVIOUS
  <2>2. /\ job \in Job /\ work[v] # << >> /\ work[v] \in Seq(Job)
    BY <1>0, <1>3, <2>1, NextEffectSound DEF SoundJobs
  <2>3. PICK rest : rest = [job EXCEPT !.run = Tail(job.run), !.settled = settled]
    OBVIOUS
  <2>4. /\ rest.run = Tail(job.run) /\ rest.booking = job.booking
        /\ rest.settled = settled
    BY <2>2, <2>3 DEF Job
  <2>5. work'[v] = Owed(rest) \o Tail(work[v])
    BY <1>0, <1>3, <2>1, <2>3 DEF Onward
  <2>6. CASE rest.run = << >>
    <3>1. work'[v] = Tail(work[v])
      BY <2>2, <2>5, <2>6 DEF Owed
    <3> QED
      BY <1>2, <2>2, <3>1
  <2>7. CASE rest.run # << >>
    <3>1. work'[v] = <<rest>> \o Tail(work[v])
      BY <2>5, <2>7 DEF Owed
    <3>2. DOMAIN (<<rest>> \o Tail(work[v])) = DOMAIN work[v]
      BY <2>2
    <3>3. (<<rest>> \o Tail(work[v]))[1] = rest
      BY <2>2
    <3>4. i \in DOMAIN work[v] /\ (i # 1 => (<<rest>> \o Tail(work[v]))[i] = work[v][i])
      BY <2>2, <3>1, <3>2
    <3> QED
      BY <2>1, <2>4, <3>1, <3>3, <3>4
  <2> QED
    BY <2>6, <2>7
<1>4. ASSUME NEW r \in Requests, Apply(r) PROVE Old
  <2>1. CASE v = r
    <3>1. PICK job : job = [ booking |-> req[r].booking, event |-> req[r].event,
                             from |-> req[r].seen, run |-> req[r].run, settled |-> 100,
                             quoted |-> req[r].quoted ]
      OBVIOUS
    <3>2. work'[v] = Owed(job)
      BY <1>0, <1>4, <2>1, <3>1 DEF Apply
    <3>3. job.run \in Plans
      BY <1>4, <3>1 DEF DecisionsSound, Apply
    <3>4. work'[v][i] = job
      <4>1. DOMAIN << >> = {} /\ DOMAIN <<job>> = {1} /\ <<job>>[1] = job
        OBVIOUS
      <4> QED
        BY <3>2, <4>1 DEF Owed
    <3> QED
      BY <3>3, <3>4 DEF Plans
  <2>2. CASE v # r
    BY <1>0, <1>1, <1>4, <2>2 DEF Apply
  <2> QED
    BY <2>1, <2>2
<1>5. ASSUME NEW p \in Pollers, NEW b \in Bookings, Claim(p, b) PROVE Old
  <2>1. CASE v = p
    <3> DEFINE event == EventOf(poll[p].phase)
               run == RunEffects(state[b], event, Context(b, event, poll[p].now))
    <3>1. PICK job : job = [ booking |-> b, event |-> event, from |-> state[b],
                             run |-> run, settled |-> 100, quoted |-> "none" ]
      OBVIOUS
    <3>2. work'[v] = Append(work[v], job)
      BY <1>0, <1>5, <2>1, <3>1 DEF Claim, QueueEffects
    <3>3. run \in Plans
      BY RunEffectsPlan
    <3>4. job.run \in Plans
      BY <3>1, <3>3
    <3> HIDE DEF run, event
    <3>5. /\ work[v] \in Seq(Job)
          /\ DOMAIN Append(work[v], job) = DOMAIN work[v] \cup {Len(work[v]) + 1}
          /\ Append(work[v], job)[Len(work[v]) + 1] = job
          /\ \A j \in DOMAIN work[v] : Append(work[v], job)[j] = work[v][j]
      BY <1>0
    <3>6. work'[v][i] # job
      BY <3>4 DEF Plans
    <3> QED
      BY <3>2, <3>5, <3>6
  <2>2. CASE v # p
    BY <1>0, <1>1, <1>5, <2>2 DEF Claim, QueueEffects
  <2> QED
    BY <2>1, <2>2
<1>6. ASSUME NEW w \in Workers, EffectStep(w) PROVE Old \/ New
  <2>1. CASE v # w
    <3>1. work'[v] = work[v]
      BY <1>0, <1>6, <2>1 DEF EffectStep, ReleaseAuth, ReleaseAuthFails, Capture,
           CaptureFails, Split, RecordStanding, InsertFails, Onward, AbandonJob
    <3> QED
      BY <1>1, <3>1
  <2>2. CASE v = w
    <3>1. CASE ReleaseAuth(v) \/ Split(v) \/ RecordStanding(v)
      <4>1. PICK e \in {"ReleaseAuth", "Split", "RecordStanding"} : NextEffect(v, e)
        BY <3>1 DEF ReleaseAuth, Split, RecordStanding
      <4>2. work' = Onward(v, Head(work[v]).settled)
        BY <3>1 DEF ReleaseAuth, Split, RecordStanding
      <4>3. /\ Head(work[v]).settled \in Percent
            /\ Tail(Head(work[v]).run) \in {<< >>, <<"RecordStanding">>}
        BY <1>0, <4>1, NextEffectSound, RemainderTails DEF SoundJobs, Job
      <4>4. Tail(Head(work[v]).run) # <<"Split">>
        BY <4>3
      <4> QED
        BY <1>3, <4>1, <4>2, <4>3, <4>4
    <3>2. CASE \E pct \in Percent : Capture(v, pct)
      <4>1. PICK pct \in Percent : Capture(v, pct)
        BY <3>2
      <4>2. NextEffect(v, CaptureEffect(pct)) /\ work' = Onward(v, pct)
        BY <4>1 DEF Capture
      <4> QED
        BY <1>3, <4>1, <4>2
    <3>3. CASE ReleaseAuthFails(v) \/ InsertFails(v) \/ \E pct \in Percent : CaptureFails(v, pct)
      <4>1. work[v] # << >> /\ work'[v] = Tail(work[v])
        BY <1>0, <3>3 DEF ReleaseAuthFails, InsertFails, CaptureFails, AbandonJob, NextEffect
      <4> QED
        BY <1>2, <4>1
    <3> QED
      BY <1>6, <2>2, <3>1, <3>2, <3>3 DEF EffectStep
  <2> QED
    BY <2>1, <2>2
<1>7. ASSUME NEW w \in Workers, Crash(w) PROVE Old
  <2>1. work'[v] = work[v] \/ work'[v] = << >>
    BY <1>0, <1>7 DEF Crash
  <2> QED
    BY <1>1, <2>1
<1>8. ASSUME work' = work PROVE Old
  BY <1>1, <1>8
<1>9. ASSUME NEW r \in Requests, RequestStep(r) PROVE Apply(r) \/ work' = work
  BY <1>9 DEF RequestStep, DiscloseConsequence, Read, Decide, ApplyExcluded
<1>10. ASSUME NEW p \in Pollers, PollerStep(p)
       PROVE  work' = work \/ \E b \in Bookings : Claim(p, b)
  BY <1>10 DEF PollerStep, BeginTick, ClaimFails, ClaimsDone, EffectsDone
<1>11. (\E b \in Bookings : CreateBooking(b)) \/ Tick \/ UNCHANGED vars => work' = work
  BY DEF CreateBooking, Tick, vars
<1> HIDE DEF Old, New
<1>12. Old \/ New
  BY <1>4, <1>5, <1>6, <1>7, <1>8, <1>9, <1>10, <1>11 DEF Next
<1> QED
  BY <1>12 DEF Old, New

\* Every step keeps the settlements fair: a booking settled once has one capture
\* to make, and its split is for that capture.
LEMMA SettlementsFairStep ==
  ASSUME TypeInv, TypeInv', MoneyInv, DecisionsSound, CapturesDeserved, SettlementsFair,
         [Next]_vars
  PROVE  SettlementsFair'
<1>0. /\ work \in [Workers -> Seq(SoundJobs)] /\ MoneySound /\ JobsSound
      /\ ledger \in [Bookings -> Seq(Percent)]
      /\ captured \in [Bookings -> Percent \cup {0}]
  BY DEF MoneyInv, JobsSound, TypeInv, TypeOK, MoneyTypeOK
<1>1. ASSUME NEW v \in Workers, NEW i \in DOMAIN work'[v], NEW job, job = work'[v][i]
      PROVE  FairSplit(job)'
  <2>0. job = work'[v][i]
    BY <1>1
  <2> SUFFICES ASSUME job.run = <<"Split">>, SettledOnce(job.booking)'
               PROVE  job.settled <= captured'[job.booking]
    BY <2>0 DEF FairSplit, SettledOnce
  <2>1. job.booking \in Bookings
    <3>1. work' \in [Workers -> Seq(Job)]
      BY DEF TypeInv, TypeOK, WorkerTypeOK
    <3>2. job \in Job
      BY <2>0, <3>1
    <3> QED
      BY <3>2 DEF Job
  <2>2. PICK b \in Bookings : b = job.booking
    BY <2>1
  <2>3. SettledOnce(b)
    BY <2>2, SettledOnceBefore
  <2>4. CASE \E j \in DOMAIN work[v] : job = work[v][j]
    <3>1. PICK j \in DOMAIN work[v] : job = work[v][j]
      BY <2>4
    <3>2. job \in SoundJobs
      BY <1>0, <3>1
    <3>3. captured'[b] = captured[b]
      BY <2>2, <3>2, ChargeKeepsItsAmount DEF SoundJobs
    <3>4. FairSplit(job)
      BY <3>1 DEF SettlementsFair
    <3> QED
      BY <2>2, <2>3, <3>3, <3>4 DEF FairSplit
  <2>5. ASSUME NEW pct \in Percent, Capture(v, pct), b = Head(work[v]).booking,
               job.settled = pct
        PROVE  job.settled <= captured'[job.booking]
    <3>1. CASE op[b].capture # "succeeded"
      <4>1. captured' = [captured EXCEPT ![b] = pct]
        BY <2>5, <3>1 DEF Capture
      <4>2. captured'[b] = pct
        BY <1>0, <4>1
      <4> QED
        BY <2>2, <2>5, <4>2 DEF Percent
    <3>2. CASE op[b].capture = "succeeded"
      <4>1. IsFiniteSet(OwedIn(work, CaptureJobs(b)))
        BY DEF CapturesDeserved
      <4>2. HowManyOwed(work', CaptureJobs(b)) + 1 <= HowManyOwed(work, CaptureJobs(b))
        BY <2>5, <4>1, CapturePays
      <4>3. HowManyOwed(work, CaptureJobs(b)) \in Nat
        BY <4>1, FS_CardinalityType DEF HowManyOwed
      <4>4. HowManyOwed(work', CaptureJobs(b)) \in Nat
        <5>1. work'= Onward(v, pct) /\ NextEffect(v, CaptureEffect(pct))
          BY <2>5 DEF Capture
        <5>2. IsFiniteSet(OwedIn(work', CaptureJobs(b)))
          BY <1>0, <4>1, <5>1, CaptureJobsClosed, OwedOnward
        <5> QED
          BY <5>2, FS_CardinalityType DEF HowManyOwed
      <4>5. ChargeCount(b) = 1
        BY <1>0, <3>2 DEF MoneySound, Charged, ChargeCount
      <4>6. ChargeCount(b) + HowManyOwed(work, CaptureJobs(b)) <= HowMany(audit[b], Crediting)
        BY DEF CapturesDeserved
      <4>7. HowMany(audit[b], Crediting) \in Nat /\ HowMany(audit[b], Crediting) <= 1
        BY <2>3, TrailNeverShrinks DEF SettledOnce
      <4> QED
        BY <4>2, <4>3, <4>4, <4>5, <4>6, <4>7
    <3> QED
      BY <3>1, <3>2
  <2> QED
    BY <2>0, <2>2, <2>4, <2>5, SplitsComeFromCaptures
<1>2. ASSUME NEW b \in Bookings, SettledOnce(b)', NEW i \in DOMAIN ledger'[b]
      PROVE  ledger'[b][i] <= captured'[b]
  <2>1. SettledOnce(b)
    BY <1>2, SettledOnceBefore
  <2>2. CASE ledger'[b] = ledger[b]
    <3>1. ledger[b] # << >> /\ i \in DOMAIN ledger[b]
      BY <1>2, <2>2
    <3>2. captured'[b] = captured[b]
      BY <1>0, <3>1, ChargeKeepsItsAmount DEF MoneySound
    <3> QED
      BY <2>1, <2>2, <3>1, <3>2 DEF SettlementsFair
  <2>3. ASSUME NEW w \in Workers, Split(w), Head(work[w]).booking = b
        PROVE  ledger'[b][i] <= captured'[b]
    <3>1. PICK job : job = Head(work[w])
      OBVIOUS
    <3>2. /\ ledger'[b] = Append(ledger[b], job.settled)
          /\ captured'[b] = captured[b]
      BY <1>0, <2>3, <3>1 DEF Split
    <3>3. job \in SoundJobs /\ Head(job.run) = "Split" /\ work[w] # << >>
      BY <1>0, <2>3, <3>1, NextEffectSound DEF Split
    <3>4. job.run = <<"Split">>
      BY <3>3, RemainderTails DEF SoundJobs
    <3>5. 1 \in DOMAIN work[w] /\ job = work[w][1]
      BY <1>0, <3>1, <3>3
    <3>6. job.settled <= captured[b]
      BY <2>1, <2>3, <3>1, <3>4, <3>5 DEF SettlementsFair, FairSplit
    <3>7. ledger'[b][i] = job.settled \/ (i \in DOMAIN ledger[b] /\ ledger'[b][i] = ledger[b][i])
      BY <1>0, <3>2
    <3> QED
      BY <2>1, <3>2, <3>6, <3>7 DEF SettlementsFair
  <2>4. ledger'[b] = ledger[b] \/ \E w \in Workers : Split(w) /\ Head(work[w]).booking = b
    BY LedgerWriters
  <2> QED
    BY <2>2, <2>3, <2>4
<1> QED
  BY <1>1, <1>2 DEF SettlementsFair

\* The credit of a booking, as the sum over its rows.
LEMMA CreditOfFewRows ==
  ASSUME TypeInv, NEW b \in Bookings
  PROVE  /\ ledger[b] = << >> => CreditedSum(b) = 0
         /\ Len(ledger[b]) = 1 => CreditedSum(b) = ledger[b][1]
<1>0. ledger[b] \in Seq(Percent)
  BY DEF TypeInv, TypeOK, MoneyTypeOK
<1>1. CreditedSum(b) = Sum(ledger[b], DOMAIN ledger[b])
  BY FoldIsSum DEF CreditedSum
<1>2. ASSUME ledger[b] = << >> PROVE CreditedSum(b) = 0
  <2>1. DOMAIN ledger[b] = {}
    BY <1>2
  <2> QED
    BY <1>1, <2>1, SumUnfolds, FS_EmptySet
<1>3. ASSUME Len(ledger[b]) = 1 PROVE CreditedSum(b) = ledger[b][1]
  <2>1. DOMAIN ledger[b] = {1} /\ ledger[b][1] \in Int
    BY <1>0, <1>3 DEF Percent
  <2>2. IsFiniteSet({1}) /\ {1} \ {1} = {} /\ IsFiniteSet({})
    BY FS_Singleton, FS_EmptySet
  <2>3. Sum(ledger[b], {1}) = ledger[b][1] + Sum(ledger[b], {1} \ {1})
    BY <2>1, <2>2, SumTakesAny
  <2>4. Sum(ledger[b], {}) = 0
    BY <2>2, SumUnfolds
  <2> QED
    BY <1>1, <2>1, <2>2, <2>3, <2>4
<1> QED
  BY <1>2, <1>3

\* What is owed, captured and credited agrees throughout.
LEMMA SettlementsInvariant == Spec => [](CreditsDeserved /\ CapturesDeserved /\ SettlementsFair)
<1>1. Init => CreditsDeserved /\ CapturesDeserved /\ SettlementsFair
  <2> SUFFICES ASSUME Init PROVE CreditsDeserved /\ CapturesDeserved /\ SettlementsFair
    OBVIOUS
  <2>1. ASSUME NEW b \in Bookings
        PROVE  /\ ledger[b] = << >> /\ captured[b] = 0 /\ ChargeCount(b) = 0
               /\ HowMany(audit[b], Crediting) \in Nat
    <3>1. audit[b] \in Seq(AuditRow)
      BY DEF Init
    <3>2. HowMany(audit[b], Crediting) \in Nat
      BY <3>1, RowsAreFinite
    <3> QED
      BY <3>2 DEF Init, ChargeCount
  <2>2. CreditsDeserved /\ CapturesDeserved
    BY <2>1, NothingOwed DEF CreditsDeserved, CapturesDeserved
  <2>3. SettlementsFair
    BY <2>1 DEF SettlementsFair, Init
  <2> QED
    BY <2>2, <2>3
<1>2. TypeInv /\ MoneyInv /\ PlansSound /\ CreditsDeserved /\ [Next]_vars => CreditsDeserved'
  BY CreditsDeservedStep
<1>3. TypeInv /\ TypeInv' /\ MoneyInv /\ PlansSound /\ CapturesDeserved /\ [Next]_vars
        => CapturesDeserved'
  BY CapturesDeservedStep
<1>4. /\ TypeInv /\ TypeInv' /\ MoneyInv /\ DecisionsSound /\ CapturesDeserved
      /\ SettlementsFair /\ [Next]_vars
      => SettlementsFair'
  BY SettlementsFairStep
<1> QED
  BY <1>1, <1>2, <1>3, <1>4, TypeInvariant, MoneyInvariant, PlansAreSound,
     DecisionsAreSound, PTL DEF Spec

\* PAY-002: without a capture nothing is credited, and a booking that only one
\* transition settles is never credited with more than has been captured,
\* whatever captures fail, lose their answers, repeat or race a release: the one
\* job that captures goes on to the one split, for what it has captured.
THEOREM CreditsAreBacked == Spec => []LedgerBackedByCapture
<1>1. ASSUME TypeInv, MoneyInv, CreditsDeserved, SettlementsFair, NEW b \in Bookings
      PROVE  /\ CreditedSum(b) > 0 => intent[b] = "captured" /\ captured[b] > 0
             /\ CreditedSum(b) > captured[b] =>
                  Cardinality(TransitionsTo(b, CreditingStates)) > 1
  <2>0. ledger[b] \in Seq(Percent) /\ captured[b] \in Percent \cup {0}
    BY <1>1 DEF TypeInv, TypeOK, MoneyTypeOK
  <2>00. audit[b] \in Seq(AuditRow)
    BY <1>1 DEF TypeInv, TypeOK, BookingTypeOK
  <2>1. TransitionsTo(b, CreditingStates) = RowsIn(audit[b], Crediting)
    BY <2>00 DEF TransitionsTo, RowsIn, Crediting
  <2>2. CreditedSum(b) > 0 => ledger[b] # << >>
    BY <1>1, CreditOfFewRows
  <2>3. ledger[b] # << >> => Charged(b)
    BY <1>1 DEF MoneyInv, MoneySound
  <2>4. /\ Len(ledger[b]) <= HowMany(audit[b], Crediting)
        /\ HowMany(audit[b], Crediting) \in Nat /\ Len(ledger[b]) \in Nat
    <3>1. /\ IsFiniteSet(OwedIn(work, SplitJobs(b)))
          /\ Len(ledger[b]) + HowManyOwed(work, SplitJobs(b)) <= HowMany(audit[b], Crediting)
      BY <1>1 DEF CreditsDeserved
    <3>2. /\ HowManyOwed(work, SplitJobs(b)) \in Nat /\ Len(ledger[b]) \in Nat
          /\ HowMany(audit[b], Crediting) \in Nat
      BY <2>0, <2>00, <3>1, FS_CardinalityType, RowsAreFinite DEF HowManyOwed
    <3> QED
      BY <3>1, <3>2
  <2>5. ASSUME CreditedSum(b) > captured[b], HowMany(audit[b], Crediting) <= 1
        PROVE  FALSE
    <3>1. SettledOnce(b)
      BY <2>5 DEF SettledOnce
    <3>2. Len(ledger[b]) = 0 \/ Len(ledger[b]) = 1
      <4>1. PICK n \in Nat, m \in Nat : n = Len(ledger[b]) /\ m = HowMany(audit[b], Crediting)
        BY <2>4
      <4>2. n <= m /\ m <= 1
        BY <2>4, <2>5, <4>1
      <4>3. n = 0 \/ n = 1
        BY <4>2
      <4> QED
        BY <4>1, <4>3
    <3>3. CASE Len(ledger[b]) = 0
      <4>1. ledger[b] = << >>
        BY <2>0, <3>3
      <4>2. CreditedSum(b) = 0
        BY <1>1, <4>1, CreditOfFewRows
      <4> QED
        BY <2>0, <2>5, <4>2 DEF Percent
    <3>4. CASE Len(ledger[b]) = 1
      <4>1. 1 \in DOMAIN ledger[b] /\ ledger[b][1] \in Percent
        <5>1. PICK rows \in Seq(Percent) : rows = ledger[b]
          BY <2>0
        <5>2. Len(rows) = 1
          BY <3>4, <5>1
        <5>3. DOMAIN rows = {1} /\ rows[1] \in Percent
          BY <5>2
        <5> QED
          BY <5>1, <5>3
      <4>2. ledger[b][1] <= captured[b]
        BY <1>1, <3>1, <4>1 DEF SettlementsFair
      <4>3. CreditedSum(b) = ledger[b][1]
        BY <1>1, <3>4, CreditOfFewRows
      <4> QED
        BY <2>0, <2>5, <4>1, <4>2, <4>3 DEF Percent
    <3> QED
      BY <3>2, <3>3, <3>4
  <2>6. CreditedSum(b) > captured[b] => HowMany(audit[b], Crediting) > 1
    BY <2>4, <2>5
  <2> QED
    BY <2>1, <2>2, <2>3, <2>6 DEF Charged, HowMany
<1>2. TypeInv /\ MoneyInv /\ CreditsDeserved /\ SettlementsFair => LedgerBackedByCapture
  BY <1>1 DEF LedgerBackedByCapture
<1> QED
  BY <1>2, TypeInvariant, MoneyInvariant, SettlementsInvariant, PTL

---------------------------------------------------------------------------
\* Standing.

\* The state a provider's failure brings a booking to.
DeservingState(kind) ==
  CASE kind = "response_miss" -> "EXPIRED"
    [] kind = "provider_cancel" -> "CANCELLED_BY_PROVIDER"
    [] OTHER -> "NO_SHOW_PROVIDER"

Deserving(kind) == {a \in AuditRow : a.to \in {DeservingState(kind)}}

\* The jobs that will count an event of a kind against the provider of b.
StandingJobs(b, kind) ==
  {job \in Job : /\ job.booking = b
                 /\ job.run \in WithStanding
                 /\ StandingKind(job.event) = kind}

\* Every event counted for b, or still to be counted, has a transition of its own.
StandingDeserved ==
  \A b \in Bookings, kind \in StandingKinds :
    /\ IsFiniteSet(OwedIn(work, StandingJobs(b, kind)))
    /\ HowMany(standing[b], {kind}) + HowManyOwed(work, StandingJobs(b, kind))
         <= HowMany(audit[b], Deserving(kind))

\* A job that has its standing event ahead still had it one effect earlier.
LEMMA StandingJobsClosed ==
  ASSUME NEW b, NEW kind
  PROVE  Closed(StandingJobs(b, kind))
<1> SUFFICES ASSUME NEW job \in SoundJobs, NEW rest \in Job,
                    rest.booking = job.booking, rest.event = job.event,
                    rest.run = Tail(job.run), rest \in StandingJobs(b, kind)
             PROVE  job \in StandingJobs(b, kind)
  BY DEF Closed
<1>1. /\ job \in Job /\ job.run \in Remainders \ {<< >>} /\ job.booking = b
      /\ StandingKind(job.event) = kind
  BY DEF SoundJobs, StandingJobs
<1>2. Tail(job.run) \in WithStanding
  BY DEF StandingJobs
<1>3. << >> \notin WithStanding /\ <<"Split">> \notin WithStanding
  BY DEF WithStanding
<1>4. Head(job.run) \in {"ReleaseAuth", "Capture50", "Capture100", "Split", "RecordStanding"}
  BY <1>1 DEF Remainders, Plans
<1>5. Head(job.run) = "ReleaseAuth" /\ Tail(job.run) = <<"RecordStanding">>
  BY <1>1, <1>2, <1>3, <1>4, RemainderTails
<1>6. job.run = <<"ReleaseAuth", "RecordStanding">>
  <2>1. /\ Tail(<<"ReleaseAuth">>) # <<"RecordStanding">>
        /\ Head(<<"Capture50", "Split">>) # "ReleaseAuth"
        /\ Head(<<"Capture100", "Split">>) # "ReleaseAuth"
        /\ Head(<<"RecordStanding">>) # "ReleaseAuth"
        /\ Head(<<"Split">>) # "ReleaseAuth"
    OBVIOUS
  <2> QED
    BY <1>1, <1>5, <2>1 DEF Remainders, Plans
<1> QED
  BY <1>1, <1>6 DEF StandingJobs, WithStanding

\* A failure of the provider is counted under the kind of the state it leads to.
LEMMA KindIsDeserved ==
  ASSUME NEW event \in StandingEvents
  PROVE  NextState(event) = DeservingState(StandingKind(event))
BY DEF StandingEvents, StandingKind, NextState, DeservingState

\* Every step keeps the standing events of a booking deserved.
LEMMA StandingDeservedStep ==
  ASSUME TypeInv, MoneyInv, PlansSound, StandingDeserved, [Next]_vars
  PROVE  StandingDeserved'
<1> SUFFICES ASSUME NEW b \in Bookings, NEW kind \in StandingKinds
             PROVE  /\ IsFiniteSet(OwedIn(work', StandingJobs(b, kind)))
                    /\ HowMany(standing'[b], {kind}) + HowManyOwed(work', StandingJobs(b, kind))
                         <= HowMany(audit'[b], Deserving(kind))
  BY DEF StandingDeserved
<1>1. PICK W : W = StandingJobs(b, kind)
  OBVIOUS
<1>2. /\ IsFiniteSet(OwedIn(work, W))
      /\ HowMany(standing[b], {kind}) + HowManyOwed(work, W) <= HowMany(audit[b], Deserving(kind))
      /\ standing \in [Bookings -> Seq(StandingKinds)]
  BY <1>1 DEF StandingDeserved, TypeInv, TypeOK, BookingTypeOK
<1>3. Closed(W)
  BY <1>1, StandingJobsClosed
<1>4. /\ IsFiniteSet(OwedIn(work', W))
      /\ \/ /\ HowManyOwed(work', W) <= HowManyOwed(work, W)
            /\ UNCHANGED <<ledger, standing>>
         \/ \E w \in Workers : Pays(w, W)
         \/ /\ HowManyOwed(work', W) <= HowManyOwed(work, W) + 1
            /\ Queues(W)
  BY <1>2, <1>3, DebtMoves
<1>5. /\ HowManyOwed(work, W) \in Nat /\ HowManyOwed(work', W) \in Nat
      /\ HowMany(standing[b], {kind}) \in Nat
  BY <1>2, <1>4, FS_CardinalityType, RowsAreFinite DEF HowManyOwed
<1>6. /\ HowMany(audit[b], Deserving(kind)) \in Nat /\ HowMany(audit'[b], Deserving(kind)) \in Nat
      /\ HowMany(audit[b], Deserving(kind)) <= HowMany(audit'[b], Deserving(kind))
  BY TrailNeverShrinks
<1> DEFINE Goal == HowMany(standing'[b], {kind}) + HowManyOwed(work', W)
                     <= HowMany(audit'[b], Deserving(kind))
<1>7. ASSUME HowManyOwed(work', W) <= HowManyOwed(work, W), standing'[b] = standing[b]
      PROVE  Goal
  BY <1>2, <1>5, <1>6, <1>7
<1>8. ASSUME NEW w \in Workers, Pays(w, W) PROVE Goal
  <2>1. CASE Split(w)
    <3>1. standing' = standing
      BY <2>1 DEF Split
    <3> QED
      BY <1>7, <1>8, <3>1 DEF Pays
  <2>2. CASE RecordStanding(w) /\ Head(work[w]).booking # b
    <3>1. standing'[b] = standing[b]
      BY <1>2, <2>2 DEF RecordStanding
    <3> QED
      BY <1>7, <1>8, <3>1 DEF Pays
  <2>3. CASE RecordStanding(w) /\ Head(work[w]).booking = b
    <3>1. PICK k : k = StandingKind(Head(work[w]).event)
      OBVIOUS
    <3>2. k \in StandingKinds
      BY <3>1, StandingKindType
    <3>3. standing'[b] = Append(standing[b], k)
      BY <1>2, <2>3, <3>1 DEF RecordStanding
    <3>4. /\ k = kind => HowMany(standing'[b], {kind}) = HowMany(standing[b], {kind}) + 1
          /\ k # kind => HowMany(standing'[b], {kind}) = HowMany(standing[b], {kind})
      <4>1. HowMany(standing'[b], {kind})
              = HowMany(standing[b], {kind}) + (IF k \in {kind} THEN 1 ELSE 0)
        BY <1>2, <3>2, <3>3, OneMoreRow
      <4> QED
        BY <1>5, <4>1
    <3>5. CASE k # kind
      BY <1>2, <1>5, <1>6, <1>8, <3>4, <3>5 DEF Pays
    <3>6. CASE k = kind
      <4>1. /\ Head(work[w]) \in SoundJobs /\ Head(Head(work[w]).run) = "RecordStanding"
        BY <2>3, NextEffectSound DEF RecordStanding, MoneyInv
      <4>2. Head(work[w]) \in Job /\ Head(work[w]).run = <<"RecordStanding">>
        BY <4>1 DEF SoundJobs, Remainders, Plans
      <4>3. Head(work[w]) \in W
        BY <1>1, <2>3, <3>1, <3>6, <4>2 DEF StandingJobs, WithStanding
      <4>4. HowManyOwed(work', W) + 1 <= HowManyOwed(work, W)
        BY <1>8, <4>3 DEF Pays
      <4> QED
        BY <1>2, <1>5, <1>6, <3>4, <3>6, <4>4
    <3> QED
      BY <3>5, <3>6
  <2> QED
    BY <1>8, <2>1, <2>2, <2>3 DEF Pays
<1>9. ASSUME HowManyOwed(work', W) <= HowManyOwed(work, W) + 1, Queues(W)
      PROVE  Goal
  <2>0. PICK job \in W : \E remind :
          /\ RowStep(job.booking, NextState(job.event), job.event, remind)
          /\ PlanOf(job.run, job.event)
    BY <1>9 DEF Queues
  <2>1. PICK remind :
          /\ RowStep(job.booking, NextState(job.event), job.event, remind)
          /\ PlanOf(job.run, job.event)
    BY <2>0
  <2>2. /\ job \in Job /\ job.booking = b /\ job.run \in WithStanding
        /\ StandingKind(job.event) = kind
    BY <1>1, <2>1 DEF StandingJobs
  <2>3. NextState(job.event) = DeservingState(kind)
    BY <2>1, <2>2, KindIsDeserved DEF PlanOf
  <2>4. [from |-> state[b], to |-> NextState(job.event), event |-> job.event] \in Deserving(kind)
    BY <2>1, <2>2, <2>3 DEF Deserving, AuditRow, RowStep
  <2>5. HowMany(audit'[b], Deserving(kind)) = HowMany(audit[b], Deserving(kind)) + 1
    BY <2>1, <2>2, <2>4, TrailStep
  <2>6. standing' = standing
    BY <1>9 DEF Queues
  <2> QED
    BY <1>2, <1>5, <1>6, <1>9, <2>5, <2>6
<1>10. Goal
  BY <1>4, <1>7, <1>8, <1>9
<1> QED
  BY <1>1, <1>4, <1>10

---------------------------------------------------------------------------
\* The funnel.

Made == {b \in Bookings : state[b] # "NONE"}

\* The jobs of bookings that were made, claimed or read while they held a slot.
FiledJobs == {job \in Job : job.booking \in Made /\ job.from \in Holding}

\* Finitely many bookings are made; nothing is on file about the others, and
\* what failed was recorded with a state that holds a slot.
OnFile ==
  /\ IsFiniteSet(Made)
  /\ work \in [Workers -> Seq(FiledJobs)]
  /\ \A b \in Bookings :
       /\ alarms[b] # << >> => b \in Made
       /\ \A i \in DOMAIN alarms[b] : alarms[b][i].state \in Holding

\* A step makes at most one booking more.
LEMMA MadeStaysFinite ==
  ASSUME TypeInv, IsFiniteSet(Made), [Next]_vars
  PROVE  IsFiniteSet(Made')
<1>0. state \in [Bookings -> BookingState \cup {"NONE"}]
  BY DEF TypeInv, TypeOK, BookingTypeOK
<1>1. ASSUME NEW b \in Bookings, CreateBooking(b) PROVE IsFiniteSet(Made')
  <2>1. Made' = Made \cup {b}
    BY <1>0, <1>1 DEF CreateBooking, Made
  <2> QED
    BY <2>1, FS_AddElement
<1>2. ASSUME NEW b, NEW to, NEW event, NEW remind, RowStep(b, to, event, remind)
      PROVE  IsFiniteSet(Made')
  <2>1. "NONE" \notin BookingState
    BY DEF BookingState, Holding, Terminal
  <2>2. Made' = Made
    BY <1>0, <1>2, <2>1 DEF RowStep, Made
  <2> QED
    BY <2>2
<1>3. CASE state' = state
  BY <1>3 DEF Made
<1> QED
  BY <1>1, <1>2, <1>3, RowStepCases

\* A job on file stays on file.
LEMMA FiledJobsStay ==
  ASSUME TypeInv, TypeInv', [Next]_vars
  PROVE  FiledJobs \subseteq FiledJobs' /\ Made \subseteq Made'
<1>1. Made \subseteq Made'
  BY BookingsStayMade DEF Made, TypeInv
<1> QED
  BY <1>1 DEF FiledJobs

\* The jobs the workers have left stay on file.
LEMMA FiledJobsStep ==
  ASSUME TypeInv, TypeInv', DecisionsSound, work \in [Workers -> Seq(FiledJobs)], [Next]_vars
  PROVE  (work \in [Workers -> Seq(FiledJobs)])'
<1> DEFINE Goal == work' \in [Workers -> Seq(FiledJobs')]
<1>0. /\ FiledJobs \subseteq FiledJobs' /\ work \in [Workers -> Seq(FiledJobs')]
      /\ Made \subseteq Made'
  <2>1. FiledJobs \subseteq FiledJobs' /\ Made \subseteq Made'
    BY FiledJobsStay
  <2> QED
    BY <2>1
<1>1. ASSUME NEW r \in Requests, Apply(r) PROVE Goal
  <2> DEFINE q == req[r]
  <2>1. PICK job : job = [ booking |-> q.booking, event |-> q.event, from |-> q.seen,
                           run |-> q.run, settled |-> 100, quoted |-> q.quoted ]
    OBVIOUS
  <2>2. q \in DecidedRequests /\ q.pc = "decided"
    BY <1>1, DecidedRequestType DEF Apply, TypeInv, TypeOK
  <2>3. q.seen \in Holding
    BY <2>2 DEF DecisionsSound, EventsTakenIn, Holding
  <2>4. q.booking \in Made
    BY <2>2 DEF TypeInv, RequestedBookingsExist, Made, DecidedRequests
  <2>5. job \in Job /\ job.booking = q.booking /\ job.from = q.seen
    BY <2>1, <2>2 DEF DecidedRequests, Job, Percent, HttpEvents
  <2>6. job \in FiledJobs'
    BY <1>0, <2>3, <2>4, <2>5 DEF FiledJobs
  <2>7. work' = [work EXCEPT ![r] = Owed(job)]
    BY <1>1, <2>1 DEF Apply
  <2>8. Owed(job) \in Seq(FiledJobs')
    BY <2>6 DEF Owed
  <2> QED
    BY <1>0, <2>7, <2>8
<1>2. ASSUME NEW p \in Pollers, NEW b \in Bookings, Claim(p, b) PROVE Goal
  <2> DEFINE event == EventOf(poll[p].phase)
             run == RunEffects(state[b], event, Context(b, event, poll[p].now))
  <2>1. PICK job : job = [ booking |-> b, event |-> event, from |-> state[b],
                           run |-> run, settled |-> 100, quoted |-> "none" ]
    OBVIOUS
  <2>2. state[b] \in Holding /\ event \in BookingEvent /\ run \in Seq(Effect)
    BY <1>2, DueHolds, EventOfType, RunEffectsType DEF Claim, BookingState
  <2>3. work' = [work EXCEPT ![p] = Append(work[p], job)]
    BY <1>2, <2>1 DEF Claim, QueueEffects
  <2> HIDE DEF run, event
  <2>4. job \in Job /\ job.booking = b /\ job.from = state[b]
    BY <2>1, <2>2 DEF Job, Percent, Quotes, BookingState
  <2>5. b \in Made
    BY <2>2 DEF Made, Holding
  <2>6. job \in FiledJobs'
    BY <1>0, <2>2, <2>4, <2>5 DEF FiledJobs
  <2>7. Append(work[p], job) \in Seq(FiledJobs')
    BY <1>0, <2>6 DEF Workers
  <2> QED
    BY <1>0, <2>3, <2>7
<1>3. ASSUME NEW w \in Workers, EffectStep(w) PROVE Goal
  <2>1. PICK e : NextEffect(w, e)
    BY <1>3 DEF EffectStep, ReleaseAuth, ReleaseAuthFails, Capture, CaptureFails, Split,
                RecordStanding, InsertFails
  <2>2. /\ work[w] \in Seq(FiledJobs) /\ work[w] # << >>
        /\ Head(work[w]) \in FiledJobs /\ Tail(work[w]) \in Seq(FiledJobs)
    BY <2>1 DEF NextEffect
  <2>3. Tail(work[w]) \in Seq(FiledJobs')
    BY <1>0, <2>2
  <2>4. PICK job : job = Head(work[w])
    OBVIOUS
  <2>5. job \in Job /\ job.booking \in Made /\ job.from \in Holding /\ job.run # << >>
    BY <2>1, <2>2, <2>4 DEF FiledJobs, NextEffect
  <2>6. ASSUME NEW settled \in Percent, work' = Onward(w, settled) PROVE Goal
    <3>1. PICK rest : rest = [job EXCEPT !.run = Tail(job.run), !.settled = settled]
      OBVIOUS
    <3>2. Tail(job.run) \in Seq(Effect)
      BY <2>5 DEF Job
    <3>3. rest \in Job /\ rest.booking = job.booking /\ rest.from = job.from
      BY <2>5, <3>1, <3>2 DEF Job
    <3>4. rest \in FiledJobs'
      BY <1>0, <2>5, <3>3 DEF FiledJobs
    <3>5. Owed(rest) \in Seq(FiledJobs')
      BY <3>4 DEF Owed
    <3>6. Owed(rest) \o Tail(work[w]) \in Seq(FiledJobs')
      BY <2>3, <3>5
    <3>7. work' = [work EXCEPT ![w] = Owed(rest) \o Tail(work[w])]
      BY <2>4, <2>6, <3>1 DEF Onward
    <3> QED
      BY <1>0, <3>6, <3>7
  <2>7. ASSUME work' = AbandonJob(w) PROVE Goal
    BY <1>0, <2>3, <2>7 DEF AbandonJob
  <2>8. job.settled \in Percent
    BY <2>5 DEF Job
  <2>9. work' = AbandonJob(w) \/ \E settled \in Percent : work' = Onward(w, settled)
    BY <1>3, <2>4, <2>8 DEF EffectStep, ReleaseAuth, ReleaseAuthFails, Capture, CaptureFails,
                            Split, RecordStanding, InsertFails
  <2> QED
    BY <2>6, <2>7, <2>9
<1>4. ASSUME NEW w \in Workers, Crash(w) PROVE Goal
  BY <1>0, <1>4 DEF Crash
<1>5. CASE work' = work
  BY <1>0, <1>5
<1>6. ASSUME NEW r \in Requests, RequestStep(r) PROVE Apply(r) \/ work' = work
  BY <1>6 DEF RequestStep, DiscloseConsequence, Read, Decide, ApplyExcluded
<1>7. ASSUME NEW p \in Pollers, PollerStep(p)
      PROVE  work' = work \/ \E b \in Bookings : Claim(p, b)
  BY <1>7 DEF PollerStep, BeginTick, ClaimFails, ClaimsDone, EffectsDone
<1>8. (\E b \in Bookings : CreateBooking(b)) \/ Tick \/ UNCHANGED vars => work' = work
  BY DEF CreateBooking, Tick, vars
<1> QED
  BY <1>1, <1>2, <1>3, <1>4, <1>5, <1>6, <1>7, <1>8 DEF Next

\* A row about a failure is filed under a booking that was made, with the state
\* in which the row was claimed.
LEMMA AlarmWriters ==
  ASSUME TypeInv, work \in [Workers -> Seq(FiledJobs)], [Next]_vars
  PROVE  \/ alarms' = alarms
         \/ \E b \in Made, a \in AlarmRow :
              /\ a.state \in Holding
              /\ alarms' = [alarms EXCEPT ![b] = Append(@, a)]
<1> DEFINE Filed == \E b \in Made, a \in AlarmRow :
              /\ a.state \in Holding
              /\ alarms' = [alarms EXCEPT ![b] = Append(@, a)]
<1>1. ASSUME NEW p \in Pollers, NEW b \in Bookings, ClaimFails(p, b) PROVE Filed
  <2>1. PICK a : a = [state |-> state[b], event |-> EventOf(poll[p].phase),
                      reason |-> "poller_attempt_failed"]
    OBVIOUS
  <2>2. state[b] \in Holding /\ EventOf(poll[p].phase) \in BookingEvent
    BY <1>1, DueHolds, EventOfType DEF ClaimFails
  <2>3. a \in AlarmRow /\ a.state \in Holding
    BY <2>1, <2>2 DEF AlarmRow, BookingState
  <2>4. b \in Made
    BY <2>2 DEF Made, Holding
  <2>5. alarms' = [alarms EXCEPT ![b] = Append(@, a)]
    BY <1>1, <2>1 DEF ClaimFails
  <2> QED
    BY <2>3, <2>4, <2>5
<1>2. ASSUME NEW w \in Workers, NEW e, NextEffect(w, e), RecordFailure(w)
      PROVE  alarms' = alarms \/ Filed
  <2>1. PICK job : job = Head(work[w])
    OBVIOUS
  <2>2. job \in FiledJobs
    BY <1>2, <2>1 DEF NextEffect
  <2>3. PICK a : a = [state |-> job.from, event |-> job.event, reason |-> "effect_failed"]
    OBVIOUS
  <2>4. a \in AlarmRow /\ a.state \in Holding /\ job.booking \in Made
    BY <2>2, <2>3 DEF FiledJobs, AlarmRow, Job
  <2>5. alarms' = alarms \/ alarms' = [alarms EXCEPT ![job.booking] = Append(@, a)]
    BY <1>2, <2>1, <2>3 DEF RecordFailure
  <2> QED
    BY <2>4, <2>5
<1>3. ASSUME NEW w \in Workers, EffectStep(w)
      PROVE  alarms' = alarms \/ \E e : NextEffect(w, e) /\ RecordFailure(w)
  BY <1>3 DEF EffectStep, ReleaseAuth, ReleaseAuthFails, Capture, CaptureFails, Split,
              RecordStanding, InsertFails
<1>4. ASSUME NEW p \in Pollers, PollerStep(p)
      PROVE  alarms' = alarms \/ \E b \in Bookings : ClaimFails(p, b)
  BY <1>4 DEF PollerStep, BeginTick, Claim, ClaimsDone, EffectsDone
<1>5. ASSUME NEW r \in Requests, RequestStep(r) PROVE alarms' = alarms
  BY <1>5 DEF RequestStep, DiscloseConsequence, Read, Decide, Apply, ApplyExcluded
<1>6. /\ (\E b \in Bookings : CreateBooking(b)) \/ Tick \/ UNCHANGED vars => alarms' = alarms
      /\ (\E w \in Workers : Crash(w)) => alarms' = alarms
  BY DEF CreateBooking, Tick, vars, Crash
<1> HIDE DEF Filed
<1>7. alarms' = alarms \/ Filed
  BY <1>1, <1>2, <1>3, <1>4, <1>5, <1>6 DEF Next
<1> QED
  BY <1>7 DEF Filed

\* Every step keeps the files in order.
LEMMA OnFileStep ==
  ASSUME TypeInv, TypeInv', DecisionsSound, OnFile, [Next]_vars
  PROVE  OnFile'
<1>0. /\ alarms \in [Bookings -> Seq(AlarmRow)] /\ Made \subseteq Made'
      /\ work \in [Workers -> Seq(FiledJobs)]
  BY FiledJobsStay DEF OnFile, TypeInv, TypeOK, BookingTypeOK
<1>1. IsFiniteSet(Made')
  BY MadeStaysFinite DEF OnFile
<1>2. (work \in [Workers -> Seq(FiledJobs)])'
  BY FiledJobsStep DEF OnFile
<1>3. ASSUME NEW b \in Bookings
      PROVE  /\ alarms'[b] # << >> => b \in Made'
             /\ \A i \in DOMAIN alarms'[b] : alarms'[b][i].state \in Holding
  <2>1. CASE alarms'[b] = alarms[b]
    BY <1>0, <2>1 DEF OnFile
  <2>2. ASSUME NEW c \in Made, NEW a \in AlarmRow, a.state \in Holding,
               alarms' = [alarms EXCEPT ![c] = Append(@, a)], alarms'[b] # alarms[b]
        PROVE  /\ alarms'[b] # << >> => b \in Made'
               /\ \A i \in DOMAIN alarms'[b] : alarms'[b][i].state \in Holding
    <3>1. c = b /\ alarms'[b] = Append(alarms[b], a)
      BY <1>0, <2>2
    <3>2. \A i \in DOMAIN Append(alarms[b], a) :
            Append(alarms[b], a)[i] = a \/ (i \in DOMAIN alarms[b]
                                            /\ Append(alarms[b], a)[i] = alarms[b][i])
      <4>1. alarms[b] \in Seq(AlarmRow)
        BY <1>0
      <4> QED
        BY <4>1
    <3> QED
      BY <1>0, <2>2, <3>1, <3>2 DEF OnFile
  <2> QED
    BY <1>0, <2>1, <2>2, AlarmWriters
<1> QED
  BY <1>1, <1>2, <1>3 DEF OnFile

\* The trail of b has a row to a state.
Came(b, to) == \E i \in DOMAIN audit[b] : audit[b][i].to = to

\* Whoever has seen a booking confirmed, and whoever finds it completed, finds
\* the row of its confirmation.
ConfirmedFirst ==
  /\ \A r \in Requests :
       req[r].pc \in {"read", "decided"} /\ req[r].seen = "CONFIRMED"
         => Came(req[r].booking, "CONFIRMED")
  /\ \A b \in Bookings : Came(b, "COMPLETED") => Came(b, "CONFIRMED")

\* The trail explains a confirmed booking.
LEMMA ConfirmedCame ==
  ASSUME TypeInv, AuditTrailExplainsState, NEW b \in Bookings, state[b] = "CONFIRMED"
  PROVE  Came(b, "CONFIRMED")
<1>1. audit[b] # << >> /\ audit[b][Len(audit[b])].to = "CONFIRMED"
  BY DEF AuditTrailExplainsState
<1>2. audit[b] \in Seq(AuditRow)
  BY DEF TypeInv, TypeOK, BookingTypeOK
<1>3. Len(audit[b]) \in DOMAIN audit[b]
  BY <1>1, <1>2
<1> QED
  BY <1>1, <1>3 DEF Came

\* A row step adds a row to the state it leads to, and takes none away.
LEMMA CameStays ==
  ASSUME TypeInv, NEW b \in Bookings, NEW c, NEW to, NEW event, NEW remind,
         RowStep(c, to, event, remind), NEW s
  PROVE  /\ Came(b, s) => Came(b, s)'
         /\ Came(b, s)' => Came(b, s) \/ (c = b /\ to = s)
<1>1. audit[b] \in Seq(AuditRow) /\ audit \in [Bookings -> Seq(AuditRow)]
  BY DEF TypeInv, TypeOK, BookingTypeOK
<1>2. CASE c # b
  BY <1>1, <1>2 DEF RowStep, Came
<1>3. CASE c = b
  <2>1. PICK row : row = [from |-> state[c], to |-> to, event |-> event]
    OBVIOUS
  <2>2. row.to = to
    BY <2>1
  <2>3. audit'[b] = Append(audit[b], row)
    BY <1>1, <1>3, <2>1 DEF RowStep
  <2>4. /\ \A i \in DOMAIN audit[b] : /\ i \in DOMAIN Append(audit[b], row)
                                      /\ Append(audit[b], row)[i] = audit[b][i]
        /\ \A i \in DOMAIN Append(audit[b], row) :
             \/ Append(audit[b], row)[i] = row
             \/ i \in DOMAIN audit[b] /\ Append(audit[b], row)[i] = audit[b][i]
    BY <1>1
  <2> QED
    BY <1>3, <2>2, <2>3, <2>4 DEF Came
<1> QED
  BY <1>2, <1>3

\* No step takes a row from a trail.
LEMMA CameNeverGoes ==
  ASSUME TypeInv, [Next]_vars, NEW b \in Bookings, NEW s, Came(b, s)
  PROVE  Came(b, s)'
<1>1. (\E c \in Bookings : CreateBooking(c)) => audit' = audit
  BY DEF CreateBooking
<1>2. audit' = audit => Came(b, s)'
  BY DEF Came
<1> QED
  BY <1>1, <1>2, CameStays, RowStepCases

\* Only a booking seen confirmed completes.
LEMMA CompletionNeedsConfirmation ==
  ASSUME NEW s, NEW event \in EventsTakenIn(s), NextState(event) = "COMPLETED"
  PROVE  s = "CONFIRMED"
BY DEF EventsTakenIn, NextState, PendingEvents

\* Every step keeps confirmation ahead of completion.
LEMMA ConfirmedFirstStep ==
  ASSUME TypeInv, TypeInv', DecisionsSound, AuditTrailExplainsState, ConfirmedFirst,
         [Next]_vars
  PROVE  ConfirmedFirst'
<1>0. req \in [Requests -> {Idle, Over} \cup ReadRequests \cup DecidedRequests]
  BY DEF TypeInv, TypeOK, WorkerTypeOK
<1>1. ASSUME NEW r \in Requests, req'[r].pc \in {"read", "decided"},
             req'[r].seen = "CONFIRMED"
      PROVE  Came(req[r].booking, "CONFIRMED")'
  <2>1. req'[r].booking \in Bookings /\ Came(req'[r].booking, "CONFIRMED")
    <3>1. CASE req'[r] = req[r]
      BY <1>0, <1>1, <3>1, ReadRequestType, DecidedRequestType
         DEF TypeInv, TypeOK, ConfirmedFirst, ReadRequests, DecidedRequests
    <3>2. ASSUME NEW b \in Bookings, NEW event \in HttpEvents, Read(r, b, event)
          PROVE  req'[r].booking \in Bookings /\ Came(req'[r].booking, "CONFIRMED")
      <4>1. req'[r].booking = b /\ req'[r].seen = state[b]
        BY <1>0, <3>2 DEF Read
      <4> QED
        BY <1>1, <4>1, ConfirmedCame
    <3>3. CASE Decide(r)
      <4>1. req[r] \in ReadRequests /\ req[r].pc = "read"
        BY <3>3, ReadRequestType DEF Decide, TypeInv, TypeOK
      <4>2. req'[r].booking = req[r].booking /\ req'[r].seen = req[r].seen
        BY <1>0, <1>1, <3>3 DEF Decide, Over
      <4> QED
        BY <1>1, <4>1, <4>2 DEF ReadRequests, ConfirmedFirst
    <3>4. req'[r] # Over
      BY <1>1 DEF Over
    <3> QED
      BY <1>0, <3>1, <3>2, <3>3, <3>4, RequestWriters
  <2>2. PICK b \in Bookings : b = req'[r].booking /\ Came(b, "CONFIRMED")
    BY <2>1 DEF Came
  <2>3. Came(b, "CONFIRMED")'
    BY <2>2, CameNeverGoes
  <2> QED
    BY <2>2, <2>3 DEF Came
<1>2. ASSUME NEW b \in Bookings, Came(b, "COMPLETED")'
      PROVE  Came(b, "CONFIRMED")'
  <2>1. Came(b, "COMPLETED") => Came(b, "CONFIRMED")'
    BY CameNeverGoes DEF ConfirmedFirst
  <2>2. ASSUME NEW r \in Requests, Apply(r) PROVE Came(b, "CONFIRMED")'
    <3> DEFINE q == req[r]
    <3>1. q \in DecidedRequests /\ q.pc = "decided"
      BY <2>2, DecidedRequestType DEF Apply, TypeInv, TypeOK
    <3>2. RowStep(q.booking, NextState(q.event), q.event, q.remind)
      BY <2>2, ApplyIsRowStep
    <3>3. CASE q.booking = b /\ NextState(q.event) = "COMPLETED"
      <4>1. q.seen = "CONFIRMED"
        BY <3>1, <3>3, CompletionNeedsConfirmation DEF DecisionsSound
      <4> QED
        BY <3>1, <3>3, <4>1, CameNeverGoes DEF ConfirmedFirst
    <3>4. CASE ~(q.booking = b /\ NextState(q.event) = "COMPLETED")
      <4>1. Came(b, "COMPLETED")
        BY <1>2, <3>2, <3>4, CameStays
      <4> QED
        BY <2>1, <4>1
    <3> QED
      BY <3>3, <3>4
  <2>3. ASSUME NEW p \in Pollers, NEW c \in Bookings, Claim(p, c) PROVE Came(b, "CONFIRMED")'
    <3> DEFINE event == EventOf(poll[p].phase)
    <3>1. RowStep(c, NextState(event), event, FALSE)
      BY <2>3, ClaimIsRowStep
    <3>2. CASE c = b /\ NextState(event) = "COMPLETED"
      <4>1. event \in EventsTakenIn(state[c]) /\ state[c] = "CONFIRMED"
        <5>1. Permits(state[c], event, Context(c, event, poll[p].now))
          BY <2>3 DEF Claim
        <5>2. event \in EventsTakenIn(state[c])
          BY <5>1 DEF Permits, Verdict
        <5> QED
          BY <3>2, <5>2, CompletionNeedsConfirmation
      <4> QED
        BY <3>2, <4>1, ConfirmedCame, CameNeverGoes
    <3>3. CASE ~(c = b /\ NextState(event) = "COMPLETED")
      <4>1. Came(b, "COMPLETED")
        BY <1>2, <3>1, <3>3, CameStays
      <4> QED
        BY <2>1, <4>1
    <3> QED
      BY <3>2, <3>3
  <2>4. CASE audit' = audit
    <3>1. Came(b, "COMPLETED")
      BY <1>2, <2>4 DEF Came
    <3> QED
      BY <2>1, <3>1
  <2>5. (\E c \in Bookings : CreateBooking(c)) => audit' = audit
    BY DEF CreateBooking
  <2> QED
    BY <2>2, <2>3, <2>4, <2>5, RowWriters
<1> QED
  BY <1>1, <1>2 DEF ConfirmedFirst, Came

---------------------------------------------------------------------------
\* The pages.  The terms of their two sums, of a provider.
EventsOf(p, kind) ==
  [b \in BookingsAt(p) |-> Cardinality({i \in DOMAIN standing[b] : standing[b][i] = kind})]
DeservedOf(p, to) ==
  [b \in BookingsAt(p) |-> Cardinality(TransitionsTo(b, {to}))]

\* The folds of the pages are sums.
LEMMA EventsIsSum == \A p, kind : Events(p, kind) = Sum(EventsOf(p, kind), BookingsAt(p))
  <1> SUFFICES ASSUME NEW p, NEW kind
               PROVE  Events(p, kind) = Sum(EventsOf(p, kind), BookingsAt(p))
    OBVIOUS
  <1> DEFINE S == BookingsAt(p)
             F == EventsOf(p, kind)
  <1>1. \A s \in SUBSET S : s # {} => Chosen(s) \in S
    BY DEF Chosen
  <1>2. \A g : [s \in SUBSET S |-> IF s = {} THEN 0 ELSE F[Chosen(s)] + g[s \ {Chosen(s)}]]
             = [s \in SUBSET S |-> IF s = {} THEN 0
                   ELSE Cardinality({i \in DOMAIN standing[Chosen(s)] : standing[Chosen(s)][i] = kind}) + g[s \ {Chosen(s)}]]
    BY <1>1 DEF EventsOf
  <1>3. Sum(F, S) = (CHOOSE g : g = [s \in SUBSET S |->
                        IF s = {} THEN 0 ELSE F[Chosen(s)] + g[s \ {Chosen(s)}]])[S]
    BY DEF Sum, Tally, IsTally
  <1>4. Events(p, kind) = (CHOOSE g : g = [s \in SUBSET S |->
             IF s = {} THEN 0 ELSE Cardinality({i \in DOMAIN standing[Chosen(s)] : standing[Chosen(s)][i] = kind}) + g[s \ {Chosen(s)}]])[S]
    BY DEF Events, MapThenSumSet, MapThenFoldSet, Chosen
  <1>5. (CHOOSE g : g = [s \in SUBSET S |->
                    IF s = {} THEN 0 ELSE F[Chosen(s)] + g[s \ {Chosen(s)}]])
          = (CHOOSE g : g = [s \in SUBSET S |->
                    IF s = {} THEN 0 ELSE Cardinality({i \in DOMAIN standing[Chosen(s)] : standing[Chosen(s)][i] = kind}) + g[s \ {Chosen(s)}]])
    BY <1>2
  <1> QED
    BY <1>3, <1>4, <1>5

\* The same for the transitions that deserve them.
LEMMA DeservedIsSum == \A p, to : Deserved(p, to) = Sum(DeservedOf(p, to), BookingsAt(p))
  <1> SUFFICES ASSUME NEW p, NEW to
               PROVE  Deserved(p, to) = Sum(DeservedOf(p, to), BookingsAt(p))
    OBVIOUS
  <1> DEFINE S == BookingsAt(p)
             F == DeservedOf(p, to)
  <1>1. \A s \in SUBSET S : s # {} => Chosen(s) \in S
    BY DEF Chosen
  <1>2. \A g : [s \in SUBSET S |-> IF s = {} THEN 0 ELSE F[Chosen(s)] + g[s \ {Chosen(s)}]]
             = [s \in SUBSET S |-> IF s = {} THEN 0
                   ELSE Cardinality(TransitionsTo(Chosen(s), {to})) + g[s \ {Chosen(s)}]]
    BY <1>1 DEF DeservedOf
  <1>3. Sum(F, S) = (CHOOSE g : g = [s \in SUBSET S |->
                        IF s = {} THEN 0 ELSE F[Chosen(s)] + g[s \ {Chosen(s)}]])[S]
    BY DEF Sum, Tally, IsTally
  <1>4. Deserved(p, to) = (CHOOSE g : g = [s \in SUBSET S |->
             IF s = {} THEN 0 ELSE Cardinality(TransitionsTo(Chosen(s), {to})) + g[s \ {Chosen(s)}]])[S]
    BY DEF Deserved, MapThenSumSet, MapThenFoldSet, Chosen
  <1>5. (CHOOSE g : g = [s \in SUBSET S |->
                    IF s = {} THEN 0 ELSE F[Chosen(s)] + g[s \ {Chosen(s)}]])
          = (CHOOSE g : g = [s \in SUBSET S |->
                    IF s = {} THEN 0 ELSE Cardinality(TransitionsTo(Chosen(s), {to})) + g[s \ {Chosen(s)}]])
    BY <1>2
  <1> QED
    BY <1>3, <1>4, <1>5

\* No page counts more events of a kind than transitions that deserve one.
LEMMA EventsAreDeserved ==
  ASSUME TypeInv, StandingDeserved, IsFiniteSet(Made), NEW p, NEW kind \in StandingKinds
  PROVE  /\ Events(p, kind) \in Int /\ Deserved(p, DeservingState(kind)) \in Int
         /\ Events(p, kind) <= Deserved(p, DeservingState(kind))
<1> DEFINE S == BookingsAt(p)
           F == EventsOf(p, kind)
           H == DeservedOf(p, DeservingState(kind))
<1>1. IsFiniteSet(S)
  <2>1. S \in SUBSET Made
    BY DEF BookingsAt, Made
  <2> QED
    BY <2>1, FS_Subset
<1>2. ASSUME NEW b \in S PROVE F[b] \in Int /\ H[b] \in Int /\ F[b] <= H[b]
  <2>1. b \in Bookings /\ standing[b] \in Seq(StandingKinds) /\ audit[b] \in Seq(AuditRow)
    BY DEF BookingsAt, TypeInv, TypeOK, BookingTypeOK
  <2>2. F[b] = HowMany(standing[b], {kind})
    BY DEF EventsOf, HowMany, RowsIn
  <2>3. H[b] = HowMany(audit[b], Deserving(kind))
    <3>1. TransitionsTo(b, {DeservingState(kind)}) = RowsIn(audit[b], Deserving(kind))
      BY <2>1 DEF TransitionsTo, RowsIn, Deserving
    <3> QED
      BY <3>1 DEF DeservedOf, HowMany
  <2>4. /\ IsFiniteSet(OwedIn(work, StandingJobs(b, kind)))
        /\ HowMany(standing[b], {kind}) + HowManyOwed(work, StandingJobs(b, kind))
             <= HowMany(audit[b], Deserving(kind))
    BY <2>1 DEF StandingDeserved
  <2>5. /\ HowManyOwed(work, StandingJobs(b, kind)) \in Nat
        /\ HowMany(standing[b], {kind}) \in Nat /\ HowMany(audit[b], Deserving(kind)) \in Nat
    BY <2>1, <2>4, FS_CardinalityType, RowsAreFinite DEF HowManyOwed
  <2>6. HowMany(standing[b], {kind}) <= HowMany(audit[b], Deserving(kind))
    BY <2>4, <2>5
  <2> QED
    BY <2>2, <2>3, <2>5, <2>6
<1> HIDE DEF F, H, S
<1>3. Sum(F, S) <= Sum(H, S) /\ Sum(F, S) \in Int /\ Sum(H, S) \in Int
  BY <1>1, <1>2, SumsCompare, SumIsInt
<1> QED
  BY <1>3, EventsIsSum, DeservedIsSum DEF F, H, S

\* The funnel counts within the bookings made, and completions within
\* confirmations.
LEMMA FunnelNarrows ==
  ASSUME TypeInv, AuditTrailExplainsState, OnFile, ConfirmedFirst
  PROVE  /\ FunnelStats.completed <= FunnelStats.confirmed
         /\ FunnelStats.confirmed <= FunnelStats.created
         /\ FunnelStats.declined <= FunnelStats.created
         /\ FunnelStats.expired <= FunnelStats.created
<1>1. \A to : Reached(to) \subseteq Made
  <2> SUFFICES ASSUME NEW to, NEW b \in Reached(to), state[b] = "NONE" PROVE FALSE
    BY DEF Made, Reached
  <2>1. b \in Bookings
    BY DEF Reached
  <2>2. audit[b] = << >> /\ alarms[b] = << >>
    BY <2>1, NoTrailBeforeCreation DEF TypeInv, OnFile, Made
  <2> QED
    BY <2>2 DEF Reached
<1>2. Reached("COMPLETED") \subseteq Reached("CONFIRMED")
  <2> SUFFICES ASSUME NEW b \in Reached("COMPLETED") PROVE b \in Reached("CONFIRMED")
    OBVIOUS
  <2>1. b \in Bookings /\ ~ \E i \in DOMAIN alarms[b] : alarms[b][i].state = "COMPLETED"
    BY DEF Reached, OnFile, Holding
  <2>2. Came(b, "COMPLETED")
    BY <2>1 DEF Reached, Came
  <2> QED
    BY <2>1, <2>2 DEF ConfirmedFirst, Came, Reached
<1>3. IsFiniteSet(Made) /\ \A to : IsFiniteSet(Reached(to))
  BY <1>1, FS_Subset DEF OnFile
<1>4. /\ Cardinality(Reached("COMPLETED")) <= Cardinality(Reached("CONFIRMED"))
      /\ \A to : Cardinality(Reached(to)) <= Cardinality(Made)
  BY <1>1, <1>2, <1>3, FS_Subset
<1>5. /\ FunnelStats.created = Cardinality(Made)
      /\ FunnelStats.confirmed = Cardinality(Reached("CONFIRMED"))
      /\ FunnelStats.completed = Cardinality(Reached("COMPLETED"))
      /\ FunnelStats.declined = Cardinality(Reached("DECLINED"))
      /\ FunnelStats.expired = Cardinality(Reached("EXPIRED"))
  BY DEF FunnelStats, Made
<1> QED
  BY <1>4, <1>5

\* What the pages rest on holds throughout.
PagesInv == StandingDeserved /\ OnFile /\ ConfirmedFirst

LEMMA PagesInvariant == Spec => []PagesInv
<1>1. Init => PagesInv
  <2> SUFFICES ASSUME Init PROVE PagesInv
    OBVIOUS
  <2>1. ASSUME NEW b \in Bookings, NEW kind \in StandingKinds
        PROVE  /\ IsFiniteSet(OwedIn(work, StandingJobs(b, kind)))
               /\ HowMany(standing[b], {kind}) + HowManyOwed(work, StandingJobs(b, kind))
                    <= HowMany(audit[b], Deserving(kind))
    <3>1. standing[b] = << >> /\ audit[b] = << >>
      BY DEF Init
    <3>2. HowMany(<< >>, {kind}) = 0
      <4>1. RowsIn(<< >>, {kind}) = {}
        BY DEF RowsIn
      <4> QED
        BY <4>1, FS_EmptySet DEF HowMany
    <3>3. HowMany(audit[b], Deserving(kind)) \in Nat
      <4>1. audit[b] \in Seq(AuditRow)
        BY <3>1
      <4> QED
        BY <4>1, RowsAreFinite
    <3> QED
      BY <3>1, <3>2, <3>3, NothingOwed
  <2>2. Made = {} /\ IsFiniteSet({})
    BY FS_EmptySet DEF Init, Made
  <2>3. OnFile
    BY <2>2 DEF Init, OnFile
  <2>4. ConfirmedFirst
    BY DEF Init, ConfirmedFirst, Came, Idle
  <2> QED
    BY <2>1, <2>3, <2>4 DEF PagesInv, StandingDeserved
<1>2. /\ TypeInv /\ TypeInv' /\ MoneyInv /\ PlansSound /\ DecisionsSound
      /\ AuditTrailExplainsState /\ PagesInv /\ [Next]_vars
      => PagesInv'
  BY StandingDeservedStep, OnFileStep, ConfirmedFirstStep DEF PagesInv
<1> QED
  BY <1>1, <1>2, TypeInvariant, MoneyInvariant, PlansAreSound, DecisionsAreSound,
     AuditTrailAlwaysExplains, PTL DEF Spec

\* OPS-004, OPS-006: what the operators' pages say of a provider has happened.
\* Every standing event counted has a transition of its own that deserves it, of
\* the right kind, and so has a flag; and the funnel narrows, even over the rows
\* that failed attempts leave.
THEOREM PagesSayWhatHappened == Spec => []PagesAreDeserved
<1>1. TypeInv /\ AuditTrailExplainsState /\ PagesInv => PagesAreDeserved
  <2> SUFFICES ASSUME TypeInv, AuditTrailExplainsState, PagesInv
               PROVE  PagesAreDeserved
    OBVIOUS
  <2>1. ASSUME NEW b \in Bookings
        PROVE  LET p == ProviderOf[b]
                   stats == StandingStats(p)
               IN  /\ stats.responseMissCount <= Deserved(p, "EXPIRED")
                   /\ stats.noShowCount <= Deserved(p, "NO_SHOW_PROVIDER")
                   /\ stats.cancellationCount <= Deserved(p, "CANCELLED_BY_PROVIDER")
                   /\ Flagged(p) => Deserved(p, "CANCELLED_BY_PROVIDER") >= CancellationThreshold
    <3>1. PICK p : p = ProviderOf[b]
      OBVIOUS
    <3>2. /\ DeservingState("response_miss") = "EXPIRED"
          /\ DeservingState("provider_no_show") = "NO_SHOW_PROVIDER"
          /\ DeservingState("provider_cancel") = "CANCELLED_BY_PROVIDER"
          /\ {"response_miss", "provider_no_show", "provider_cancel"} \subseteq StandingKinds
      BY DEF DeservingState, StandingKinds
    <3>3. /\ StandingStats(p).responseMissCount = Events(p, "response_miss")
          /\ StandingStats(p).noShowCount = Events(p, "provider_no_show")
          /\ StandingStats(p).cancellationCount = Events(p, "provider_cancel")
      BY DEF StandingStats
    <3>4. /\ Events(p, "response_miss") <= Deserved(p, "EXPIRED")
          /\ Events(p, "provider_no_show") <= Deserved(p, "NO_SHOW_PROVIDER")
          /\ Events(p, "provider_cancel") <= Deserved(p, "CANCELLED_BY_PROVIDER")
          /\ Events(p, "provider_cancel") \in Int
          /\ Deserved(p, "CANCELLED_BY_PROVIDER") \in Int
      BY <3>2, EventsAreDeserved DEF PagesInv, OnFile
    <3>5. Flagged(p) => Deserved(p, "CANCELLED_BY_PROVIDER") >= CancellationThreshold
      BY <3>3, <3>4, ThresholdIsPositive DEF Flagged
    <3> QED
      BY <3>1, <3>3, <3>4, <3>5
  <2>2. /\ FunnelStats.completed <= FunnelStats.confirmed
        /\ FunnelStats.confirmed <= FunnelStats.created
        /\ FunnelStats.declined <= FunnelStats.created
        /\ FunnelStats.expired <= FunnelStats.created
    BY FunnelNarrows DEF PagesInv
  <2> QED
    BY <2>1, <2>2 DEF PagesAreDeserved
<1> QED
  BY <1>1, TypeInvariant, AuditTrailAlwaysExplains, PagesInvariant, PTL
=============================================================================
