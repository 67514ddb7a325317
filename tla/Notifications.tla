---------------------------- MODULE Notifications ---------------------------
(***************************************************************************)
(* What becomes of the outbox rows and reminder rows of bookings: the      *)
(* dispatchers that claim outbox rows one by one and mail both parties     *)
(* (libs/shared/events/src/outbox.ts, apps/api/src/notification-           *)
(* dispatcher.ts, libs/services/notifications/src/notification-service.ts, *)
(* channel.ts), and the reminder phase of the due-work poller              *)
(* (apps/api/src/due-work-poller.ts, sendDueReminders).                    *)
(*                                                                         *)
(* A dispatcher holds the row lock of the row it is mailing for; a mail is *)
(* a step of its own, and so is the commit that marks the row.  Bookings   *)
(* move as BookingMachine says; what a mail says is left out, but for the  *)
(* transition it is about and whom it goes to.                             *)
(***************************************************************************)
EXTENDS BookingMachine, Sequences, FiniteSets

CONSTANTS
    Bookings,
    Dispatchers,   \* notification dispatchers, one per API process
    Pollers,       \* due-work pollers, likewise
    Limit,         \* rows a tick handles at most (50)
    MaxFaults      \* bound: mails refused or hung, database errors, crashes

ASSUME LimitIsPositive == Limit \in Nat \ {0}
ASSUME FaultsAreBounded == MaxFaults \in Nat

VARIABLES
    state,      \* bookings.state
    outbox,     \* booking.outbox, in the order of created_at
    mailed,     \* how often each row has been mailed to each party
    reminder,   \* booking.reminders: none, waiting, due or sent
    reminded,   \* how often each party has been reminded
    disp,       \* where each dispatcher is
    poll,       \* where each poller is in its reminder phase
    faults

vars == <<state, outbox, mailed, reminder, reminded, disp, poll, faults>>

Parties == {"customer", "provider"}
NoEvent == "created"

Row == [ booking : Bookings, to : BookingState, event : BookingEvent \cup {NoEvent},
         dispatched : BOOLEAN, attempts : Nat ]

Idle == [pc |-> "idle"]
NoMail == [party \in Parties |-> 0]

\* Mutation: nobody writes to the customer of a declined request.
MailsWithoutDecline(to) ==
    IF to = "DECLINED" THEN << >> ELSE <<"customer", "provider">>

\* handleBookingStateChanged: whom a transition is mailed to, in this order.
MailsFor(to) ==
    IF to = "DECLINED" THEN <<"customer">> ELSE <<"customer", "provider">>

---------------------------------------------------------------------------
Init ==
    /\ state = [b \in Bookings |-> "NONE"]
    /\ outbox = << >>
    /\ mailed = << >>
    /\ reminder = [b \in Bookings |-> "none"]
    /\ reminded = [b \in Bookings |-> NoMail]
    /\ disp = [d \in Dispatchers |-> Idle]
    /\ poll = [q \in Pollers |-> Idle]
    /\ faults = 0

Strike == faults < MaxFaults /\ faults' = faults + 1

Announce(b, to, event) ==
    /\ outbox' = Append(outbox, [ booking |-> b, to |-> to, event |-> event,
                                  dispatched |-> FALSE, attempts |-> 0 ])
    /\ mailed' = Append(mailed, NoMail)

Create(b) ==
    /\ state[b] = "NONE"
    /\ state' = [state EXCEPT ![b] = "PENDING"]
    /\ Announce(b, "PENDING", NoEvent)
    /\ UNCHANGED <<reminder, reminded, disp, poll, faults>>

\* applyTransition: the row, its outbox row and its reminder in one step.
Transition(b, event) ==
    /\ event \in EventsTakenIn(state[b])
    /\ state' = [state EXCEPT ![b] = NextState(event)]
    /\ Announce(b, NextState(event), event)
    /\ \/ /\ event = "ProviderAccepts"
          /\ \E r \in {"none", "waiting"} : reminder' = [reminder EXCEPT ![b] = r]
       \/ /\ event # "ProviderAccepts"
          /\ reminder' = [reminder EXCEPT ![b] = IF @ = "sent" THEN @ ELSE "none"]
    /\ UNCHANGED <<reminded, disp, poll, faults>>

---------------------------------------------------------------------------
(* A dispatcher's tick.                                                    *)

Begin(d) ==
    /\ disp[d] = Idle
    /\ disp' = [disp EXCEPT ![d] = [pc |-> "claiming", done |-> 0]]
    /\ UNCHANGED <<state, outbox, mailed, reminder, reminded, poll, faults>>

\* Mutation: the lock is let go once the row has been selected.
NoneLocked(d) == {}

\* The rows locked by the handlers of other dispatchers.
Locked(d) == {disp[o].row : o \in {e \in Dispatchers \ {d} :
                                     disp[e].pc \in {"mailing", "marking", "hung"}}}

\* Mutation: a row that has failed once is not claimed again.
FreshOnly(d) ==
    {i \in DOMAIN outbox : ~outbox[i].dispatched /\ outbox[i].attempts = 0} \ Locked(d)

\* The rows the claim may take; it takes the oldest.
Claimable(d) == {i \in DOMAIN outbox : ~outbox[i].dispatched} \ Locked(d)

Claim(d) ==
    /\ disp[d].pc = "claiming"
    /\ IF Claimable(d) = {} \/ disp[d].done = Limit
       THEN disp' = [disp EXCEPT ![d] = Idle]
       ELSE LET i == CHOOSE i \in Claimable(d) : \A j \in Claimable(d) : i <= j
            IN disp' = [disp EXCEPT ![d] =
                   [ pc |-> "mailing", done |-> disp[d].done, row |-> i,
                     left |-> MailsFor(outbox[i].to) ]]
    /\ UNCHANGED <<state, outbox, mailed, reminder, reminded, poll, faults>>

Mail(d) ==
    /\ disp[d].pc = "mailing"
    /\ disp[d].left # << >>
    /\ mailed' = [mailed EXCEPT ![disp[d].row][Head(disp[d].left)] = @ + 1]
    /\ disp' = [disp EXCEPT ![d].left = Tail(@)]
    /\ UNCHANGED <<state, outbox, reminder, reminded, poll, faults>>

Handled(d) == [pc |-> "claiming", done |-> disp[d].done + 1]

MarkDispatched(d) ==
    /\ disp[d].pc = "mailing"
    /\ disp[d].left = << >>
    /\ outbox' = [outbox EXCEPT ![disp[d].row].dispatched = TRUE]
    /\ disp' = [disp EXCEPT ![d] = Handled(d)]
    /\ UNCHANGED <<state, mailed, reminder, reminded, poll, faults>>

\* The channel refuses a mail, perhaps after it has taken it: the attempt is
\* counted, and the tick goes on with the oldest row again.
MailFails(d) ==
    /\ disp[d].pc = "mailing"
    /\ disp[d].left # << >>
    /\ Strike
    /\ \/ UNCHANGED mailed
       \/ mailed' = [mailed EXCEPT ![disp[d].row][Head(disp[d].left)] = @ + 1]
    /\ outbox' = [outbox EXCEPT ![disp[d].row].attempts = @ + 1]
    /\ disp' = [disp EXCEPT ![d] = Handled(d)]
    /\ UNCHANGED <<state, reminder, reminded, poll>>

\* The peer closes without an error: smtpExchange never settles, and the
\* dispatcher waits with its row locked until the process is restarted.
MailHangs(d) ==
    /\ disp[d].pc = "mailing"
    /\ disp[d].left # << >>
    /\ Strike
    /\ disp' = [disp EXCEPT ![d].pc = "hung"]
    /\ UNCHANGED <<state, outbox, mailed, reminder, reminded, poll>>

\* A query of the tick fails: ROLLBACK, and the tick is over; its finally
\* arms the timer all the same.
TickFails(d) ==
    /\ disp[d].pc \in {"claiming", "mailing"}
    /\ Strike
    /\ disp' = [disp EXCEPT ![d] = Idle]
    /\ UNCHANGED <<state, outbox, mailed, reminder, reminded, poll>>

\* The process dies and another takes its place; the database lets the lock go.
Restart(d) ==
    /\ disp[d] # Idle
    /\ Strike
    /\ disp' = [disp EXCEPT ![d] = Idle]
    /\ UNCHANGED <<state, outbox, mailed, reminder, reminded, poll>>

---------------------------------------------------------------------------
(* Reminders.                                                              *)

\* remind_at passes.
ReminderDue(b) ==
    /\ reminder[b] = "waiting"
    /\ reminder' = [reminder EXCEPT ![b] = "due"]
    /\ UNCHANGED <<state, outbox, mailed, reminded, disp, poll, faults>>

BeginReminders(q) ==
    /\ poll[q] = Idle
    /\ poll' = [poll EXCEPT ![q] = [pc |-> "claiming", left |-> << >>, party |-> "customer"]]
    /\ UNCHANGED <<state, outbox, mailed, reminder, reminded, disp, faults>>

\* Mutation: the claim's own transaction writes sent_at, before the mail.
SentOnClaim(b) == [reminder EXCEPT ![b] = "sent"]

\* markDone is empty.
AfterClaim(b) == reminder

\* Nothing marks the claimed row, so the tick claims it again, up to Limit
\* times.
ClaimReminder(q, b) ==
    /\ poll[q].pc = "claiming"
    /\ Len(poll[q].left) < Limit
    /\ reminder[b] = "due"
    /\ poll' = [poll EXCEPT ![q].left = Append(@, b)]
    /\ reminder' = AfterClaim(b)
    /\ UNCHANGED <<state, outbox, mailed, reminded, disp, faults>>

RemindersClaimed(q) ==
    /\ poll[q].pc = "claiming"
    /\ Len(poll[q].left) = Limit \/ \A b \in Bookings : reminder[b] # "due"
    /\ poll' = [poll EXCEPT ![q].pc = "mailing"]
    /\ UNCHANGED <<state, outbox, mailed, reminder, reminded, disp, faults>>

\* handleReminder, whatever the booking is by now.
Remind(q) ==
    /\ poll[q].pc = "mailing"
    /\ poll[q].left # << >>
    /\ poll[q].party \in Parties
    /\ reminded' = [reminded EXCEPT ![Head(poll[q].left)][poll[q].party] = @ + 1]
    /\ poll' = [poll EXCEPT ![q].party =
                   IF @ = "customer" THEN "provider" ELSE "nobody"]
    /\ UNCHANGED <<state, outbox, mailed, reminder, disp, faults>>

NextReminder(q) ==
    [poll EXCEPT ![q].left = Tail(@), ![q].party = "customer"]

\* sent_at, if the row is still there.
ReminderSent(q) ==
    /\ poll[q].pc = "mailing"
    /\ poll[q].party = "nobody"
    /\ LET b == Head(poll[q].left)
       IN reminder' = [reminder EXCEPT ![b] = IF @ = "due" THEN "sent" ELSE @]
    /\ poll' = NextReminder(q)
    /\ UNCHANGED <<state, outbox, mailed, reminded, disp, faults>>

\* A failed mail leaves the reminder unsent.
ReminderFails(q) ==
    /\ poll[q].pc = "mailing"
    /\ poll[q].left # << >>
    /\ Strike
    /\ poll' = NextReminder(q)
    /\ UNCHANGED <<state, outbox, mailed, reminder, reminded, disp>>

RemindersOver(q) ==
    /\ poll[q].pc = "mailing"
    /\ poll[q].left = << >>
    /\ poll' = [poll EXCEPT ![q] = Idle]
    /\ UNCHANGED <<state, outbox, mailed, reminder, reminded, disp, faults>>

---------------------------------------------------------------------------
DispatcherStep(d) == Begin(d) \/ Claim(d) \/ Mail(d) \/ MarkDispatched(d)

PollerStep(q) ==
    \/ BeginReminders(q) \/ (\E b \in Bookings : ClaimReminder(q, b))
    \/ RemindersClaimed(q) \/ Remind(q) \/ ReminderSent(q) \/ RemindersOver(q)

Next ==
    \/ \E b \in Bookings :
        \/ Create(b) \/ ReminderDue(b)
        \/ \E event \in BookingEvent : Transition(b, event)
    \/ \E d \in Dispatchers :
        DispatcherStep(d) \/ MailFails(d) \/ MailHangs(d) \/ TickFails(d) \/ Restart(d)
    \/ \E q \in Pollers : PollerStep(q) \/ ReminderFails(q)

Spec == Init /\ [][Next]_vars

\* Both loops arm their timer again after every tick; time passes.
FairSpec ==
    /\ Spec
    /\ \A d \in Dispatchers : WF_vars(DispatcherStep(d))
    /\ \A q \in Pollers : WF_vars(PollerStep(q))
    /\ \A b \in Bookings : WF_vars(ReminderDue(b))

---------------------------------------------------------------------------
(* Properties.                                                             *)

\* Every variable has its type.
TypeOK ==
    /\ state \in [Bookings -> BookingState \cup {"NONE"}]
    /\ outbox \in Seq(Row)
    /\ mailed \in Seq([Parties -> Nat]) /\ Len(mailed) = Len(outbox)
    /\ reminder \in [Bookings -> {"none", "waiting", "due", "sent"}]
    /\ reminded \in [Bookings -> [Parties -> Nat]]
    /\ faults \in 0..MaxFaults

\* Both parties of a new booking are told; of a transition, those whom the
\* state machine's Notify effect names.
Concerned(event) == IF event = NoEvent THEN Parties ELSE Recipients(event)

\* A row is marked dispatched only after every party the state machine wants
\* notified of the transition has been mailed about it: the service's own
\* list of mails and the machine's Notify effects agree, and no failure or
\* restart marks a row too early (dispatchDueOutboxEvents).
DispatchedMeansTold ==
    \A i \in DOMAIN outbox :
        outbox[i].dispatched =>
            \A party \in Concerned(outbox[i].event) : mailed[i][party] > 0

\* Nobody hears of one transition twice unless a mail, a query or a process
\* failed in between: two dispatchers, or two ticks, do not share a row.
RepeatedOnlyAfterFailure ==
    \A i \in DOMAIN outbox : \A party \in Parties : mailed[i][party] <= 1 + faults

\* Every row is dispatched in the end, unless a dispatcher hangs in a mail
\* for ever; a row that fails is tried again (NOT-001).
EveryTransitionIsTold ==
    <>[](\A d \in Dispatchers : disp[d].pc # "hung") =>
        []<>(\A i \in DOMAIN outbox : outbox[i].dispatched)

\* Once it is due, a reminder of a booking that stays CONFIRMED reaches both
\* parties, though a mail may fail in between (sendDueReminders).
RemindersReachBoth ==
    \A b \in Bookings :
        reminder[b] = "due" ~>
            state[b] # "CONFIRMED" \/ \A party \in Parties : reminded[b][party] > 0

\* A reminder fires once (reminder-flow.spec.ts): neither party is reminded
\* of a booking twice unless something failed.
ReminderFiresOnce ==
    \A b \in Bookings : \A party \in Parties : reminded[b][party] <= 1 + faults
=============================================================================
