# Verifying the booking platform

This directory holds TLA+ models of the platform's program logic, the TLC
configurations that check them on small instances, and proofs that TLAPS checks.
Everything is translated from the TypeScript and SQL of the repository; paths below
are relative to its root. `docs/` is used only as the statement of what the code is
supposed to do: the design's transition table is the oracle of one run, and three
claims of the documents, comments and tests are shown by runs of their own not to
hold; section 6 lists further ones that are stated as definitions.

Contents: [the system](#1-the-system), [what is modelled](#2-modules),
[the runs](#3-runs), [bounds and fairness](#4-bounds-symmetry-fairness),
[the proofs](#5-proofs), [where code and documents part](#6-where-the-code-and-its-documents-part),
[what is left out](#7-not-modelled-and-why), [the plan](#8-plan).

## 1. The system

One Node process (several during a deployment) serves an HTTP API and runs a due-work
poller; all state is in one PostgreSQL database, with one schema per service, and at the
payment gateway.

| Component | State it keeps | Operations | Talks to |
|---|---|---|---|
| Booking state machine (`libs/domain/booking-state-machine`) | none, pure | `transition`, `computeResponseDeadline` | called by handlers and poller |
| Booking handlers and service (`apps/api/src/booking-*routes.ts`, `libs/services/booking`) | `booking.bookings`, `state_transitions`, `reminders`, `standing_events`, `reviews` | create, accept, decline, cancel, complete, report a no-show, disclose the consequence, views | state machine, effects, outbox |
| Booking saga (`apps/api/src/booking-saga.ts`) | none of its own | price, authorize under an attempt id, insert, re-key, compensate | payments, booking service |
| Due-work poller (`apps/api/src/due-work-poller.ts`, `libs/shared/poller`) | none durable | expiry, auto-completion, reminders, scheduled payouts, deferred authorizations | locks rows of the other services |
| Settlement effects (`apps/api/src/booking-effects.ts`) | none | runs the machine's effect list one at a time | payments, ledger, standing |
| Payments, authorizations (`authorization-service.ts`) | `payments.authorizations`, `payments.operations`, PaymentIntents at the gateway | authorize, set up, re-key, cancel, capture, refund, retry, manual refund, no-show reversal | gateway |
| Payments, ledger and payouts (`ledger-service.ts`, `connect-service.ts`) | `payments.ledger`, `payments.payouts`, `payments.connect_accounts` with its payout clock | split, balances, on-demand and scheduled payouts, onboarding | gateway, poller |
| Outbox and notifications (`libs/shared/events`, `notification-dispatcher.ts`, `libs/services/notifications`) | `outbox` tables, `booking.reminders` | claim a row under its lock, mail both parties, mark it; remind | SMTP; every writer of an event |
| Provider catalog and vetting (`libs/services/provider-catalog`, `go-live.ts`) | `catalog.providers` (status, listed, rating), documents, services, reviews, outbox | packet, submit, decide, go live, suspend and relist, review and reply | payments, availability |
| Availability and slots (`libs/services/availability`, `libs/domain/slot-computation`) | weekly rules, exceptions | replace, add, compute slots | nobody: the callers pass no bookings in (section 6) |
| Discovery, ranking, pricing (`apps/api/src/discovery*.ts`, `libs/domain/ranking`, `pricing`) | none | search, filter, rank with a timeout, split a price | catalog, slots |
| Identity (`libs/services/identity`, `auth-routes.ts`, `session.ts`) | accounts, sessions, one-use tokens, rate limits, addresses; the connection pool | register, sign in and out, request and confirm a reset | notifications |
| Operations views and manual actions (`admin-routes.ts`) | none | exceptions, funnel, retry, refund | payments |
| Alarms | in-memory window per process | count, log | none |
| User interfaces | none | rendering | HTTP API |

**What is hard.** A handler reads the booking without a lock, decides with the pure
machine, and only then opens the transaction that writes the decided state; the poller
does the same work under `FOR UPDATE SKIP LOCKED`. Money moves after the commit, effect
by effect, with nothing durable that says it is owed. The gateway may answer late, never,
or after it has done what was asked. Two processes overlap during a deployment. Time
boundaries (deadline, cancellation boundary, slot start, auto-completion) are read by
different steps at different moments. A password reset sends `BEGIN` and `COMMIT` through a
pool, each to whichever connection is idle. A claim that marks nothing is repeated by its
own loop. `PROJECT.json` lists each hazard at its line with the
properties that cover it, or the reason none does yet.

**What makes each component correct.**

- *Bookings*: no two holding bookings overlap at one provider; the audit trail, the outbox
  and the row agree; every booking ends and stays ended; transitions follow the table.
- *Money*: credits to a provider are backed by a capture; no full charge before the slot;
  each settlement happens at most once and is attempted or surfaced; what was disclosed is
  what is charged.
- *Poller*: every due row is eventually handled, by one process, whatever a bad row does.
- *Saga*: the slot is sold to one customer at a time; no booking without a card on record, and
  no hold that outlives its booking; a retry acts once.
- *Payments*: what is on record as moved has moved, and what has moved is on record, on the
  operators' list, or in the hands of a call; a correction returns what was taken.
- *Payouts*: one key pays once; a payout alone never exceeds the credit; a provider is shown
  what a payout would find; what is earned is paid in the end.
- *Notifications*: every transition reaches the parties the state machine names, at least
  once, and again only after a failure.
- *Vetting*: only a provider that was approved with a complete packet is public; the rating
  is that of the reviews.
- *Identity*: what a client was answered is in the database; a reset ends the sessions of
  the old password; every call is answered.
- *Slots and ranking*: the computed set or order equals its declarative definition.

## 2. Modules

| Module | Models | Read with |
|---|---|---|
| `BookingMachine` | `transition` and `computeResponseDeadline`: no variables | `booking-state-machine/src/index.ts` |
| `DesignTable` | design section 7.4, row by row, as the oracle | `docs/mvp/03-design.md` |
| `Discovery` | slots of a schedule and cards of a search, with what is promised of them: no variables | `slot-computation/src/index.ts`, `availability-service.ts`, `ranking/src/index.ts`, `discovery.ts` |
| `Oracles`, `MCOracles` | the pure functions above asked side by side, and what changes a schedule between two questions | `availability-service.ts`, `availability-routes.ts`, `discovery.ts` |
| `BookingLifecycle` | handlers, shared transaction, poller's booking phases, effects | `booking-provider-routes.ts`, `booking-service.ts`, `due-work-poller.ts`, `booking-effects.ts`, and the parts of payments they reach |
| `OperationsViews`, `MCBookingLifecycle` | the operators' standing page and the bookings' half of the funnel, as operators on the state of `BookingLifecycle` | `booking-service.ts`, `admin-routes.ts` |
| `SlotSale` | what `POST /bookings` promises customers who compete for a slot: the abstract specification | `docs/mvp/02-requirements.md` BOK-002 |
| `CreateSaga`, `MCCreateSaga` | `POST /bookings`, query by query, and `cancelAuthorization` beside it | `booking-saga.ts`, `authorization-service.ts`, `BookingService.create` |
| `MoneyBook` | what the operators who correct payments are promised of money, files and audit: the abstract specification | `docs/mvp/02-requirements.md` PAY-002, OPS-002, OPS-003 |
| `Payments`, `MCPayments` | capture, refund, no-show reversal and operator's retry, query by query | `authorization-service.ts`, the exception routes of `admin-routes.ts` |
| `Payouts`, `MCPayouts` | split insert by insert, balances, both kinds of payout, the payout clock and the claim loop | `ledger-service.ts`, `connect-service.ts`, `sendDuePayouts`, `claim-due-work.ts` |
| `Notifications`, `MCNotifications` | dispatchers over the outbox, reminders | `outbox.ts`, `notification-dispatcher.ts`, `notification-service.ts`, `channel.ts`, `sendDueReminders` |
| `Catalog`, `MCCatalog` | vetting, go-live, suspension, reviews | `catalog-service.ts`, `catalog-routes.ts`, `go-live.ts` |
| `Identity`, `MCIdentity` | accounts, sessions and resets, statement by statement, and the connections they run on | `identity-service.ts`, `auth-routes.ts`, `session.ts` |
| `BookingLifecycle_proofs` | who writes what; exclusion, reminders, audit trail, stale decisions, outbox; the money, the credits, the operators' pages | |
| `CreateSaga_proofs` | the saga's card invariant, that it implements `SlotSale`, and what a call alone with its key is told | |
| `CatalogOracles_proofs` | what customers are shown: vetted providers, cards by merit; what `computeSlots` answers with, with the theory of the lists they are built from; and that the machine is the design's table | |
| `Payments_proofs` | the inductive invariant of captures and corrections, and that `Payments` implements `MoneyBook` | |
| `Payouts_proofs`, `Notifications_proofs`, `Identity_proofs` | the inductive invariants of each and what follows from them | |
| `SetSums` | sums over finite sets, for `Payouts`, `Catalog` and the counting of what is owed | |

`BookingLifecycle`, `CreateSaga`, `Payments`, `Payouts` and `Notifications` share the booking and
payment tables in the code. Each takes apart what it is about and keeps what it needs of the
others as one step: `BookingLifecycle` sees a payment operation through its outcomes,
`Notifications` sees a transition as a row in the outbox, `Payouts` a settlement as its splits.

### BookingMachine

An effect list is a record: `run`, the effects `executeEffects` acts on in order, and the
two kinds it skips (`ReleaseHold`, `Notify`) as a flag and a set of recipients. `Verdict`
names the four ways a transition is refused, in the order the code tests them.

### BookingLifecycle

| State | In the code |
|---|---|
| `state`, `deadline`, `autoAt` | columns `state`, `response_deadline`, `auto_complete_at` of `booking.bookings`; `"NONE"` before the row exists |
| `reminders` | number of unsent rows of `booking.reminders` |
| `audit`, `alarms` | rows of `state_transitions` that record a transition, and those that record a failed attempt (they share one table; they are two sequences here because only the first chains) |
| `outbox` | rows about the booking, in order |
| `standing`, `ledger` | rows of `standing_events`; the amount of each `split`, as a percentage of the price |
| `intent`, `captured` | the PaymentIntent at the gateway, and the percentage captured |
| `auth`, `op` | `payments.authorizations.status`; the states under `cancel:b` and `capture:b` in `payments.operations` |
| `quote` | the consequence last shown to the customer, remembered only to state what is promised |
| `req`, `poll`, `work` | where each request and each poller is, what it has read, and the effects it still has to run |

| Action | In the code |
|---|---|
| `CreateBooking` | `POST /bookings` as far as it succeeds |
| `DiscloseConsequence` | `GET /bookings/:id/cancel-consequence` |
| `Read`, `Decide`, `Apply`, `ApplyExcluded` | the three moments of a handler: unlocked read, `transition()` at the clock of that moment, `applyTransition` on the locked row (which the exclusion constraint may refuse) |
| `BeginTick`, `Claim`, `ClaimFails`, `ClaimsDone`, `EffectsDone` | `runDueWorkOnce`: all expired rows are claimed, each in its own transaction, then their effects run; then the same for auto-completion |
| `ReleaseAuth(Fails)`, `Capture(Fails)`, `Split`, `RecordStanding`, `InsertFails` | one effect of `executeEffects`, with the outcomes a caller can see, the lost answer among them |
| `Crash` | the process dies under one worker: what it still had to do is gone |

What is abstracted, and why that is safe to do:

- *A transaction is one step.* It holds the row lock from its first statement to commit.
- *A payment operation is one step*, with every outcome its caller can see: success, answer
  from the operations table, refusal, and a gateway that did it although the answer was
  lost. `CreateSaga` takes authorize, set up, re-key and cancel apart, `Payments` capture,
  refund and reversal.
- *`POST /bookings` is one step* (booked and held, or nothing). `CreateSaga` has its steps.
- *A crash hits one worker*, not all workers of a process. Crashing several workers one after
  another is a behaviour of the model, so a whole process dying is covered.
- *Time is whole hours*, and windows are small numbers; the code compares milliseconds with
  `<=` and `>=`, and the model keeps each comparison as it is. What a handler reads as "now"
  is the model's clock at that step.
- *The gateway is the real one.* The stub the code uses in its absence always agrees and
  keeps no state.
- *No caller passes `alreadyCaptured`*, so `Refund100`/`Refund50` cannot be asked for by a
  transition. `BookingMachine` has them and `DesignTable` checks them; `BookingLifecycle`
  has no action for them.
- *Only the poller passes `responseDeadline`*, so in the HTTP handlers an accept has no
  deadline guard. This is the code's behaviour and the model keeps it: an accept after the
  deadline and before the poller's claim succeeds.

### CreateSaga

| State | In the code |
|---|---|
| `op` | `payments.operations.state`, by key: `authorize:a`, `setup:a`, `cancel:x` for an attempt or a booking x |
| `gateway` | what the gateway keeps under its idempotency key: nothing, an open hold or saved card, a refusal, a cancelled hold |
| `row` | `payments.authorizations` by `booking_id`, which is the attempt's id until re-keying: status, and whether it names a PaymentIntent |
| `booking` | the booking each call makes: none, live (PENDING or CONFIRMED, so it holds the slot), gone |
| `at`, `kind`, `answer` | where each of a call's two workers is, which operation the call asked of the card, what its client was told |

| Action | In the code |
|---|---|
| `Start` | slot in the past; horizon; `beginOperation`: answered from the table, refused, or on to the gateway |
| `GatewayTakes`, `GatewayRefuses`, `GatewayLost` | the call under the key; the gateway repeats the first answer it gave under a key |
| `Record`, `File`, `Fail` | `completeOperation`, the upsert of the authorization, the catch block |
| `InsertBooking`, `Rekey`, `Attribute`, `InsertOrRekeyFails` | `BookingService.create` under the exclusion constraint; the two statements of `rekeyToBooking`; any error but a conflict |
| `Leave` | the booking is declined, cancelled or expires, and its `ReleaseAuth` effect starts |
| `CancelBegins`, `Void`, `VoidFails`, `Voided`, `Close`, `Unvoided` | `cancelAuthorization`, run by the saga with the attempt's id or by `ReleaseAuth` with the booking's |
| `DatabaseError`, `Crash` | a failing query inside a `try`; the process dying at any step |

Each call has two workers because the booking it made can be cancelled by another request
while the saga still runs. Abstracted: `beginOperation`'s SELECT and INSERT are one step
(whoever sees no row or a pending one goes on alike, and the INSERT never overwrites), as
are the begin and the SELECT of `cancelAuthorization` (the begin touches only its own key);
the provider and service checks before the first query, which change nothing; the attribution
of operations to bookings, which nothing here reads; the alternatives offered to a loser,
which are a query.

`SlotSale` knows only who holds the slot and what each customer was told. `StageOf` maps the
saga to it: a call asks until it inserts, has lost while it cancels, is sold while it
re-keys, and is dropped when it ends with an error or dies.

### Payments

| State | In the code |
|---|---|
| `intent`, `status` | `payments.authorizations` of the booking: is a PaymentIntent named, and the status |
| `op` | `payments.operations`: state, amount and reason under each key (`capture:b`, `refund:b:reason`, `manual-refund:b:reason`, `no-show-reversal:b`) |
| `moved` | what the gateway has moved under each idempotency key |
| `actions`, `outbox` | `payments.manual_actions`, `payments.outbox` |
| `call` | where each call is: what was asked, under which key, for how much |

`AskCapture`, `AskRefund`, `AskReversal` with `ReadCapture`, and `AskRetry` are `capture`,
`manualRefund`, `reverseNoShow` and `retryFailedOperation` up to the common part; `Begin` and
`Insert` are `beginOperation`'s two statements; `GatewayTakes`, `GatewayRefuses`, `GatewayLost`
the call; `Complete`, `File`, `RecordManualAction` the writes after a yes, `Fail` the catch
block, `DatabaseError` and `Crash` what may come in between. The gateway answers a key it has
served as it did then and refuses it with another amount, as Stripe does. `refund` itself is
reached only through a retry, because no caller passes `alreadyCaptured`. The booking's price
is not tied to its state: any amount up to the hold may be captured at any time, which is
more than the state machine asks for.

`MoneyBook` knows of each operation what it has moved and what the books say of it, of each call
which operation it has in hand, and the trail of attested corrections. `FileOf`, `HandOf` and
`Attested` map `Payments` to it: a row that has succeeded is done, with its amount; one that has
failed is an exception; one that is missing or pending is not on file; a call has its operation in
hand from the moment it is asked until it is over, and for ever when it crashed. Statements that
operators cannot see, such as the insert of a pending row, a refusal or the filing of a status, are
no step of the book. That a rival's failure overwrites a success (`completeOperation` asks for no
state) is: what is done may be referred to the operators again.

### Payouts

`ledger` lists the rows of each booking by kind in the order of `split`'s inserts, and a
settlement may repeat them; `cut` marks a split that was cut off, which nobody resumes.
`dueIn` is `next_payout_at` in days from now. A payout, on demand (`Trigger`, `Look`, `ReadNet`,
`ReadPaid`, `PayOnDemand`) or scheduled (`BeginTick`, `Claim`, `ClaimsDone`, `NextAccount`,
`ReadNet`, `ReadPaid`, `PayOnSchedule`), reads the balance, then what was paid, then inserts:
its transaction is READ COMMITTED and locks nothing two payouts share. `SplitPrice` rounds as
`Math.round` does. `Credited` is the sum the payout reads, `ShownNet` the number the earnings
page computes booking by booking.

### Notifications

`outbox` is the rows in the order of `created_at`, `mailed` how often each row has been mailed
to each party. A dispatcher claims the oldest row nobody has locked (`Claim`), sends its mails
one by one (`Mail`), and commits (`MarkDispatched`); a mail may fail, perhaps after it went out
(`MailFails`), or hang for ever, for the SMTP exchange has no timeout (`MailHangs`); a query may
fail (`TickFails`), the process may be replaced (`Restart`). `MailsFor` is the service's own
list, `Recipients` of `BookingMachine` the machine's `Notify` effects. The reminder phase claims
first (`ClaimReminder`, `RemindersClaimed`) and mails later (`Remind`, `ReminderSent`,
`ReminderFails`); `AfterClaim` is the empty `markDone`.

### Catalog

`row` is the provider's row; `docs`, `services`, `weekly`, `connect` are what the packet and the
go-live gate ask for; `call` holds what a call has read. `Submit`, `CheckPacket`,
`WriteSubmission` are `submit`; `Decide`, `WriteDecision` are `decide`; `GoLive`, `ReadConnect`,
`ReadServices`, `EvaluateGoLive`, `WriteListed` are the two go-live routes, await by await, of
which the GET may switch a listing off; `Review`, `WriteReview` are `addReview` with its unique
index. `Crash` ends any call. The rest is one statement or one transaction each.

### Identity

| State | In the code |
|---|---|
| `rows` | what is committed in `identity.accounts`, `sessions`, `tokens`, `rate_limits`, `addresses` |
| `conn` | per connection: is a transaction open on it, and what it has written |
| `idle` | the pool's idle connections, in the order of `pg-pool` |
| `call` | per slot: the call under way, its next statement, and the connection it waits on |
| `told`, `calm` | history: what clients have been answered for; whether a reset has run alone so far |

A call is a walk through its statements (`First`, `Outcomes`); `Issue` gives a statement a
connection as `pg-pool` does, `Run` executes it in whatever transaction that connection has
open, `Refused` is an error (`Violation`, `StatementFails`, `DeadlockVictim`), after which the
pool closes the connection; `IdleTimeout` closes one that nobody uses, and rolls its
transaction back. `Expire` removes a session, a token or a rate window. Passwords, sessions
and tokens are known by the number of the call that made them.

### Discovery, DesignTable, Oracles

`Discovery` has operators on a question and nothing else. `ComputeSlots` is the code: the windows
of each day (`WindowsForDay`, `Openings`), cut into a `Grid`, of which `Kept` leaves what is `Free`.
`FreeGrid` is the definition it is compared with. `Cards` is the code of a search: who is in radius,
nearest first (`ListInRadius`), whom the filters keep (`Matches`), in the order of the ranker, of the
stub, or of the fallback when the ranker fails or is late; `NoWorse` is the merit it is compared
with. An SQL `ORDER BY` or a JavaScript sort is `InOrder`: some arrangement of the elements that the
order allows, so that ties are open where the code leaves them open. The window of an extra
exception may begin before its day or end after it: nothing in the route or the table restricts it.

`Oracles` has one variable, the question. A question about a schedule names the arguments of
`computeSlots`: the duration, the occupied times, and the times of the query, of which a missing
one is what the route puts in its place (`FromOf`, `ToOf`). Time passes and the provider changes the
schedule (`TimePasses`, `ReplaceRules`, `AddBlock`, `AddExtra`, as the availability service does); the
occupied times stay what they were, for nothing in the system changes them: no caller of
`AvailabilityService.slots` passes any, so what is served is the case of none (section 6). The
conflict check of `AddBlock` is with times the client sends along. About a search, there are the rows of the providers, a filter and
what becomes of the ranker. About a booking, `DesignTable` asks with a state, an event and a
context. Scores are integers in thousandths, rounded down, where the code has doubles. What a
number of completed bookings counts for is a table, `CompletionWorth`; the code has
1 - exp(-n/10), the run two of its values, the theorems any table that does not decrease. The
distance bands of the travel buffer are given with the occupied time instead of computed by
haversine.

## 3. Runs

| Run | Question | Instance | Distinct states |
|---|---|---|---|
| `oracles` | Do the pure functions equal their reference definitions: the machine the design's table, the computed slots the free grid, the order of the cards merit? | 7 hours around a slot; 4 weekly patterns, 2 exceptions, 4 queries, up to 2 of 3 occupied times as an argument, 14 ticks, extra hours that reach into the day before and after; up to 3 providers of 264 kinds, 3 filters, 3 rankers | 388 k |
| `handlers` | Which safety properties hold whatever two requests and a poller do to two overlapping bookings of a provider? | 2 bookings, 2 requests, 1 poller, no fault | 1.9 M |
| `progress` | Does a booking end, announce itself, show truly on the operators' pages, and settle, despite a stale request, overlapping processes and a fault? | 1 booking, 1 request, 2 pollers, 1 fault, fair | 590 k |
| `saga` | A customer's call and its retry, and a rival, one slot, one fault, bookings declined underneath: is the slot sold as `SlotSale` says, never without a card, and do answers agree with the holds? | 3 calls, 2 attempts, 1 fault | 2.1 M |
| `payments` | Captures, refunds, reversals and retries of one booking at once: do records, gateway, audit and operators' list agree, and does a call follow `MoneyBook`? | 4 calls, hold of 2, 1 reason, 1 fault | 356 k |
| `payouts` | Splits, on-demand payouts with a repeated key, the weekly claim loop: who can be paid twice, too much, or never? | 1 account, 1 booking settled up to twice, 2 triggers, 1 key, 1 poller, 1 fault, fair | 743 k |
| `mails` | Is everybody told, and nobody twice without a failure? | 1 booking, 2 dispatchers, 1 poller, limit 2, 1 fault, fair | 1.1 M |
| `resets` | A reset against sign-in, sign-out and a second reset over shared connections: do answers last, do old sessions end, is every call answered? | 2 slots, 2 connections; any 2 calls and a fault, or any 3 resets and sign-outs; fair | 1.0 M |
| `provider` | Submissions, decisions, go-live, suspension and reviews that overtake each other: who becomes public, and is the rating that of the reviews? | 2 calls, 2 bookings, 2 photographs | 1.8 M |
| `retry`, `retried_refund`, `remind_once` | Does the code keep three things its documents, comments and tests promise? It does not (section 6). | smallest instance that shows it | |

What the properties say:

- `MachineMatchesDesign`, `TimeOnlyMakesCancellingDearer`: the machine answers every question as
  the table does, and waiting changes nothing but the price of a cancellation.
- `SlotsAreTheFreeGrid`, `NoSlotComesBack`: for the occupied times it is passed, `computeSlots`
  answers with the whole free grid of the open hours of the days asked about and nothing else,
  and to the same question, asked later, with no slot it did not have before but those of days
  that have come into view. Both are about the function, and say nothing of bookings.
- `CardsFollowMerit`: every provider that travels to the customer and matches has one card,
  whichever ranker answers, the state names the right reason for an empty page, and nobody is
  shown below a provider who is worse in everything. The defaults for a missing slot, price or
  rating are what this is about.
- `NoDoubleBooking`: two holding bookings of a provider never overlap. The interesting path:
  a provider decides to accept, the customer cancels, the slot is sold again, the stale
  accept commits. Only the exclusion constraint on the UPDATE stops it.
- `AuditTrailExplainsState`: audit rows chain from PENDING to the present state. It holds
  although decisions are stale because `from_state` is taken from the locked row.
- `OutboxTellsTheStory`: outbox and audit trail list the same transitions in the same order.
  The poller has its own copy of the transaction's writes, which is why this is not obvious.
- `ReminderOnlyWhileConfirmed`: nothing is left to remind of a booking that is off, also
  after CONFIRMED has been left and re-entered.
- `LedgerBackedByCapture`: nothing is credited without a capture at the gateway, and of a booking
  that one transition settles never more than the percentage captured, also when captures fail,
  lose their answer, repeat, or race the release of the hold. A booking that is settled twice is
  exempt from the second half: there the code does credit more (section 6).
- `SplitPerCompletion`: a provider is credited at most once per transition that asks for it.
- `NoFullChargeBeforeStart`: 100% is captured only from the slot's start on.
- `OnlyStaleDecisionsBreakTheTable`: a step that is not in the table can only be the
  application of a decision whose row has changed since it was read.
- `PagesAreDeserved`: the standing page and the funnel never say more than has happened,
  though crashes, failed effects and second pollers leave rows in the same tables.
- `EventuallyTerminalForGood`, `CompletedIsSettled`: liveness, section 4.
- `SellsTheSlotOnce`: the saga implements `SlotSale`.
- `NoBookingWithoutCard`, `GatewayIsRecorded`: a booking exists only if the gateway has taken
  the card under its attempt, and the operations table is never behind the gateway. Both must
  survive two calls that share a key and overwrite each other's outcome.
- `BookedIsOnFile`, `TakenLeavesNoHold`, `LiveBookingKeepsItsHold`: what the client is told
  and what is booked agree with what payments hold. They are stated for a call that shares
  its key with no other (`Alone`): a retry conflicts with the booking it repeats and
  cancels the authorization both use, if that has not been re-keyed yet.
- `SucceededMeansMoved`: the row a retry or a second caller is answered from never claims
  money that has not moved, nor another amount.
- `NothingMovesUnseen`: money that has moved is recorded, listed as failed, or in the hands of
  a call. That a database error after the gateway's yes leads to a *failed* row is what puts it
  before an operator.
- `BooksAreKept`: captures and corrections implement `MoneyBook`.
- `ReversalReturnsTheCapture`: a reversal returns what was taken. `ActionsAreBacked`, that the
  audit of manual actions has money behind every line, is contained in `BooksAreKept`.
- `OnePayoutPerKey`, `OnlyOverlappingPayoutsOverpay`: a key pays once, and an account is taken
  beyond its credit only by two payouts that overlap. That they can overlap is the code's
  (section 6); the property says that nothing else can do it.
- `EarningsAgree`: the page and the payout compute one balance in two ways, which agree unless
  a booking was split twice.
- `DispatchedMeansTold`: the service's list of mails covers the machine's `Notify` effects, and
  no failure or restart marks a row early. `RepeatedOnlyAfterFailure`: row locks keep two
  dispatchers apart.
- `AnswersAreDurable`, `ResetEndsEverySession`: stated for behaviours in which no reset has
  overlapped with another call; with an overlap both fail (section 6).
- `PublicIsVetted`, `OnlyStaleDecisionsLeaveTheFlow`: four unlocked read-then-write calls on one
  row cannot make a provider public that was not approved with a complete packet.
- `RatingIsThatOfTheReviews`: the sums are updated in SQL, in the review's transaction.
- `CreditIsEventuallyPaid`, `EveryTransitionIsTold`, `RemindersReachBoth`,
  `EveryCallIsAnswered`: liveness, section 4.

Every property of a passing run has a mutant: a definition of the model changed the way a
bug in that code would change it, under which TLC finds the property violated.

## 4. Bounds, symmetry, fairness

**Bounds.** Of a booking: the slot starts at 3 and lasts to 5, its overlapping neighbour from 4
to 6, and the clock stops at 6, so that every boundary lies inside its range, b1's
auto-completion at 6 included, which may settle a booking after a stale accept has reopened it: with
`ResponseWindow = 2` a booking made at 0 has its deadline before the slot and one made at 2 has
it cut off by the slot; with `AuthHorizon = 2` the first is only set up and a later one held;
with `ReminderWindow = 2` an accept at 0 schedules a reminder and one at 1 does not;
`CancelFullRefund = 1` makes a cancellation early until 1 and late at 2. `progress` has the same
boundaries one hour closer together, and auto-completion still on the clock. Each request
serves one call of any kind, so two of them are any two calls; two pollers are one
deployment. `MaxFaults` bounds crashes and database errors together; refusals by the gateway
are not bounded.

The saga's slot starts at 2 and `AuthHorizon = 1`: a call at 0 sets the card up and one at 1
holds it. Two calls with one key are a retry and a double click, the third is the rival that
a lost slot needs. Of `Payments`, a hold of 2 tells a part from the whole; four calls are a
capture, a reversal, another refund and a retry. Of `Payouts`, a price of 5 at 30% rounds half
a unit; two triggers with one key are a double click, beside a poller whose limit of 2 lets it
claim one account twice; `MaxSplits = 2` is a booking that was completed twice; `MaxLate` is how
far back the clock is counted. Of `Notifications`, a limit of 2 lets a tick take one row twice.
Of `Identity`, `Loads` bounds what a behaviour may do: any two calls of all seven kinds with one
failing statement, or any three resets and sign-outs without one, since it takes a reset, a
sign-out that falls into its transaction and a second reset for two statements to wait for
each other; two connections are what two calls can use. Of `Catalog`, two calls are two
operators, or one and the provider; a packet of 2 photographs has one that is short of it;
one rating is enough to tell a lost sum.

**Symmetry.** Requests are interchangeable in `handlers`, the two calls of one attempt in
`saga`, calls in `payments` and `retried_refund`, calls and bookings in `provider`. Liveness runs
use none.

**Deadlock** is checked by `handlers`, `progress`, `payouts`, `mails`, `remind_once` and
`provider`. The others say `CHECK_DEADLOCK FALSE`: questions end with the last tick (`oracles`);
calls end and no new one comes (`saga`, `retry`, `payments`, `retried_refund`, `resets`).

**Fairness** is used by the runs with a liveness property only:

- `progress`: `WF(Tick)`, time passes; `WF(PollerStep(p))`, because `startDueWorkPoller`
  reschedules itself in a `finally` whatever the tick did; `WF(EffectStep(w))`, because a handler
  that has started to await its effects is resumed, or the process crashes (`Crash` clears its
  work). Stated for the steps that are no fault, so no property holds because a fault must
  happen.
- `payouts`: `WF(Day)` and `WF(PollerStep(q))`, likewise. Nobody has to trigger a payout.
- `mails`: `WF(DispatcherStep(d))` and `WF(PollerStep(q))`, both loops arm their timer again after
  every tick; `WF(ReminderDue(b))`, time passes. Mails that fail, hang or are lost are never
  obliged to, nor is a restart: a dispatcher that hangs may hang for ever.
- `resets`: `WF` of issuing and of executing each slot's statement, since the pool serves and
  the database answers (a statement that waits for a lock cannot run, and is owed nothing),
  and `WF(IdleTimeout(k))`: `pg-pool` closes a connection idle for ten seconds. Without it
  `EveryCallIsAnswered` is false: a transaction left open on an idle connection keeps its locks.

Nobody is obliged to send a request or to complete `Read`-`Decide`-`Apply`: a stalled
request is a possible behaviour. `EventuallyTerminalForGood` says a booking ends in a
terminal state *for good*: stale applications can reopen it only as often as there are
stale requests. `CompletedIsSettled` says that without a fault every completed booking gets
an operation on record under `capture:b`. `CreditIsEventuallyPaid` is for an account that stays
complete, `EveryTransitionIsTold` for dispatchers that do not hang for ever, `RemindersReachBoth`
for bookings that stay CONFIRMED.

## 5. Proofs

`tlapm` checks every step of the eight modules that hold theorems: seven `*_proofs` modules and
`SetSums`. The assumptions are those named in the modules: of `BookingLifecycle`, that slots are
intervals of naturals, windows and bounds are naturals, requests and pollers are different
workers; of `OperationsViews`, that the threshold is positive; of `DesignTable`, that hours are
integers; of `Discovery`, that days, weeks and the threshold of a new provider are positive, the
buffer natural, and what completions count for does not decrease with their number (`WorthGrows`);
of `Oracles`, that durations are positive, a provider has finitely many weekly rules, hours, occupied
times and the times of a query are integers (a window may be empty or end before it begins), a search runs over finitely many providers with different ids, and their numbers are
naturals; of `CreateSaga`, that every call has an attempt, attempts and bookings have different ids, times and bounds are naturals; of
`Payments`, `Notifications` and `Catalog`, that the hold, the limit, the ratings and the packet
are positive and the bound on faults natural; of `Payouts`, that a price is natural and the rate
between 0 and 100, every booking has a provider, triggers and pollers are different workers, the
cadence and the limit are positive, that there are finitely many bookings and that the absent key is no
key; of `Identity`, that loads are bounds and the absent connection is no connection. Apart from
the bookings of `Payouts`, whose table is summed, and the rules and rows just named, which are
sorted, every set of bookings, providers, requests,
pollers, calls, attempts, reasons, dispatchers, keys, slots or connections may be any set, also
infinite, and every bound any natural: where a sum or a count needs a finite set (the bookings
made, the reviews written, the jobs owed), that it is finite is proved.

| Theorem | States |
|---|---|
| `TypeInvariant`, `TypeCorrect` | `Spec => []TypeInv`, `Spec => []TypeOK` |
| `NeverDoubleBooked` | `Spec => []NoDoubleBooking` |
| `RemindersOnlyWhileConfirmed` | `Spec => []ReminderOnlyWhileConfirmed` |
| `AuditTrailAlwaysExplains` | `Spec => []AuditTrailExplainsState` |
| `OutboxAlwaysTells` | `Spec => []OutboxTellsTheStory` |
| `DecisionsAreSound` | what a handler has decided is in the table for the state it read, with effects of a known plan and a full capture only from the slot's start on |
| `TableLeftOnlyByStaleDecisions` | `Spec => OnlyStaleDecisionsBreakTheTable`, an action property |
| `MoneyInvariant` | `Spec => []MoneyInv`, the inductive invariant of the money |
| `CreditsAreBacked` | `Spec => []LedgerBackedByCapture` |
| `FullPriceOnlyAfterStart` | `Spec => []NoFullChargeBeforeStart` |
| `EveryCreditIsAskedFor` | `Spec => []SplitPerCompletion` |
| `PagesSayWhatHappened` | `Spec => []PagesAreDeserved` |
| `QuestionsKeepTheirKind` | `OracleSpec => []QuestionsStay`: a question stays with what it is about, and a schedule keeps its kind of content |
| `MachineIsTheDesign` | `OracleSpec => []MachineMatchesDesign` |
| `AnswersOnlyGrowDearer` | `OracleSpec => TimeOnlyMakesCancellingDearer`, an action property |
| `SlotsAreTheFreeGridAlways` | `OracleSpec => []SlotsAreTheFreeGrid` |
| `NoSlotEverComesBack` | `OracleSpec => NoSlotComesBack`, an action property |
| `CardsAlwaysFollowMerit` | `OracleSpec => []CardsFollowMerit` |
| `SagaTypeCorrect` | `Spec => []TypeOK` of the saga |
| `CardInvariant` | `Spec => []CardInv`, the inductive invariant of the card |
| `GatewayStaysRecorded` | `Spec => []GatewayIsRecorded` |
| `BookingsHaveCards` | `Spec => []NoBookingWithoutCard` |
| `SagaSellsTheSlotOnce` | `Spec => SellsTheSlotOnce`: the saga implements `SlotSale` |
| `LonersInvariant` | `Spec => []LonersInv`, the inductive invariant of a call alone with its key |
| `BookedStaysOnFile`, `LosersKeepNoHold`, `LiveBookingsKeepTheirHold` | `Spec => []BookedIsOnFile`, `Spec => []TakenLeavesNoHold`, `Spec => []LiveBookingKeepsItsHold` |
| `PaymentsInvariant` | `Spec => []PaymentsInv`, the inductive invariant of captures and refunds |
| `RecordsTellTheTruth`, `MoneyStaysInSight` | `Spec => []SucceededMeansMoved`, `Spec => []NothingMovesUnseen` |
| `ReversalsAreExact`, `AuditIsBacked` | `Spec => []ReversalReturnsTheCapture`, `Spec => []ActionsAreBacked` |
| `PaymentsKeepTheBooks` | `Spec => BooksAreKept`: captures and corrections implement `MoneyBook` |
| `PayoutsTypeCorrect` | `Spec => []TypeOK` of the payouts |
| `OnePayoutForAKey` | `Spec => []OnePayoutPerKey` |
| `EarningsAgreeAlways` | `Spec => []EarningsAgree` |
| `PayoutsPayWhatIsOwed` | `Spec => OnlyOverlappingPayoutsOverpay`, an action property |
| `VettingInvariant` | `Spec => []VettingInv`, the inductive invariant of vetting |
| `PublicAreVetted` | `Spec => []PublicIsVetted` |
| `FlowLeftOnlyByStaleDecisions` | `Spec => OnlyStaleDecisionsLeaveTheFlow`, an action property |
| `RatingsAddUp` | `Spec => []RatingIsThatOfTheReviews` |
| `MailInvariant` | `Spec => []MailInv`, the inductive invariant of the outbox |
| `MarkedOnlyWhenTold`, `NobodyIsMailedTwice` | `Spec => []DispatchedMeansTold`, `Spec => []RepeatedOnlyAfterFailure` |
| `AnswersStayDurable` | `Spec => []AnswersAreDurable` |
| `ResetsEndEverySession` | `Spec => []ResetEndsEverySession` |

**Argument.** `TypeInv` adds to `TypeOK` that a request in flight is about a booking that
exists (`RequestedBookingsExist`): without it `Apply` could write a state over a row that
was never made, and the deadline's type would not survive. Three frame lemmas say who
writes what: rows only by create, apply and claim (`RowWriters`), bookings never vanish
(`BookingsStayMade`), requests only by themselves (`RequestWriters`). `Apply` and `Claim`
are shown to be instances of one `RowStep`, so exclusion, reminders and audit trail are each
proved for that step once.

`LedgerBackedByCapture` is not inductive, in either half. That a job's next effect is `Split` says
nothing about money. `MoneyInv` adds that every effect list still owed is a *tail of a plan*, that a
tail beginning at `Split` has charged already (`JobsSound`), that an operation under
`capture:b` that succeeded has a charge behind it, that a captured intent has an amount
(`MoneySound`), and that a job or a decision that asks for the full price belongs to a slot
that has begun (`TimesSound`). A charge, once made, stays: no action leads out of
`"captured"`, `cancelAuthorization` included, since the gateway refuses to cancel a captured
intent. That the amounts agree takes two facts more. `CapturesDeserved` counts, for each booking,
the capture made and the captures the workers still owe: together no more than the transitions that
ask for a settlement, so that of a booking settled once no capture is owed any more once one is
made. `SettlementsFair` says of such a booking that no credit given, and no split that is next, is
for more than has been captured. A split is next only after its own job's capture
(`SplitsComeFromCaptures`), which has moved what the job settles (`CapturePays`), and a charge keeps
its amount (`ChargeKeepsItsAmount`). With `SplitPerCompletion` there is one credit at most, and the
sum is that credit.

The outbox and the audit trail are compared change by change, by their rank: `Story` says that
the i-th row of the trail is the i-th change the box announces, and that there are as many
completions in one as in the other. Every step either leaves both alone, makes the booking,
announces a transition as it records it, or appends a row that is no change (`OutboxWriters`).

`SplitPerCompletion` is not inductive: a split adds a credit, and what entitles to it is a
transition long past. `CreditsDeserved` counts the credits *given and still owed*: the rows of the
ledger and the positions in the workers' lists that have a split ahead are together no more
than the transitions that ask for one. `Closed` says what makes that count go down only: a job
that still has its split ahead had it one effect earlier. The standing events are counted in the
same way (`StandingDeserved`). For the funnel, `OnFile` says that finitely many bookings were made
and nothing is on record of the others, and `ConfirmedFirst` that whoever completes a booking
has seen it confirmed, and that the trail shows it.

Of the machine, `TableIsListed` turns the design's table, a union of guarded rows, into eleven
cases; `ListedIsAnswered` and `AnsweredIsListed` show that each is the machine's answer to the
question it is about and that the machine has no other. `AnHourLater` is what an hour changes.
The hours, deadlines, slot and window are any integers, where the run `oracles` has a few.

The slots and the cards are lists that are joined, filtered and sorted, and what is promised is about
their elements and their order. The first section of `CatalogOracles_proofs` is the theory of such
lists. What a joined list holds takes an induction on its length; the library's induction takes a
predicate, which the provers cannot instantiate, so `CountingInduction` is stated with a *set* of
numbers. From it, `JoinExists` and `FlattenJoins` give the recursive function behind the flattening
its values; `FlattenElements` and `OnlyElements` say what a joined or filtered list holds;
`FlattenFollows` and `OnlyFollows`, that it keeps an order; `OrderExists`, that a finite set can
always be arranged by a strict order, so that `InOrder` chooses something; `ListCounts`, that a
list without repetition is as long as its set.

For the slots, `WindowsAreOpenHours` compares the code's order of cases with the hours a provider is
open, `OpeningsAreOpenTimes` goes over the days, `GridFits` says by division that the n-th cell of a
window is the n-th multiple of the duration that still ends in it, and `FreeIsUndisturbed` that the
strict comparisons of `overlaps` are the weak ones of not being disturbed. `NoSlotComesBack` then
follows from the sets alone: of the same question, asked later, there is less (`LaterIsLess`). For the cards, `KeptInRadius` and `CardsOfSearch` say who is shown; `SortedByScore`,
that the order is that of the score; and `ScoreGrows`, that each of the four signals, its division
rounded down included, is monotone in what `NoWorse` compares. `RatingsGrow` is the delicate one:
average, prior and confidence pull together only because a provider past the threshold is compared
with the prior.

`NoBookingWithoutCard` is not inductive either: that a call is about to insert says nothing
about the gateway. `CardInv` says at each point of a call's way what is already known
(`WaySound`: begun before the gateway is asked, taken before it is recorded, taken before the
booking is inserted), that only an intent on file is cancelled (`VoidsSound`), and that an
authorization names an intent only if the gateway has one under its attempt (`RowsSound`).
`CardsStay` is the monotonicity all of them rest on: what the gateway took stays taken, or is
cancelled, and what is on record stays on record. The refinement needs one more fact,
`AnsweredAtTheEnd`: a client is answered by the step that ends its call. Then `StageMoves`
and `CreatorMoves` reduce every step to where one creator was and where it is now.

What a call is told is proved of a call whose key is its own (`Alone`), because a retry does
undo what the first call relies on (section 6). `LonersInv` follows that call and the worker that
releases its booking: nobody else touches its card (`CardUntouched`), its authorization is on file
under the attempt when it inserts and under the booking once re-keyed (`AttemptOnFile`,
`BookingOnFile`), it gives back once and only after it has lost (`GivesBackOnce`), and nobody
cancels the hold of a call that asks or of a booking that lives (`HoldIsSafe`). A call that shares
its key is kept apart by the keys it uses.

Of `Payments`, `SucceededMeansMoved` needs to know what a call knows: `CallSound` says at each
point of a call's way under which key it runs, that a reversal asks for what was captured,
that the money has moved before it is recorded, and is recorded before it is filed.
`RowsSound` says that a row which is done carries an amount and, for a refund, a reason, which
is all a retry has to go by. `Settling` is the monotonicity it rests on: what has moved under
a key stays, and what is done stays done, so what one call knows outlives the steps of the
others (`OthersStaySound`, `BackedStay`). `AuditIsBacked` uses that an operator's key names its
reason, and keys differ (`KeysDiffer`). With that invariant, each step is one of the book or none
(`NextIsBook`): who is asked picks an operation up, the gateway moves its money, an outcome settles
or refers it, and a call is over only with an operation on file. `MoneyBook` adds to the invariants
what no state shows: money once moved is not moved again, and what is on file stays on file.

Of `Payouts`, one payout per key is the unique index, and `Told` that whoever is answered is
answered with the payout that has its key (`KeyInv`). `EarningsAgree` compares a sum over bookings
with a sum over rows, and `SetSums` has the theory both need: a sum is well defined, may begin
with any element, and compares term by term. It rests on an induction over the subsets of a
finite set that ranges over a *set* of sets instead of a predicate, which the provers can
instantiate. That a payout alone pays no more than is owed needs `Known`: the credit a payout has
read is at most the credit now, for credits are only added.

Of `Catalog`, that a public provider is vetted is not inductive, because a decision in flight
may approve on a reading long gone. `CallVetted` says what such a call has seen that cannot be
undone: the packet is complete once it has been checked, for papers are only added; a decision
in flight is about a provider that has submitted; a go-live about to be written has seen a
service. `Decided` says that every decision `nextStatus` makes is a move of the flow, which is
all the action property needs. `RatingInv` says that sum and count in the provider's row are those
of the reviews on file; a review adds itself to both in the transaction that files it, whatever
the row has become since it was read.

Of `Notifications`, `RowsHeld` says that a row on its way is undispatched and one dispatcher's,
which the lock gives; `MailedSoFar`, that who is off a dispatcher's list has been mailed;
`MailsCounted`, that every mail beyond the first has a fault behind it, and that a party the
present handling has not reached yet has had no mail that is not paid for by a fault. `RowsCovered`
compares the two lists of recipients row by row, and needs the outbox row to have been written
by `applyTransition`.

Of `Identity`, both properties are about behaviours in which no reset overlaps with another call
(`calm`), and in those `CalmInv` says where the reset's transaction is. Its statements go through
the pool one by one, each to the connection used last; the transaction is open on that very
connection and on no other (`OpenOn`), what it has written is what the call remembers, and no
connection has one open while no reset is between its `BEGIN` and its `COMMIT` (`AllQuiet`).
`RunWithin`, `CommitCalm` and `RollbackCalm` are the steps inside, `PlainCalm` those of all other
calls, which then run in no transaction and take effect at once. `CallOK` says what a call knows:
a session is opened with the password its account has, and what a reset has changed is about
its own account.

**Only model-checked**: the liveness properties `EventuallyTerminalForGood`, `CompletedIsSettled`,
`CreditIsEventuallyPaid`, `EveryTransitionIsTold`, `RemindersReachBoth` and `EveryCallIsAnswered`
(fairness and `ENABLED` are beyond the prover). Every invariant and every action property that a
passing run checks is also a theorem. That scores are rounded to thousandths is an abstraction: the theorems are about the score of the
model, with any nondecreasing table in place of the exponential of the completions.

## 6. Where the code and its documents part

Three are runs that TLC finds violated; the trace is the scenario.

| Run | The document says | The code does |
|---|---|---|
| `retry` | `docs/mvp/03-design.md:559` "A retry with the same key returns the original result rather than acting twice" | the key reaches the card only: the retry of a call that made its booking conflicts with that booking and is told that the slot was just taken |
| `retried_refund` | `authorization-service.ts:609-613` a retry is "the same call the original saga would have made" | the retry of a manual refund or reversal goes through `refund()` and its own key, so that a refund that had gone through with its answer lost is made twice |
| `remind_once` | `apps/api/src/reminder-flow.spec.ts:252` "a CONFIRMED booking's reminder fires once" | `sendDueReminders` claims with a `markDone` that does nothing: the row stays due for the rest of the loop, is claimed up to 50 times, and is mailed each time |

Others are stated as definitions beside the properties and belong to no run; putting one
into a configuration of its module makes TLC show the scenario.

- `TerminalIsTerminal` (`03-design.md:453` "Terminal states are terminal"): `applyTransition`
  writes the state decided on an unlocked read (`booking-service.ts:157`), so an accept decided
  before a cancellation brings the booking back to CONFIRMED, its hold already released.
- `SplitAtMostOnce` (`ledger-service.ts:35-39`, split is called "exactly once per booking per
  settlement event"): the check it relies on does not exist; two requests that both read
  CONFIRMED both complete the booking, the second capture is answered from the operations
  table, and both write their rows.
- `DisclosedConsequenceHolds` (`booking-routes.ts:166-169`, disclosed and charged "cannot drift"):
  both call the same function, at different times and on different rows.
- `CancelReleasesTheHold` (`02-requirements.md:285`, released "in full"): between insert and
  re-keying nothing is filed under the booking's id: the cancel is recorded as succeeded and
  the hold stays (`authorization-service.ts:239`).
- `NextPayoutWithinCadence` (`ledger-service.ts:234-241`, the clock "advances by one cadence
  period"): `sendDuePayouts` has the same empty `markDone`, and an account that is claimed many
  times over in one tick has its clock moved as often; the next payout may be most of a year off.

Neighbours of these, found while modelling:

- A retry that comes before the first call has re-keyed also cancels the hold they share; one
  that comes after the first booking was cancelled books again, on the cancelled hold. The
  confirm page sends a fresh key with every request, so asking again after an error is a new
  attempt and never a retry.
- A late cancellation that captured 50% and a stale no-show report that asks for 100% share one
  key: the second is answered from the operations table and splits the full price
  (`booking-effects.ts:44`).
- A process that dies between commit and effects leaves a completed booking with no operation on
  record, and one that dies between hold and insert leaves a hold no code looks for again: the
  claim named after a reconciler (`due-work-poller.ts:346`) raises an alarm and cancels nothing.
- Two payouts at once, or one on demand and the scheduled one, pay the same balance twice
  (`ledger-service.ts:130`).
- `confirmPasswordReset` sends `BEGIN`, its updates and `COMMIT` through `pool.query`. With another
  call at the same time, statements of that call may land in the reset's transaction and be
  rolled back with it after they were answered, and statements of the reset may land outside
  it; a sign-out inside a reset's transaction and a second reset can wait for each other until
  the database breaks the deadlock. Both properties of `resets` fail without `calm`.
- The public slots are computed without bookings (`DIS-005`, `BOK-002`): `computeSlots` would leave
  taken times out, but no caller of `AvailabilityService.slots` passes any (`availability-service.ts:134`
  defaults to none), so a customer is offered slots that are taken, and loses them only on
  `POST /bookings`. No property here says otherwise. `addException` checks a
  block against occupied times the client sends along.
- Extra windows of one day keep the order of their insertion, so the first slot shown need not
  be the earliest; `SlotsAreTheFreeGrid` promises the order only for windows that ascend.
- A provider without any slot stays in the results (`PRV-005`); a suspended provider can list
  itself again through go-live (`OPS-004`).
- A review, a decision or a go-live that has passed its checks is written however the provider's
  row has changed since; `OnlyStaleDecisionsLeaveTheFlow` says how far that can go.

## 7. Not modelled, and why

- **User interfaces, contracts, translations, mail templates, tests, build**: no state of the
  system.
- **Stripe webhooks**: the handler stores an event's id once and acknowledges it; no transition
  depends on it.
- **Alarms**: a window in memory that only writes log lines.
- **Composition, configuration, migrations**: wiring and constants; migrations run before the
  processes start.
- **Of the catalog**: edits of texts, place and radius, the reading of documents with its access
  log; single statements nothing else depends on. An edit that names one coordinate leaves the
  place as it was.
- **Of discovery**: geocoding, and the best-effort row of a search; the funnel's two counters of
  such rows.
- **Of identity**: the guest's draft, a signed cookie of which the server keeps nothing.
- **Of the poller**: the claim of deferred authorizations. It selects the rows that `setup` has filed
  as `SETUP_ONLY` once their `authorize_after` has passed (`authorization-service.ts:175-183`), raises
  an alarm for each, up to 50 times a tick since it marks nothing, and changes no state; the comments
  at `due-work-poller.ts:272-276` and `323-327`, by which it finds nothing yet, are out of date.

## 8. Plan

Done: all modules of section 2 and the runs of section 3; proofs of every safety invariant and
action property the runs check, and of the refinements of `SlotSale` and `MoneyBook`.

What would add most next: the checkout page of the web application as a client of the saga, when it
sends which key, and what it does with an answer that does not come.
