----------------------------- MODULE CreateSaga -----------------------------
(***************************************************************************)
(* POST /bookings step by step (apps/api/src/booking-saga.ts): authorize   *)
(* or set up the card under the client's Idempotency-Key (the attempt),    *)
(* insert the booking, re-key the authorization to it; on a slot lost to   *)
(* another, cancel the hold again.  Several calls compete for one slot;    *)
(* two calls with one attempt are a client's retry or double click.        *)
(*                                                                         *)
(* While the saga runs, a booking that exists may already be declined or   *)
(* cancelled: its ReleaseAuth effect runs cancelAuthorization too, under   *)
(* the booking's id.  So each call has two workers, one that creates and   *)
(* one that releases.                                                      *)
(*                                                                         *)
(* beginOperation's SELECT and INSERT are one step: the INSERT does        *)
(* nothing if the row exists, and nobody tells "pending" from no row.      *)
(* Whom an operation is attributed to (operations.booking_id) is left out: *)
(* idempotency is by key.                                                  *)
(***************************************************************************)
EXTENDS Integers

CONSTANTS
    Calls,          \* executions of POST /bookings; also names the booking each makes
    Attempts,       \* Idempotency-Keys
    AttemptOf,      \* the attempt of each call
    SlotStart,      \* when the slot everybody wants starts
    AuthHorizon,    \* authHorizonDays
    MaxTime,        \* bound: the clock stops here
    MaxFaults       \* bound: crashes, database errors, lost or refused calls

ASSUME AttemptsNameCalls == AttemptOf \in [Calls -> Attempts]
ASSUME AttemptsAreNotBookings == Attempts \cap Calls = {}
ASSUME SagaTimesAreNatural ==
    SlotStart \in Nat /\ AuthHorizon \in Nat /\ MaxTime \in Nat /\ MaxFaults \in Nat

VARIABLES
    clock,      \* the time
    op,         \* payments.operations: the state under each key
    gateway,    \* what exists at the gateway under authorize:a and setup:a
    row,        \* payments.authorizations, by booking_id (an attempt or a booking)
    booking,    \* the booking of each call: none, live (it holds the slot) or gone
    at,         \* where each worker is
    kind,       \* what each call asked of the card
    answer,     \* what each call's client was told
    faults      \* faults so far

vars == <<clock, op, gateway, row, booking, at, kind, answer, faults>>

Ids == Attempts \cup Calls
Cards == {"authorize", "setup"}
Keys == (Cards \X Attempts) \cup ({"cancel"} \X Ids)
Workers == {"create", "release"} \X Calls

Phases == {"idle", "gateway", "record", "file", "fail", "insert", "rekey",
           "attribute", "cancel", "void", "voided", "close", "unvoided", "over"}

Row == [status : {"none", "AUTHORIZED", "SETUP_ONLY", "CANCELLED"}, intent : BOOLEAN]
NoRow == [status |-> "none", intent |-> FALSE]

\* The worker's call, and the booking_id it passes to cancelAuthorization.
Id(w) == IF w[1] = "create" THEN AttemptOf[w[2]] ELSE w[2]
AttemptNamed(id) == IF id \in Attempts THEN id ELSE AttemptOf[id]

CardKey(c) == <<kind[c], AttemptOf[c]>>
Creator(c) == <<"create", c>>
Releaser(c) == <<"release", c>>

Go(w, from, to) == at[w] = from /\ at' = [at EXCEPT ![w] = to]

\* The call ends and its client hears `a`; a releaser answers nobody.
Finish(w, a) ==
    /\ at' = [at EXCEPT ![w] = "over"]
    /\ answer' = IF w[1] = "create" THEN [answer EXCEPT ![w[2]] = a] ELSE answer

Init ==
    /\ clock = 0
    /\ op = [k \in Keys |-> "none"]
    /\ gateway = [k \in Cards \X Attempts |-> "none"]
    /\ row = [id \in Ids |-> NoRow]
    /\ booking = [c \in Calls |-> "none"]
    /\ at = [w \in Workers |-> "idle"]
    /\ kind = [c \in Calls |-> "setup"]
    /\ answer = [c \in Calls |-> "none"]
    /\ faults = 0

Tick ==
    /\ clock < MaxTime
    /\ clock' = clock + 1
    /\ UNCHANGED <<op, gateway, row, booking, at, kind, answer, faults>>

Fault == faults < MaxFaults /\ faults' = faults + 1

---------------------------------------------------------------------------
\* Authorize or set up.

CardFor(now) == IF SlotStart - now <= AuthHorizon THEN "authorize" ELSE "setup"

\* Mutation: a key somebody is still working on counts as done.
AnsweredIfKnown(k) == op[k] \in {"pending", "succeeded"}

AnsweredFromTable(k) == op[k] = "succeeded"

\* Mutation: the operation is not recorded before the gateway is called.
BegunSilently(k) == op

Begun(k) == [op EXCEPT ![k] = "pending"]

\* A slot in the past is refused; a key that has succeeded is answered from the
\* operations table, one that has failed is refused, any other goes on.
Start(c) ==
    LET k == <<CardFor(clock), AttemptOf[c]>>
        w == Creator(c)
    IN  /\ at[w] = "idle"
        /\ kind' = [kind EXCEPT ![c] = k[1]]
        /\ \/ /\ SlotStart <= clock \/ op[k] = "failed"
              /\ Finish(w, "error")
              /\ UNCHANGED op
           \/ /\ SlotStart > clock /\ AnsweredFromTable(k)
              /\ at' = [at EXCEPT ![w] = "insert"]
              /\ UNCHANGED <<op, answer>>
           \/ /\ SlotStart > clock /\ op[k] # "failed" /\ ~AnsweredFromTable(k)
              /\ at' = [at EXCEPT ![w] = "gateway"]
              /\ op' = Begun(k)
              /\ UNCHANGED answer
    /\ UNCHANGED <<clock, gateway, row, booking, faults>>

\* The gateway holds or sets up the card, or repeats that it has.
GatewayTakes(c) ==
    LET k == CardKey(c)
    IN  /\ Go(Creator(c), "gateway", "record")
        /\ gateway[k] # "refused"
        /\ gateway' = [gateway EXCEPT ![k] = IF @ = "none" THEN "open" ELSE @]
        /\ UNCHANGED <<clock, op, row, booking, kind, answer, faults>>

\* It refuses the card, or repeats that it has.
GatewayRefuses(c) ==
    LET k == CardKey(c)
    IN  /\ Go(Creator(c), "gateway", "fail")
        /\ gateway[k] \in {"none", "refused"}
        /\ gateway' = [gateway EXCEPT ![k] = "refused"]
        /\ UNCHANGED <<clock, op, row, booking, kind, answer, faults>>

\* It cannot be reached, or did what was asked and its answer is lost.
GatewayLost(c) ==
    LET k == CardKey(c)
    IN  /\ Go(Creator(c), "gateway", "fail")
        /\ Fault
        /\ gateway' \in {gateway, [gateway EXCEPT ![k] = IF @ = "none" THEN "open" ELSE @]}
        /\ UNCHANGED <<clock, op, row, booking, kind, answer>>

Record(c) ==
    /\ Go(Creator(c), "record", "file")
    /\ op' = [op EXCEPT ![CardKey(c)] = "succeeded"]
    /\ UNCHANGED <<clock, gateway, row, booking, kind, answer, faults>>

\* INSERT ... ON CONFLICT (booking_id) DO UPDATE: a setup keeps the intent of an
\* authorization that came before it.
Filed(c, old) ==
    IF kind[c] = "authorize" THEN [status |-> "AUTHORIZED", intent |-> TRUE]
    ELSE [status |-> "SETUP_ONLY", intent |-> old.intent]

File(c) ==
    LET a == AttemptOf[c]
    IN  /\ Go(Creator(c), "file", "insert")
        /\ row' = [row EXCEPT ![a] = Filed(c, row[a])]
        /\ UNCHANGED <<clock, op, gateway, booking, kind, answer, faults>>

\* The catch block: the operation is marked failed, whatever the gateway did.
Fail(c) ==
    /\ at[Creator(c)] = "fail"
    /\ Finish(Creator(c), "error")
    /\ op' = [op EXCEPT ![CardKey(c)] = "failed"]
    /\ UNCHANGED <<clock, gateway, row, booking, kind, faults>>

---------------------------------------------------------------------------
\* Insert the booking, then re-key the authorization.

\* Mutation: the row is inserted whoever holds the slot.
Unexcluded == FALSE

Excluded == \E c \in Calls : booking[c] = "live"

InsertBooking(c) ==
    /\ \/ /\ ~Excluded
          /\ Go(Creator(c), "insert", "rekey")
          /\ booking' = [booking EXCEPT ![c] = "live"]
       \/ /\ Excluded
          /\ Go(Creator(c), "insert", "cancel")
          /\ UNCHANGED booking
    /\ UNCHANGED <<clock, op, gateway, row, kind, answer, faults>>

\* Mutation: the authorization stays under the attempt's id.
RekeyNothing(c) == row

\* UPDATE ... SET booking_id = c WHERE booking_id = the attempt's.
Rekeyed(c) ==
    LET a == AttemptOf[c]
    IN  IF row[a] = NoRow THEN row ELSE [row EXCEPT ![c] = row[a], ![a] = NoRow]

Rekey(c) ==
    /\ Go(Creator(c), "rekey", "attribute")
    /\ row' = Rekeyed(c)
    /\ UNCHANGED <<clock, op, gateway, booking, kind, answer, faults>>

\* The attempt's operations are attributed to the booking; the client is told.
Attribute(c) ==
    /\ at[Creator(c)] = "attribute"
    /\ Finish(Creator(c), "booked")
    /\ UNCHANGED <<clock, op, gateway, row, booking, kind, faults>>

\* Mutation: every error is compensated, also one after the booking was made.
EveryErrorCompensated(c) ==
    /\ \E p \in {"insert", "rekey", "attribute"} : Go(Creator(c), p, "cancel")
    /\ Fault
    /\ UNCHANGED <<clock, op, gateway, row, booking, kind, answer>>

\* Any error but the conflict is thrown on as it is: nothing is compensated.
InsertOrRekeyFails(c) ==
    /\ at[Creator(c)] \in {"insert", "rekey", "attribute"}
    /\ Fault
    /\ Finish(Creator(c), "error")
    /\ UNCHANGED <<clock, op, gateway, row, booking, kind>>

---------------------------------------------------------------------------
\* cancelAuthorization: by the saga for a slot it lost, under the attempt's id,
\* and by the ReleaseAuth effect for a booking, under the booking's.

\* The booking is declined, cancelled or expires: the slot is free again.
Leave(c) ==
    /\ booking[c] = "live"
    /\ booking' = [booking EXCEPT ![c] = "gone"]
    /\ Go(Releaser(c), "idle", "cancel")
    /\ UNCHANGED <<clock, op, gateway, row, kind, answer, faults>>

Intent(w) == <<"authorize", AttemptNamed(Id(w))>>

\* Mutation: the intent is looked for under the booking's id only.
HasIntentOfBooking(w) == w[1] = "release" /\ row[Id(w)].intent

\* The authorization row names a PaymentIntent.
HasIntent(w) == row[Id(w)].intent

\* The operation is begun and the authorization read.
CancelBegins(w) ==
    LET k == <<"cancel", Id(w)>>
    IN  /\ at[w] = "cancel"
        /\ \/ op[k] = "succeeded" /\ Finish(w, "taken") /\ UNCHANGED op
           \/ /\ op[k] # "succeeded"
              /\ at' = [at EXCEPT ![w] = IF HasIntent(w) THEN "void" ELSE "voided"]
              /\ op' = [op EXCEPT ![k] = IF @ = "none" THEN "pending" ELSE @]
              /\ UNCHANGED answer
        /\ UNCHANGED <<clock, gateway, row, booking, kind, faults>>

\* The intent that was read is cancelled at the gateway.
Void(w) ==
    /\ Go(w, "void", "voided")
    /\ gateway' = [gateway EXCEPT ![Intent(w)] = "canceled"]
    /\ UNCHANGED <<clock, op, row, booking, kind, answer, faults>>

\* The gateway refuses an intent that another key has cancelled; or it cannot be
\* reached, or did what was asked and its answer is lost.
VoidFails(w) ==
    /\ Go(w, "void", "unvoided")
    /\ \/ gateway[Intent(w)] = "canceled" /\ UNCHANGED <<gateway, faults>>
       \/ Fault /\ gateway' \in {gateway, [gateway EXCEPT ![Intent(w)] = "canceled"]}
    /\ UNCHANGED <<clock, op, row, booking, kind, answer>>

Voided(w) ==
    /\ Go(w, "voided", "close")
    /\ op' = [op EXCEPT ![<<"cancel", Id(w)>>] = "succeeded"]
    /\ UNCHANGED <<clock, gateway, row, booking, kind, answer, faults>>

Close(w) ==
    /\ at[w] = "close"
    /\ row' = IF row[Id(w)] = NoRow THEN row
              ELSE [row EXCEPT ![Id(w)] = [status |-> "CANCELLED",
                                         intent |-> row[Id(w)].intent]]
    /\ Finish(w, "taken")
    /\ UNCHANGED <<clock, op, gateway, booking, kind, faults>>

Unvoided(w) ==
    /\ at[w] = "unvoided"
    /\ op' = [op EXCEPT ![<<"cancel", Id(w)>>] = "failed"]
    /\ Finish(w, "error")
    /\ UNCHANGED <<clock, gateway, row, booking, kind, faults>>

---------------------------------------------------------------------------
\* A query in a try block fails: its catch block takes over.
DatabaseError(w) ==
    /\ \/ at[w] \in {"record", "file"} /\ at' = [at EXCEPT ![w] = "fail"]
       \/ at[w] \in {"voided", "close"} /\ at' = [at EXCEPT ![w] = "unvoided"]
    /\ Fault
    /\ UNCHANGED <<clock, op, gateway, row, booking, kind, answer>>

\* The process dies: nobody is told anything, and nothing takes over.  A query
\* that fails outside a try block, or in a catch block, comes to the same.
Crash(w) ==
    /\ at[w] \notin {"idle", "over"}
    /\ at' = [at EXCEPT ![w] = "over"]
    /\ Fault
    /\ UNCHANGED <<clock, op, gateway, row, booking, kind, answer>>

Create(c) ==
    \/ GatewayTakes(c) \/ GatewayRefuses(c) \/ GatewayLost(c)
    \/ Record(c) \/ File(c) \/ Fail(c)
    \/ InsertBooking(c) \/ Rekey(c) \/ Attribute(c) \/ InsertOrRekeyFails(c)

Cancel(w) ==
    \/ CancelBegins(w) \/ Void(w) \/ VoidFails(w) \/ Voided(w) \/ Close(w)
    \/ Unvoided(w)

Next ==
    \/ Tick
    \/ \E c \in Calls : Start(c) \/ Create(c) \/ Leave(c)
    \/ \E w \in Workers : Cancel(w) \/ DatabaseError(w) \/ Crash(w)

Spec == Init /\ [][Next]_vars

\* A call that has been received goes on until it returns or its process dies;
\* no client is obliged to call, nobody to decline or cancel, and no fault to strike.
Fairness ==
    /\ \A c \in Calls : WF_vars(Create(c) /\ UNCHANGED faults)
    /\ \A w \in Workers : WF_vars(Cancel(w) /\ UNCHANGED faults)

FairSpec == Spec /\ Fairness

---------------------------------------------------------------------------
\* Properties.

\* Every variable has its type, and an authorization on file names its intent.
TypeOK ==
    /\ clock \in 0..MaxTime
    /\ op \in [Keys -> {"none", "pending", "succeeded", "failed"}]
    /\ gateway \in [Cards \X Attempts -> {"none", "open", "refused", "canceled"}]
    /\ row \in [Ids -> Row]
    /\ \A id \in Ids : row[id].status = "AUTHORIZED" => row[id].intent
    /\ \A id \in Ids : row[id].status = "none" => ~row[id].intent
    /\ booking \in [Calls -> {"none", "live", "gone"}]
    /\ at \in [Workers -> Phases]
    /\ kind \in [Calls -> Cards]
    /\ answer \in [Calls -> {"none", "booked", "taken", "error"}]
    /\ faults \in 0..MaxFaults

\* The slot as SlotSale sees it.
StageOf(c) ==
    LET where == at[Creator(c)]
        told == answer[c] \in {"booked", "taken"}
    IN  CASE where = "over" /\ told -> answer[c]
          [] where = "over" /\ ~told -> "dropped"
          [] where \in {"cancel", "void", "voided", "close", "unvoided"} -> "lost"
          [] where \in {"rekey", "attribute"} -> "sold"
          [] OTHER -> "asking"

Sale == INSTANCE SlotSale WITH
    held <- {c \in Calls : booking[c] = "live"},
    stage <- [c \in Calls |-> StageOf(c)]

\* BOK-002: the saga sells the slot as SlotSale says, under every fault, retry
\* and interleaving.
SellsTheSlotOnce == Sale!Spec

\* PAY-001: no booking comes into being unless the gateway has held or set up
\* the card under its attempt, also when answers are lost or calls are retried.
NoBookingWithoutCard ==
    \A c \in Calls :
        booking[c] # "none" =>
            \E k \in Cards : gateway[<<k, AttemptOf[c]>>] \in {"open", "canceled"}

\* Design 8.4: nothing is asked of the gateway that the operations table does
\* not know of, and no key it calls succeeded has been refused.
GatewayIsRecorded ==
    \A k \in Cards \X Attempts :
        /\ gateway[k] # "none" => op[k] # "none"
        /\ op[k] = "succeeded" => gateway[k] \in {"open", "canceled"}

\* A call whose attempt no other call uses.
Alone(c) == \A d \in Calls : AttemptOf[d] = AttemptOf[c] => d = c

\* PAY-001: the payment record of a customer who was told "booked" is filed
\* under the booking, where capture and release will look for it.
BookedIsOnFile ==
    \A c \in Calls : Alone(c) /\ answer[c] = "booked" => row[c] # NoRow

\* BOK-002: whoever was told "just taken" has no hold left on the card.
TakenLeavesNoHold ==
    \A c \in Calls :
        Alone(c) /\ answer[c] = "taken"
            => gateway[<<"authorize", AttemptOf[c]>>] # "open"

\* PAY-001: no fault and nobody else's call takes back the hold of a booking that
\* holds its slot.  (A call of the same attempt does: it conflicts with the
\* booking of the first and cancels the authorization they share.)
LiveBookingKeepsItsHold ==
    \A c \in Calls :
        Alone(c) /\ booking[c] = "live"
            => gateway[<<"authorize", AttemptOf[c]>>] # "canceled"

\* A call that has been received is answered unless a fault strikes.
CallsAreAnswered ==
    \A c \in Calls : at[Creator(c)] # "idle" ~> answer[c] # "none" \/ faults > 0

---------------------------------------------------------------------------
\* Claims of the documents and comments that the saga does not keep.

\* Design 8.2: a retry with the same key returns the original result.  The
\* operations table answers for the card, but nothing answers for the booking: the
\* retry of a call that was told "booked" finds the slot taken, by itself.
RetryReturnsTheOriginalResult ==
    \A c, d \in Calls :
        ~(AttemptOf[c] = AttemptOf[d] /\ answer[c] = "booked" /\ answer[d] = "taken")

\* BOK-005: a PENDING booking that is cancelled has its authorization released
\* in full.  A decline or cancellation between insert and re-keying finds no
\* authorization under the booking's id and records that it has cancelled it.
CancelReleasesTheHold ==
    \A c \in Calls :
        op[<<"cancel", c>>] = "succeeded"
            => gateway[<<"authorize", AttemptOf[c]>>] # "open"
=============================================================================
