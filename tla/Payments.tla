------------------------------ MODULE Payments ------------------------------
(***************************************************************************)
(* Captures, refunds and the operator's corrections of one booking         *)
(* (libs/services/payments/src/authorization-service.ts and the routes of  *)
(* apps/api/src/admin-routes.ts that reach it).                            *)
(*                                                                         *)
(* A call is a worker that runs one of capture(), manualRefund(),          *)
(* reverseNoShow() and retryFailedOperation(), one query or gateway call   *)
(* at a time, while others run theirs.  CreateSaga has authorize(),        *)
(* setup() and cancelAuthorization() in the same grain.  refund() itself   *)
(* is reached through a retry only: no caller tells the state machine that *)
(* a booking is already captured, so its Refund effect is never emitted.   *)
(***************************************************************************)
EXTENDS Naturals, Sequences, FiniteSetsExt

CONSTANTS
    Calls,       \* the calls served, one each
    Reasons,     \* the reasons operators give
    Hold,        \* what the card was authorized for
    MaxFaults    \* bound: lost answers, database errors and crashes

ASSUME HoldIsPositive == Hold \in Nat \ {0}
ASSUME FaultsAreBounded == MaxFaults \in Nat

VARIABLES
    intent,    \* whether payments.authorizations names a PaymentIntent
    status,    \* payments.authorizations.status
    op,        \* payments.operations
    actions,   \* payments.manual_actions
    outbox,    \* payments.outbox
    moved,     \* what the gateway has moved under each idempotency key
    call,      \* where each call is
    faults     \* faults so far

vars == <<intent, status, op, actions, outbox, moved, call, faults>>

None == "none"
Amounts == 1..Hold

\* The idempotency keys, which are also the keys of payments.operations.
CaptureKey == <<"capture", None>>
ReversalKey == <<"no-show-reversal", None>>
RefundKey(reason) == <<"refund", reason>>
ManualKey(reason) == <<"manual-refund", reason>>

RefundKeys ==
    {ReversalKey} \cup {RefundKey(r) : r \in Reasons} \cup {ManualKey(r) : r \in Reasons}
Keys == {CaptureKey} \cup RefundKeys

OpRow == [ state : {"none", "pending", "succeeded", "failed"},
           amount : {0} \cup Amounts, reason : Reasons \cup {None} ]
NoOp == [state |-> "none", amount |-> 0, reason |-> None]

Asks == {"capture", "refund", "no_show_reversal", "retry"}
Places == {"begin", "insert", "gateway", "complete", "file", "fail", "record"}
Ends == {"over", "crashed"}

Idle == [pc |-> "idle"]
Reversing == [pc : {"reversal"}, reason : Reasons]
Running ==
    [ pc : Places \cup Ends, ask : Asks, key : Keys, amount : Amounts,
      reason : Reasons \cup {None} ]

Over(ask) ==
    [pc |-> "over", ask |-> ask, key |-> CaptureKey, amount |-> 1, reason |-> None]

Action == [kind : {"refund", "no_show_reversal"}, amount : Amounts, reason : Reasons]
Event == [type : {"PaymentCaptured", "PaymentRefunded"}, amount : Amounts]

\* failedOperations, the operators' list.
Exceptions == {k \in Keys : op[k].state = "failed"}

Refunded == MapThenSumSet(LAMBDA k : moved[k], RefundKeys)

---------------------------------------------------------------------------
Init ==
    /\ intent \in BOOLEAN
    /\ status = IF intent THEN "AUTHORIZED" ELSE "SETUP_ONLY"
    /\ op = [k \in Keys |-> NoOp]
    /\ actions = << >>
    /\ outbox = << >>
    /\ moved = [k \in Keys |-> 0]
    /\ call = [c \in Calls |-> Idle]
    /\ faults = 0

Ask(c, ask, key, amount, reason) ==
    call' = [call EXCEPT ![c] = [ pc |-> "begin", ask |-> ask, key |-> key,
                                  amount |-> amount, reason |-> reason ]]

Go(c, pc) == call' = [call EXCEPT ![c].pc = pc]
Refuse(c, ask) == call' = [call EXCEPT ![c] = Over(ask)]

\* A settlement effect: the whole price, or a part of it for a late cancellation.
AskCapture(c, amount) ==
    /\ call[c] = Idle
    /\ Ask(c, "capture", CaptureKey, amount, None)
    /\ UNCHANGED <<intent, status, op, actions, outbox, moved, faults>>

AskRefund(c, amount, reason) ==
    /\ call[c] = Idle
    /\ Ask(c, "refund", ManualKey(reason), amount, reason)
    /\ UNCHANGED <<intent, status, op, actions, outbox, moved, faults>>

\* reverseNoShow reads the authorization, then the capture.
AskReversal(c, reason) ==
    /\ call[c] = Idle
    /\ IF status = "CAPTURED" /\ intent
       THEN call' = [call EXCEPT ![c] = [pc |-> "reversal", reason |-> reason]]
       ELSE Refuse(c, "no_show_reversal")
    /\ UNCHANGED <<intent, status, op, actions, outbox, moved, faults>>

\* Mutation: the state of the capture is not asked for.
ReversibleIfKnown == op[CaptureKey].amount > 0

Reversible == op[CaptureKey].state = "succeeded"

ReadCapture(c) ==
    /\ call[c].pc = "reversal"
    /\ IF Reversible
       THEN Ask(c, "no_show_reversal", ReversalKey, op[CaptureKey].amount, call[c].reason)
       ELSE Refuse(c, "no_show_reversal")
    /\ UNCHANGED <<intent, status, op, actions, outbox, moved, faults>>

\* retryFailedOperation: a failed row carries what its retry needs.  The
\* retry of any refund goes through refund(), and so to refund()'s own key.
AskRetry(c, k) ==
    /\ call[c] = Idle
    /\ op[k] # NoOp
    /\ IF op[k].state = "failed"
       THEN IF k = CaptureKey
            THEN Ask(c, "retry", CaptureKey, op[k].amount, None)
            ELSE Ask(c, "retry", RefundKey(op[k].reason), op[k].amount, op[k].reason)
       ELSE Refuse(c, "retry")
    /\ UNCHANGED <<intent, status, op, actions, outbox, moved, faults>>

---------------------------------------------------------------------------
(* The call itself: capture() and refundWithKey() have one shape.          *)

\* Mutation: the operator's action is recorded before the refund is made.
AfterBeginRecorded(c) == IF call[c].ask \in {"refund", "no_show_reversal"}
                         THEN "record" ELSE "gateway"

AfterBegin(c) == IF intent THEN "gateway" ELSE "fail"

\* A refund an operator asked for is recorded once it has succeeded.
AfterSuccess(c) == IF call[c].ask \in {"refund", "no_show_reversal"}
                   THEN "record" ELSE "over"

\* beginOperation's SELECT; one found is followed by the read of the intent.
Begin(c) ==
    /\ call[c].pc = "begin"
    /\ Go(c, CASE op[call[c].key].state = "none" -> "insert"
               [] op[call[c].key].state = "succeeded" -> AfterSuccess(c)
               [] OTHER -> AfterBegin(c))
    /\ UNCHANGED <<intent, status, op, actions, outbox, moved, faults>>

\* beginOperation's INSERT ... ON CONFLICT DO NOTHING.
Insert(c) ==
    /\ call[c].pc = "insert"
    /\ op' = IF op[call[c].key].state = "none"
             THEN [op EXCEPT ![call[c].key].state = "pending"] ELSE op
    /\ Go(c, AfterBegin(c))
    /\ UNCHANGED <<intent, status, actions, outbox, moved, faults>>

\* The gateway answers a key it has served as it did then, refuses it with
\* other parameters, and moves no more than there is.
Acceptable(key, amount) ==
    \/ moved[key] = amount
    \/ /\ moved[key] = 0
       /\ key \in RefundKeys => amount <= moved[CaptureKey] - Refunded

GatewayTakes(c) ==
    /\ call[c].pc = "gateway"
    /\ Acceptable(call[c].key, call[c].amount)
    /\ moved' = [moved EXCEPT ![call[c].key] = call[c].amount]
    /\ Go(c, "complete")
    /\ UNCHANGED <<intent, status, op, actions, outbox, faults>>

GatewayRefuses(c) ==
    /\ call[c].pc = "gateway"
    /\ moved[call[c].key] # call[c].amount
    /\ Go(c, "fail")
    /\ UNCHANGED <<intent, status, op, actions, outbox, moved, faults>>

\* Mutation: a lost answer is taken for a yes.
LostMeansYes == "complete"

LostMeans == "fail"

\* The answer is lost, and perhaps the request already was.
GatewayLost(c) ==
    /\ call[c].pc = "gateway"
    /\ faults < MaxFaults
    /\ \/ UNCHANGED moved
       \/ /\ Acceptable(call[c].key, call[c].amount)
          /\ moved' = [moved EXCEPT ![call[c].key] = call[c].amount]
    /\ Go(c, LostMeans)
    /\ faults' = faults + 1
    /\ UNCHANGED <<intent, status, op, actions, outbox>>

Outcome(c, state) ==
    [state |-> state, amount |-> call[c].amount, reason |-> call[c].reason]

Complete(c) ==
    /\ call[c].pc = "complete"
    /\ op' = [op EXCEPT ![call[c].key] = Outcome(c, "succeeded")]
    /\ Go(c, "file")
    /\ UNCHANGED <<intent, status, actions, outbox, moved, faults>>

Fail(c) ==
    /\ call[c].pc = "fail"
    /\ op' = [op EXCEPT ![call[c].key] = Outcome(c, "failed")]
    /\ Go(c, "over")
    /\ UNCHANGED <<intent, status, actions, outbox, moved, faults>>

\* The transaction that files the new status and announces it.
File(c) ==
    /\ call[c].pc = "file"
    /\ status' = IF call[c].key = CaptureKey THEN "CAPTURED" ELSE "REFUNDED"
    /\ outbox' = Append(outbox,
           [ type |-> IF call[c].key = CaptureKey
                      THEN "PaymentCaptured" ELSE "PaymentRefunded",
             amount |-> call[c].amount ])
    /\ Go(c, AfterSuccess(c))
    /\ UNCHANGED <<intent, op, actions, moved, faults>>

\* Mutation: an error after the gateway's yes leaves the try as it is.
ErrorEscapes == "over"

AfterError == "fail"

\* Both writes after the gateway's yes lie inside the try.
DatabaseError(c) ==
    /\ call[c].pc \in {"complete", "file"}
    /\ faults < MaxFaults
    /\ faults' = faults + 1
    /\ Go(c, AfterError)
    /\ UNCHANGED <<intent, status, op, actions, outbox, moved>>

RecordManualAction(c) ==
    /\ call[c].pc = "record"
    /\ actions' = Append(actions, [ kind |-> call[c].ask, amount |-> call[c].amount,
                                    reason |-> call[c].reason ])
    /\ Go(c, "over")
    /\ UNCHANGED <<intent, status, op, outbox, moved, faults>>

Crash(c) ==
    /\ call[c].pc \in Places
    /\ faults < MaxFaults
    /\ faults' = faults + 1
    /\ Go(c, "crashed")
    /\ UNCHANGED <<intent, status, op, actions, outbox, moved>>

Step(c) ==
    \/ ReadCapture(c) \/ Begin(c) \/ Insert(c)
    \/ GatewayTakes(c) \/ GatewayRefuses(c) \/ GatewayLost(c)
    \/ Complete(c) \/ Fail(c) \/ File(c) \/ DatabaseError(c)
    \/ RecordManualAction(c) \/ Crash(c)

Next ==
    \E c \in Calls :
        \/ \E amount \in Amounts : AskCapture(c, amount)
        \/ \E amount \in Amounts, reason \in Reasons : AskRefund(c, amount, reason)
        \/ \E reason \in Reasons : AskReversal(c, reason)
        \/ \E k \in Keys : AskRetry(c, k)
        \/ Step(c)

Spec == Init /\ [][Next]_vars

---------------------------------------------------------------------------
(* Properties.                                                             *)

\* Every variable has its type.
TypeOK ==
    /\ intent \in BOOLEAN
    /\ status \in {"SETUP_ONLY", "AUTHORIZED", "CAPTURED", "REFUNDED"}
    /\ op \in [Keys -> OpRow]
    /\ actions \in Seq(Action)
    /\ outbox \in Seq(Event)
    /\ moved \in [Keys -> {0} \cup Amounts]
    /\ call \in [Calls -> {Idle} \cup Reversing \cup Running]
    /\ faults \in 0..MaxFaults

\* An operation that payments.operations calls succeeded has moved, under its
\* key, exactly the amount on record, however its calls race, fail and are
\* retried: the row that a retry or a second caller is answered from
\* (capture, refundWithKey) never claims money that did not move.
SucceededMeansMoved ==
    \A k \in Keys :
        op[k].state = "succeeded" => moved[k] = op[k].amount /\ moved[k] > 0

\* Money that has moved is on record as moved, or its operation is on the
\* list of exceptions an operator works from, or the call that moved it is
\* still at it or was cut off by a crash (capture, refundWithKey: every way
\* out of the call completes the operation).
NothingMovesUnseen ==
    \A k \in Keys :
        moved[k] > 0 =>
            \/ op[k].state = "succeeded"
            \/ k \in Exceptions
            \/ \E c \in Calls : call[c].pc \in Places \cup {"crashed"} /\ call[c].key = k

\* A reversed no-show returns what was captured, neither a part of it nor
\* what a capture that failed had asked for (reverseNoShow).
ReversalReturnsTheCapture ==
    moved[ReversalKey] > 0 => moved[ReversalKey] = moved[CaptureKey]

\* An operator's refund or reversal is on the audit trail only if money went
\* back under its key (manualRefund, reverseNoShow: "once the refund itself
\* succeeds").
ActionsAreBacked ==
    \A i \in DOMAIN actions :
        IF actions[i].kind = "refund"
        THEN moved[ManualKey(actions[i].reason)] > 0
        ELSE moved[ReversalKey] = actions[i].amount

\* The books as MoneyBook sees them: what is on file of an operation, what a
\* call has in hand, the crashed one what it had, and what an action attests.
FileOf(k) ==
    CASE op[k].state = "succeeded" -> [says |-> "done", amount |-> op[k].amount]
      [] op[k].state = "failed" -> [says |-> "exception", amount |-> 0]
      [] OTHER -> [says |-> "nothing", amount |-> 0]

HandOf(c) == IF call[c].pc \in Places \cup {"crashed"} THEN call[c].key ELSE << >>

Attested(action) ==
    [ key |-> IF action.kind = "refund" THEN ManualKey(action.reason) ELSE ReversalKey,
      amount |-> action.amount ]

Books == INSTANCE MoneyBook WITH
    Capture <- CaptureKey,
    Reversal <- ReversalKey,
    Free <- << >>,
    file <- [k \in Keys |-> FileOf(k)],
    hand <- [c \in Calls |-> HandOf(c)],
    trail <- [i \in DOMAIN actions |-> Attested(actions[i])]

\* PAY-002, OPS-002, OPS-003: money moves once under each key and in the hands of
\* a call, which lets go of it only when it is on file; what is on file stays on
\* file, and is attested only when it has moved (capture, manualRefund,
\* reverseNoShow, retryFailedOperation).
BooksAreKept == Books!Spec

\* authorization-service.ts:609-613: a retry is "the same call the original
\* saga would have made", so that one refund asked for moves money once.
RetryIsTheSameCall ==
    \A r \in Reasons : moved[RefundKey(r)] = 0 \/ moved[ManualKey(r)] = 0
=============================================================================
