--------------------------- MODULE Payments_proofs ---------------------------
(***************************************************************************)
(* Proofs about Payments: whatever the calls, their races, failures and    *)
(* crashes, payments.operations never claims money that has not moved,     *)
(* money that has moved is never out of an operator's sight, a reversal    *)
(* returns the capture, and the audit trail is backed - for any number of  *)
(* calls and faults, any reasons and any amount held.                      *)
(***************************************************************************)
EXTENDS Payments, TLAPS

\* An operation whose outcome is known has an amount, and a refund a reason.
RowsSound ==
    \A k \in Keys :
        op[k].state \in {"succeeded", "failed"} =>
            /\ op[k].amount \in Amounts
            /\ k # CaptureKey => op[k].reason \in Reasons

\* What is known of a call at each point of its way: under which key it runs,
\* that a reversal asks for what was captured, that the money has moved before
\* it is recorded, and is recorded before it is filed.
CallSound(c) ==
    /\ call[c].key # CaptureKey => call[c].reason \in Reasons
    /\ call[c].ask = "refund" => call[c].key = ManualKey(call[c].reason)
    /\ call[c].ask = "no_show_reversal" => call[c].key = ReversalKey
    /\ call[c].key = ReversalKey => call[c].amount = moved[CaptureKey]
    /\ call[c].pc \in {"complete", "file"} => moved[call[c].key] = call[c].amount
    /\ call[c].pc \in {"file", "record"} =>
           op[call[c].key].state \in {"succeeded", "failed"}
    /\ call[c].pc = "record" =>
           /\ call[c].ask \in {"refund", "no_show_reversal"}
           /\ moved[call[c].key] > 0

WaySound == \A c \in Calls : call[c].pc \in Places => CallSound(c)

PaymentsInv ==
    /\ TypeOK
    /\ RowsSound
    /\ WaySound
    /\ SucceededMeansMoved
    /\ NothingMovesUnseen
    /\ ReversalReturnsTheCapture
    /\ ActionsAreBacked

\* The steps of a call that has been asked, and those that ask.
Asking(c) ==
    \/ \E amount \in Amounts : AskCapture(c, amount)
    \/ \E amount \in Amounts, reason \in Reasons : AskRefund(c, amount, reason)
    \/ \E reason \in Reasons : AskReversal(c, reason)
    \/ \E k \in Keys : AskRetry(c, k)
    \/ ReadCapture(c)

---------------------------------------------------------------------------
\* The keys of different operations are different.
LEMMA KeysDiffer ==
    /\ CaptureKey \in Keys /\ ReversalKey \in Keys
    /\ ReversalKey \in RefundKeys /\ CaptureKey \notin RefundKeys
    /\ RefundKeys \subseteq Keys
    /\ \A r \in Reasons :
         /\ RefundKey(r) \in RefundKeys /\ ManualKey(r) \in RefundKeys
         /\ RefundKey(r) # ReversalKey /\ ManualKey(r) # ReversalKey
         /\ RefundKey(r) # CaptureKey /\ ManualKey(r) # CaptureKey
    /\ ReversalKey # CaptureKey
    BY DEF Keys, RefundKeys, CaptureKey, ReversalKey, RefundKey, ManualKey

\* A call that is somewhere on its way has all the fields of one.
LEMMA RunningCalls ==
    ASSUME TypeOK, NEW c \in Calls, call[c].pc \in Places \cup Ends
    PROVE  /\ call[c] \in Running
           /\ call[c].key \in Keys /\ call[c].amount \in Amounts
           /\ call[c].ask \in Asks /\ call[c].reason \in Reasons \cup {None}
  <1>1. call[c] # Idle /\ call[c] \notin Reversing
    BY DEF Idle, Reversing, Places, Ends
  <1>2. call[c] \in Running
    BY <1>1 DEF TypeOK
  <1> QED
    BY <1>2 DEF Running

\* Nothing has been asked, moved or recorded.
LEMMA InitInv == Init => PaymentsInv
  <1> SUFFICES ASSUME Init PROVE PaymentsInv
    OBVIOUS
  <1>1. \A c \in Calls : call[c].pc \notin Places /\ call[c] = Idle
    BY DEF Init, Idle, Places
  <1>2. TypeOK
    BY FaultsAreBounded DEF Init, TypeOK, OpRow, NoOp
  <1>3. \A k \in Keys : op[k].state = "none" /\ moved[k] = 0
    BY DEF Init, NoOp
  <1>4. SucceededMeansMoved /\ NothingMovesUnseen /\ ReversalReturnsTheCapture
    BY <1>3, KeysDiffer DEF SucceededMeansMoved, NothingMovesUnseen, ReversalReturnsTheCapture
  <1>5. ActionsAreBacked
    BY DEF Init, ActionsAreBacked
  <1> QED
    BY <1>1, <1>2, <1>3, <1>4, <1>5 DEF PaymentsInv, RowsSound, WaySound

---------------------------------------------------------------------------
(* How a step of a call changes the calls.                                 *)

\* A call that goes on keeps everything but its place.
LEMMA Goes ==
    ASSUME TypeOK, NEW c \in Calls, call[c].pc \in Places,
           NEW p \in Places \cup Ends, Go(c, p)
    PROVE  /\ call' \in [Calls -> {Idle} \cup Reversing \cup Running]
           /\ call'[c] = [call[c] EXCEPT !.pc = p]
           /\ call'[c].pc = p
           /\ call'[c].key = call[c].key /\ call'[c].amount = call[c].amount
           /\ call'[c].ask = call[c].ask /\ call'[c].reason = call[c].reason
           /\ \A d \in Calls \ {c} : call'[d] = call[d]
  <1>1. call[c] \in Running
    BY RunningCalls
  <1>2. /\ call' = [call EXCEPT ![c] = [call[c] EXCEPT !.pc = p]]
        /\ call \in [Calls -> {Idle} \cup Reversing \cup Running]
    BY DEF Go, TypeOK
  <1>3. [call[c] EXCEPT !.pc = p] \in Running
    BY <1>1 DEF Running
  <1> QED
    BY <1>1, <1>2, <1>3 DEF Running

\* A call that is asked has everything it runs with, and is sound.
LEMMA Asked ==
    ASSUME TypeOK, NEW c \in Calls, NEW a \in Asks, NEW k \in Keys,
           NEW m \in Amounts, NEW r \in Reasons \cup {None}, Ask(c, a, k, m, r),
           k # CaptureKey => r \in Reasons,
           a = "refund" => k = ManualKey(r),
           a = "no_show_reversal" => k = ReversalKey,
           k = ReversalKey => m = moved'[CaptureKey]
    PROVE  /\ call' \in [Calls -> {Idle} \cup Reversing \cup Running]
           /\ call'[c].pc = "begin" /\ CallSound(c)'
           /\ \A d \in Calls \ {c} : call'[d] = call[d]
  <1>1. [pc |-> "begin", ask |-> a, key |-> k, amount |-> m, reason |-> r] \in Running
    BY DEF Running, Places
  <1>2. /\ call' \in [Calls -> {Idle} \cup Reversing \cup Running]
        /\ call'[c] = [pc |-> "begin", ask |-> a, key |-> k, amount |-> m, reason |-> r]
        /\ \A d \in Calls \ {c} : call'[d] = call[d]
    BY <1>1 DEF Ask, TypeOK
  <1>3. CallSound(c)'
    BY <1>2 DEF CallSound
  <1> QED
    BY <1>2, <1>3

\* Nothing is lost of a call that is refused.
LEMMA Refused ==
    ASSUME TypeOK, NEW c \in Calls, NEW a \in Asks, Refuse(c, a)
    PROVE  /\ call' \in [Calls -> {Idle} \cup Reversing \cup Running]
           /\ call'[c].pc = "over"
           /\ \A d \in Calls \ {c} : call'[d] = call[d]
  <1>1. Over(a) \in Running /\ Over(a).pc = "over"
    BY HoldIsPositive, KeysDiffer DEF Over, Running, Ends, Amounts
  <1> QED
    BY <1>1 DEF Refuse, TypeOK

\* A call that is asked, or is refused, or reads what it would reverse, changes
\* nothing but its own place, and is sound where it begins.
LEMMA AskingChanges ==
    ASSUME PaymentsInv, NEW c \in Calls, Asking(c)
    PROVE  /\ call' \in [Calls -> {Idle} \cup Reversing \cup Running]
           /\ \A d \in Calls \ {c} : call'[d] = call[d]
           /\ call'[c].pc \in {"begin", "over", "reversal"}
           /\ call'[c].pc = "begin" => CallSound(c)'
           /\ call[c].pc \in {"idle", "reversal"}
           /\ UNCHANGED <<intent, status, op, actions, outbox, moved, faults>>
  <1> USE KeysDiffer DEF PaymentsInv
  <1>1. CASE \E amount \in Amounts : AskCapture(c, amount)
    <2>1. PICK amount \in Amounts : AskCapture(c, amount)
      BY <1>1
    <2>2. Ask(c, "capture", CaptureKey, amount, None) /\ "capture" \in Asks
      BY <2>1 DEF AskCapture, Asks
    <2>3. UNCHANGED <<intent, status, op, actions, outbox, moved, faults>>
      BY <2>1 DEF AskCapture
    <2> QED
      BY <2>1, <2>2, <2>3, Asked DEF AskCapture, Idle
  <1>2. CASE \E amount \in Amounts, reason \in Reasons : AskRefund(c, amount, reason)
    <2>1. PICK amount \in Amounts, reason \in Reasons : AskRefund(c, amount, reason)
      BY <1>2
    <2>2. Ask(c, "refund", ManualKey(reason), amount, reason) /\ "refund" \in Asks
      BY <2>1 DEF AskRefund, Asks
    <2>3. UNCHANGED <<intent, status, op, actions, outbox, moved, faults>>
      BY <2>1 DEF AskRefund
    <2> QED
      BY <2>1, <2>2, <2>3, Asked DEF AskRefund, Idle
  <1>3. CASE \E reason \in Reasons : AskReversal(c, reason)
    <2>1. PICK reason \in Reasons : AskReversal(c, reason)
      BY <1>3
    <2>2. UNCHANGED <<intent, status, op, actions, outbox, moved, faults>> /\ call[c].pc = "idle"
      BY <2>1 DEF AskReversal, Idle
    <2>3. CASE Refuse(c, "no_show_reversal")
      BY <2>2, <2>3, Refused DEF Asks
    <2>4. CASE call' = [call EXCEPT ![c] = [pc |-> "reversal", reason |-> reason]]
      BY <2>2, <2>4 DEF TypeOK, Reversing
    <2> QED
      BY <2>1, <2>3, <2>4 DEF AskReversal
  <1>4. CASE \E k \in Keys : AskRetry(c, k)
    <2>1. PICK k \in Keys : AskRetry(c, k)
      BY <1>4
    <2>2. UNCHANGED <<intent, status, op, actions, outbox, moved, faults>> /\ call[c].pc = "idle"
      BY <2>1 DEF AskRetry, Idle
    <2>3. CASE op[k].state # "failed"
      BY <2>1, <2>2, <2>3, Refused DEF AskRetry, Asks
    <2>4. CASE op[k].state = "failed" /\ k = CaptureKey
      <3>1. Ask(c, "retry", CaptureKey, op[k].amount, None) /\ op[k].amount \in Amounts
        BY <2>1, <2>4 DEF AskRetry, RowsSound
      <3> QED
        BY <3>1, <2>2, Asked DEF Asks
    <2>5. CASE op[k].state = "failed" /\ k # CaptureKey
      <3>1. /\ Ask(c, "retry", RefundKey(op[k].reason), op[k].amount, op[k].reason)
            /\ op[k].amount \in Amounts /\ op[k].reason \in Reasons
        BY <2>1, <2>5 DEF AskRetry, RowsSound
      <3> QED
        BY <3>1, <2>2, Asked DEF Asks
    <2> QED
      BY <2>3, <2>4, <2>5
  <1>5. CASE ReadCapture(c)
    <2>1. call[c] \in Reversing /\ call[c].reason \in Reasons /\ call[c].pc = "reversal"
      BY <1>5 DEF ReadCapture, TypeOK, Idle, Running, Reversing, Places, Ends
    <2>2. UNCHANGED <<intent, status, op, actions, outbox, moved, faults>>
      BY <1>5 DEF ReadCapture
    <2>3. CASE Reversible
      <3>1. op[CaptureKey].amount \in Amounts /\ moved[CaptureKey] = op[CaptureKey].amount
        BY <2>3 DEF Reversible, RowsSound, SucceededMeansMoved
      <3>2. Ask(c, "no_show_reversal", ReversalKey, op[CaptureKey].amount, call[c].reason)
        BY <1>5, <2>3 DEF ReadCapture
      <3> QED
        BY <2>1, <2>2, <3>1, <3>2, Asked DEF Asks
    <2>4. CASE ~Reversible
      BY <1>5, <2>1, <2>2, <2>4, Refused DEF ReadCapture, Asks
    <2> QED
      BY <2>3, <2>4
  <1> QED
    BY <1>1, <1>2, <1>3, <1>4, <1>5 DEF Asking

---------------------------------------------------------------------------
(* What a step may do to money and records, and who keeps sound by it.     *)

\* Money moves once under a key, and an outcome on record stays one.
Settling ==
    /\ \A k \in Keys : moved[k] > 0 => moved'[k] = moved[k]
    /\ \A k \in Keys : op[k].state \in {"succeeded", "failed"} =>
                           op'[k].state \in {"succeeded", "failed"}

\* What is known of a call outlives the steps of other calls.
LEMMA OthersStaySound ==
    ASSUME PaymentsInv, Settling, NEW d \in Calls, call[d].pc \in Places,
           call'[d] = call[d]
    PROVE  CallSound(d)'
  <1>1. call[d].key \in Keys /\ call[d].amount \in Amounts
    BY RunningCalls DEF PaymentsInv
  <1>2. CallSound(d)
    BY DEF PaymentsInv, WaySound
  <1>3. call[d].amount > 0
    BY <1>1, HoldIsPositive DEF Amounts
  <1>4. CaptureKey \in Keys
    BY KeysDiffer
  <1> QED
    BY <1>1, <1>2, <1>3, <1>4 DEF CallSound, Settling

\* A reversal that has moved money, and an action on record, stay backed.
LEMMA BackedStay ==
    ASSUME PaymentsInv, Settling, UNCHANGED actions,
           moved[ReversalKey] = 0 => moved'[ReversalKey] \in {0, moved'[CaptureKey]}
    PROVE  ReversalReturnsTheCapture' /\ ActionsAreBacked'
  <1>1. moved \in [Keys -> {0} \cup Amounts] /\ CaptureKey \in Keys /\ ReversalKey \in Keys
    BY KeysDiffer DEF PaymentsInv, TypeOK
  <1>2. \A k \in Keys : moved[k] = 0 \/ moved[k] > 0
    BY <1>1, HoldIsPositive DEF Amounts
  <1>3. ReversalReturnsTheCapture'
    <2>1. CASE moved[ReversalKey] = 0
      BY <2>1, <1>1 DEF ReversalReturnsTheCapture
    <2>2. CASE moved[ReversalKey] > 0
      BY <2>2, <1>1 DEF PaymentsInv, ReversalReturnsTheCapture, Settling
    <2> QED
      BY <1>1, <1>2, <2>1, <2>2
  <1>4. ActionsAreBacked'
    <2> SUFFICES ASSUME NEW i \in DOMAIN actions
                 PROVE  IF actions[i].kind = "refund"
                        THEN moved'[ManualKey(actions[i].reason)] > 0
                        ELSE moved'[ReversalKey] = actions[i].amount
      BY DEF ActionsAreBacked
    <2>0. actions[i] \in Action
      BY DEF PaymentsInv, TypeOK
    <2>1. /\ actions[i].reason \in Reasons /\ actions[i].amount \in Amounts
      BY <2>0 DEF Action
    <2>2. /\ ManualKey(actions[i].reason) \in Keys
          /\ actions[i].amount > 0
      BY <2>1, KeysDiffer, HoldIsPositive DEF Amounts
    <2> QED
      BY <2>2, <1>1 DEF PaymentsInv, ActionsAreBacked, Settling
  <1> QED
    BY <1>3, <1>4

\* A step that leaves money, records and the audit trail alone.
LEMMA QuietStep ==
    ASSUME PaymentsInv, NEW c \in Calls,
           call' \in [Calls -> {Idle} \cup Reversing \cup Running],
           \A d \in Calls \ {c} : call'[d] = call[d],
           call'[c].pc \in Places => CallSound(c)',
           call[c].pc \in Places => \/ call'[c].pc \in Places \cup {"crashed"} /\ call'[c].key = call[c].key
                                   \/ op[call[c].key].state \in {"succeeded", "failed"},
           call[c].pc # "crashed",
           UNCHANGED <<intent, status, op, actions, outbox, moved>>, faults' \in 0..MaxFaults
    PROVE  PaymentsInv'
  <1>1. Settling
    BY DEF Settling
  <1>2. TypeOK'
    BY DEF PaymentsInv, TypeOK
  <1>3. RowsSound' /\ SucceededMeansMoved'
    BY DEF PaymentsInv, RowsSound, SucceededMeansMoved
  <1>4. WaySound'
    BY <1>1, OthersStaySound DEF WaySound
  <1>5. NothingMovesUnseen'
    <2> SUFFICES ASSUME NEW k \in Keys, moved[k] > 0, op[k].state # "succeeded", k \notin Exceptions
                 PROVE  \E d \in Calls : call'[d].pc \in Places \cup {"crashed"} /\ call'[d].key = k
      BY DEF NothingMovesUnseen, Exceptions
    <2>1. PICK d \in Calls : call[d].pc \in Places \cup {"crashed"} /\ call[d].key = k
      BY DEF PaymentsInv, NothingMovesUnseen
    <2>2. op[k].state \notin {"succeeded", "failed"}
      BY DEF Exceptions
    <2>3. CASE d = c
      BY <2>1, <2>2, <2>3
    <2>4. CASE d # c
      BY <2>1, <2>4
    <2> QED
      BY <2>3, <2>4
  <1>6. ReversalReturnsTheCapture' /\ ActionsAreBacked'
    BY DEF PaymentsInv, ReversalReturnsTheCapture, ActionsAreBacked
  <1> QED
    BY <1>2, <1>3, <1>4, <1>5, <1>6 DEF PaymentsInv

---------------------------------------------------------------------------
(* The steps.                                                              *)

\* What is asked moves nothing, and asks for what may be asked.
LEMMA AskingKeepsInv ==
    ASSUME PaymentsInv, NEW c \in Calls, Asking(c)
    PROVE  PaymentsInv'
  <1>1. /\ call' \in [Calls -> {Idle} \cup Reversing \cup Running]
        /\ \A d \in Calls \ {c} : call'[d] = call[d]
        /\ call'[c].pc \in {"begin", "over", "reversal"}
        /\ call'[c].pc = "begin" => CallSound(c)'
        /\ call[c].pc \in {"idle", "reversal"}
        /\ UNCHANGED <<intent, status, op, actions, outbox, moved, faults>>
    BY AskingChanges
  <1>2. faults' \in 0..MaxFaults
    BY <1>1 DEF PaymentsInv, TypeOK
  <1> QED
    BY <1>1, <1>2, QuietStep DEF Places

\* Begin finds the operation done, in which case its money has moved, or goes on.
LEMMA BeginKeepsInv ==
    ASSUME PaymentsInv, NEW c \in Calls, Begin(c)
    PROVE  PaymentsInv'
  <1>1. call[c].pc = "begin" /\ call[c].pc \in Places
    BY DEF Begin, Places
  <1>2. call[c].key \in Keys /\ CallSound(c)
    BY <1>1, RunningCalls DEF PaymentsInv, WaySound
  <1>3. PICK p \in {"insert", "record", "over", "gateway", "fail"} :
          /\ Go(c, p)
          /\ p \in {"record", "over"} => op[call[c].key].state = "succeeded"
          /\ p = "record" => call[c].ask \in {"refund", "no_show_reversal"}
    BY DEF Begin, AfterSuccess, AfterBegin
  <1>4. op[call[c].key].state = "succeeded" => moved[call[c].key] > 0
    BY <1>2 DEF PaymentsInv, SucceededMeansMoved
  <1>5. UNCHANGED <<intent, status, op, actions, outbox, moved, faults>>
    BY DEF Begin
  <1>6. /\ call' \in [Calls -> {Idle} \cup Reversing \cup Running]
        /\ call'[c].pc = p
        /\ call'[c].key = call[c].key /\ call'[c].amount = call[c].amount
        /\ call'[c].ask = call[c].ask /\ call'[c].reason = call[c].reason
        /\ \A d \in Calls \ {c} : call'[d] = call[d]
    BY <1>1, <1>3, Goes DEF PaymentsInv, Places, Ends
  <1>7. call'[c].pc \in Places => CallSound(c)'
    BY <1>2, <1>3, <1>4, <1>5, <1>6 DEF CallSound
  <1>8. faults' \in 0..MaxFaults
    BY <1>5 DEF PaymentsInv, TypeOK
  <1> QED
    BY <1>1, <1>3, <1>5, <1>6, <1>7, <1>8, QuietStep DEF Places

\* An error after the gateway's yes, a refusal, a crash.
LEMMA SetbackKeepsInv ==
    ASSUME PaymentsInv, NEW c \in Calls,
           GatewayRefuses(c) \/ DatabaseError(c) \/ Crash(c)
    PROVE  PaymentsInv'
  <1>1. call[c].pc \in Places
    BY DEF GatewayRefuses, DatabaseError, Crash, Places
  <1>2. CallSound(c)
    BY <1>1 DEF PaymentsInv, WaySound
  <1>3. PICK p \in {"fail", "crashed"} : Go(c, p)
    BY DEF GatewayRefuses, DatabaseError, Crash, AfterError
  <1>4. UNCHANGED <<intent, status, op, actions, outbox, moved>>
    BY DEF GatewayRefuses, DatabaseError, Crash
  <1>5. /\ call' \in [Calls -> {Idle} \cup Reversing \cup Running]
        /\ call'[c].pc = p
        /\ call'[c].key = call[c].key /\ call'[c].amount = call[c].amount
        /\ call'[c].ask = call[c].ask /\ call'[c].reason = call[c].reason
        /\ \A d \in Calls \ {c} : call'[d] = call[d]
    BY <1>1, <1>3, Goes DEF PaymentsInv, Places, Ends
  <1>6. call'[c].pc \in Places => CallSound(c)'
    BY <1>2, <1>4, <1>5 DEF CallSound
  <1>7. faults' \in 0..MaxFaults
    BY FaultsAreBounded DEF GatewayRefuses, DatabaseError, Crash, PaymentsInv, TypeOK
  <1> QED
    BY <1>1, <1>4, <1>5, <1>6, <1>7, QuietStep DEF Places

\* A step of a call that goes on to a place of its own, whatever it does to
\* money and records on the way.
LEMMA LoudStep ==
    ASSUME PaymentsInv, NEW c \in Calls, call[c].pc \in Places,
           NEW p \in Places \cup {"over"}, Go(c, p), Settling,
           op' \in [Keys -> OpRow], moved' \in [Keys -> {0} \cup Amounts],
           status' \in {"SETUP_ONLY", "AUTHORIZED", "CAPTURED", "REFUNDED"},
           outbox' \in Seq(Event), faults' \in 0..MaxFaults, UNCHANGED intent,
           \A k \in Keys \ {call[c].key} : op'[k] = op[k] /\ moved'[k] = moved[k],
           p \in Places => CallSound(c)',
           p = "over" => op'[call[c].key].state \in {"succeeded", "failed"}
    PROVE  /\ call' \in [Calls -> {Idle} \cup Reversing \cup Running]
           /\ WaySound' /\ NothingMovesUnseen'
           /\ actions' \in Seq(Action) => TypeOK'
  <1>1. /\ call' \in [Calls -> {Idle} \cup Reversing \cup Running]
        /\ call'[c].pc = p /\ call'[c].key = call[c].key
        /\ \A d \in Calls \ {c} : call'[d] = call[d]
    BY Goes DEF PaymentsInv, Ends
  <1>2. WaySound'
    BY <1>1, OthersStaySound DEF WaySound
  <1>3. NothingMovesUnseen'
    <2> SUFFICES ASSUME NEW k \in Keys, moved'[k] > 0, op'[k].state \notin {"succeeded", "failed"}
                 PROVE  \E d \in Calls : call'[d].pc \in Places \cup {"crashed"} /\ call'[d].key = k
      BY DEF NothingMovesUnseen, Exceptions
    <2>1. CASE k = call[c].key
      BY <2>1, <1>1
    <2>2. CASE k # call[c].key
      <3>1. moved[k] > 0 /\ op[k].state \notin {"succeeded", "failed"}
        BY <2>2
      <3>2. PICK d \in Calls : call[d].pc \in Places \cup {"crashed"} /\ call[d].key = k
        BY <3>1 DEF PaymentsInv, NothingMovesUnseen, Exceptions
      <3> QED
        BY <1>1, <2>2, <3>2
    <2> QED
      BY <2>1, <2>2
  <1>4. actions' \in Seq(Action) => TypeOK'
    BY <1>1 DEF PaymentsInv, TypeOK
  <1> QED
    BY <1>1, <1>2, <1>3, <1>4

\* beginOperation's INSERT: the operation is pending, and its money can move.
LEMMA InsertKeepsInv ==
    ASSUME PaymentsInv, NEW c \in Calls, Insert(c)
    PROVE  PaymentsInv'
  <1>1. call[c].pc = "insert" /\ call[c].pc \in Places
    BY DEF Insert, Places
  <1>2. call[c].key \in Keys /\ CallSound(c)
    BY <1>1, RunningCalls DEF PaymentsInv, WaySound
  <1>3. PICK p \in {"gateway", "fail"} : Go(c, p)
    BY DEF Insert, AfterBegin
  <1>4. /\ call'[c].pc = p
        /\ call'[c].key = call[c].key /\ call'[c].amount = call[c].amount
        /\ call'[c].ask = call[c].ask /\ call'[c].reason = call[c].reason
    BY <1>1, <1>3, Goes DEF PaymentsInv, Places
  <1>5. /\ op' \in [Keys -> OpRow]
        /\ \A k \in Keys : op'[k] = op[k] \/ (op[k].state = "none" /\ op'[k].state = "pending")
        /\ \A k \in Keys \ {call[c].key} : op'[k] = op[k]
    BY <1>2 DEF Insert, PaymentsInv, TypeOK, OpRow
  <1>6. UNCHANGED <<intent, status, actions, outbox, moved, faults>>
    BY DEF Insert
  <1>7. Settling
    BY <1>5, <1>6 DEF Settling
  <1>8. p \in Places => CallSound(c)'
    BY <1>2, <1>3, <1>4, <1>6 DEF CallSound
  <1>9. TypeOK' /\ WaySound' /\ NothingMovesUnseen'
    BY <1>1, <1>3, <1>5, <1>6, <1>7, <1>8, LoudStep DEF PaymentsInv, TypeOK, Places
  <1>10. RowsSound' /\ SucceededMeansMoved'
    BY <1>5, <1>6 DEF PaymentsInv, RowsSound, SucceededMeansMoved
  <1>11. ReversalReturnsTheCapture' /\ ActionsAreBacked'
    BY <1>6 DEF PaymentsInv, ReversalReturnsTheCapture, ActionsAreBacked
  <1> QED
    BY <1>9, <1>10, <1>11 DEF PaymentsInv

\* The gateway moves the amount asked for, or has done so before; or it has
\* moved nothing, or its answer is lost.
LEMMA GatewayKeepsInv ==
    ASSUME PaymentsInv, NEW c \in Calls, GatewayTakes(c) \/ GatewayLost(c)
    PROVE  PaymentsInv'
  <1>1. call[c].pc = "gateway" /\ call[c].pc \in Places
    BY DEF GatewayTakes, GatewayLost, Places
  <1>2. /\ call[c].key \in Keys /\ CallSound(c)
        /\ call[c].amount \in Amounts /\ call[c].amount > 0
    BY <1>1, RunningCalls, HoldIsPositive DEF PaymentsInv, WaySound, Amounts
  <1>3. PICK p \in {"complete", "fail"} :
          /\ Go(c, p)
          /\ p = "complete" => GatewayTakes(c)
    BY DEF GatewayTakes, GatewayLost, LostMeans
  <1>4. /\ call'[c].pc = p
        /\ call'[c].key = call[c].key /\ call'[c].amount = call[c].amount
        /\ call'[c].ask = call[c].ask /\ call'[c].reason = call[c].reason
    BY <1>1, <1>3, Goes DEF PaymentsInv, Places
  <1>5. UNCHANGED <<intent, status, op, actions, outbox>> /\ faults' \in 0..MaxFaults
    BY FaultsAreBounded DEF GatewayTakes, GatewayLost, PaymentsInv, TypeOK
  <1>6. \/ UNCHANGED moved /\ ~GatewayTakes(c)
        \/ /\ moved' = [moved EXCEPT ![call[c].key] = call[c].amount]
           /\ moved[call[c].key] \in {0, call[c].amount}
    BY DEF GatewayTakes, GatewayLost, Acceptable
  <1>7. /\ moved' \in [Keys -> {0} \cup Amounts]
        /\ \A k \in Keys \ {call[c].key} : moved'[k] = moved[k]
        /\ \A k \in Keys : moved[k] > 0 => moved'[k] = moved[k]
        /\ GatewayTakes(c) => moved'[call[c].key] = call[c].amount
    BY <1>2, <1>6 DEF PaymentsInv, TypeOK
  <1>8. Settling
    BY <1>5, <1>7 DEF Settling
  <1>r. CaptureKey \in Keys /\ ReversalKey \in Keys /\ ReversalKey # CaptureKey
    BY KeysDiffer
  <1>9. p \in Places => CallSound(c)'
    <2>1. call[c].key = ReversalKey => moved[CaptureKey] = call[c].amount /\ moved[CaptureKey] > 0
      BY <1>2 DEF CallSound
    <2>2. call[c].key = ReversalKey => moved'[CaptureKey] = call[c].amount
      BY <2>1, <1>7, <1>r
    <2> QED
      BY <1>2, <1>3, <1>4, <1>5, <1>7, <2>2 DEF CallSound
  <1>10. TypeOK' /\ WaySound' /\ NothingMovesUnseen'
    BY <1>1, <1>3, <1>5, <1>7, <1>8, <1>9, LoudStep DEF PaymentsInv, TypeOK, Places
  <1>11. RowsSound' /\ SucceededMeansMoved'
    BY <1>5, <1>7 DEF PaymentsInv, RowsSound, SucceededMeansMoved
  <1>12. moved[ReversalKey] = 0 => moved'[ReversalKey] \in {0, moved'[CaptureKey]}
    <2>1. CASE call[c].key = ReversalKey
      <3>1. call[c].amount = moved[CaptureKey] /\ moved'[CaptureKey] = moved[CaptureKey]
        BY <2>1, <1>2, <1>7, <1>r DEF CallSound
      <3> QED
        BY <2>1, <3>1, <1>6, <1>r DEF PaymentsInv, TypeOK
    <2>2. CASE call[c].key # ReversalKey
      BY <2>2, <1>7, <1>r
    <2> QED
      BY <2>1, <2>2
  <1>13. ReversalReturnsTheCapture' /\ ActionsAreBacked'
    BY <1>5, <1>8, <1>12, BackedStay
  <1> QED
    BY <1>10, <1>11, <1>13 DEF PaymentsInv

\* completeOperation, with either outcome.
LEMMA OutcomeKeepsInv ==
    ASSUME PaymentsInv, NEW c \in Calls, Complete(c) \/ Fail(c)
    PROVE  PaymentsInv'
  <1>1. call[c].pc \in {"complete", "fail"} /\ call[c].pc \in Places
    BY DEF Complete, Fail, Places
  <1>2. /\ call[c].key \in Keys /\ CallSound(c)
        /\ call[c].amount \in Amounts /\ call[c].amount > 0
        /\ call[c].reason \in Reasons \cup {None}
    BY <1>1, RunningCalls, HoldIsPositive DEF PaymentsInv, WaySound, Amounts
  <1>3. PICK p \in {"file", "over"} : Go(c, p) /\ (p = "file" => Complete(c))
    BY DEF Complete, Fail
  <1>4. /\ call'[c].pc = p
        /\ call'[c].key = call[c].key /\ call'[c].amount = call[c].amount
        /\ call'[c].ask = call[c].ask /\ call'[c].reason = call[c].reason
    BY <1>1, <1>3, Goes DEF PaymentsInv, Places, Ends
  <1>5. UNCHANGED <<intent, status, actions, outbox, moved, faults>>
    BY DEF Complete, Fail
  <1>6. PICK s \in {"succeeded", "failed"} :
          /\ op' = [op EXCEPT ![call[c].key] = Outcome(c, s)]
          /\ s = "succeeded" => moved[call[c].key] = call[c].amount
    BY <1>2 DEF Complete, Fail, CallSound
  <1>7. /\ op' \in [Keys -> OpRow]
        /\ op'[call[c].key] = [state |-> s, amount |-> call[c].amount, reason |-> call[c].reason]
        /\ \A k \in Keys \ {call[c].key} : op'[k] = op[k]
    BY <1>2, <1>6 DEF Outcome, OpRow, PaymentsInv, TypeOK
  <1>8. Settling
    BY <1>5, <1>7 DEF Settling
  <1>9. p \in Places => CallSound(c)'
    <2> SUFFICES ASSUME p \in Places PROVE CallSound(c)'
      OBVIOUS
    <2>1. p = "file"
      BY <1>3 DEF Places
    <2>2. call[c].pc = "complete"
      BY <1>3, <2>1 DEF Complete
    <2>3. /\ op'[call[c].key].state \in {"succeeded", "failed"}
          /\ moved'[call[c].key] = call[c].amount
      BY <1>2, <1>5, <1>7, <2>2 DEF CallSound
    <2> QED
      BY <1>2, <1>4, <1>5, <2>1, <2>3 DEF CallSound
  <1>10. TypeOK' /\ WaySound' /\ NothingMovesUnseen'
    BY <1>1, <1>3, <1>5, <1>7, <1>8, <1>9, LoudStep DEF PaymentsInv, TypeOK, Places
  <1>11. RowsSound' /\ SucceededMeansMoved'
    BY <1>2, <1>5, <1>6, <1>7 DEF PaymentsInv, RowsSound, SucceededMeansMoved, CallSound
  <1>12. ReversalReturnsTheCapture' /\ ActionsAreBacked'
    BY <1>5 DEF PaymentsInv, ReversalReturnsTheCapture, ActionsAreBacked
  <1> QED
    BY <1>10, <1>11, <1>12 DEF PaymentsInv

\* The transaction that files and announces what is already on record.
LEMMA FileKeepsInv ==
    ASSUME PaymentsInv, NEW c \in Calls, File(c)
    PROVE  PaymentsInv'
  <1>1. call[c].pc = "file" /\ call[c].pc \in Places
    BY DEF File, Places
  <1>2. /\ call[c].key \in Keys /\ CallSound(c)
        /\ call[c].amount \in Amounts /\ call[c].amount > 0
    BY <1>1, RunningCalls, HoldIsPositive DEF PaymentsInv, WaySound, Amounts
  <1>3. PICK p \in {"record", "over"} :
          Go(c, p) /\ (p = "record" => call[c].ask \in {"refund", "no_show_reversal"})
    BY DEF File, AfterSuccess
  <1>4. /\ call'[c].pc = p
        /\ call'[c].key = call[c].key /\ call'[c].amount = call[c].amount
        /\ call'[c].ask = call[c].ask /\ call'[c].reason = call[c].reason
    BY <1>1, <1>3, Goes DEF PaymentsInv, Places, Ends
  <1>5. UNCHANGED <<intent, op, actions, moved, faults>>
    BY DEF File
  <1>6. PICK e \in Event : outbox' = Append(outbox, e)
    <2>1. [ type |-> IF call[c].key = CaptureKey THEN "PaymentCaptured" ELSE "PaymentRefunded",
            amount |-> call[c].amount ] \in Event
      BY <1>2 DEF Event
    <2> QED
      BY <2>1 DEF File
  <1>7. outbox' \in Seq(Event)
    BY <1>6 DEF PaymentsInv, TypeOK
  <1>8. status' \in {"SETUP_ONLY", "AUTHORIZED", "CAPTURED", "REFUNDED"}
    BY DEF File
  <1>9. Settling
    BY <1>5 DEF Settling
  <1>10. p \in Places => CallSound(c)'
    BY <1>1, <1>2, <1>3, <1>4, <1>5 DEF CallSound, Places
  <1>11. p = "over" => op'[call[c].key].state \in {"succeeded", "failed"}
    BY <1>1, <1>2, <1>5 DEF CallSound
  <1>12. TypeOK' /\ WaySound' /\ NothingMovesUnseen'
    <2>1. /\ op' \in [Keys -> OpRow] /\ moved' \in [Keys -> {0} \cup Amounts]
          /\ faults' \in 0..MaxFaults /\ actions' \in Seq(Action)
      BY <1>5 DEF PaymentsInv, TypeOK
    <2>2. p \in Places \cup {"over"}
      BY DEF Places
    <2> QED
      BY <1>1, <1>3, <1>5, <1>7, <1>8, <1>9, <1>10, <1>11, <2>1, <2>2, LoudStep
  <1>13. RowsSound' /\ SucceededMeansMoved'
    BY <1>5 DEF PaymentsInv, RowsSound, SucceededMeansMoved
  <1>14. ReversalReturnsTheCapture' /\ ActionsAreBacked'
    BY <1>5 DEF PaymentsInv, ReversalReturnsTheCapture, ActionsAreBacked
  <1> QED
    BY <1>12, <1>13, <1>14 DEF PaymentsInv

\* An operator's action is recorded after the refund it is about.
LEMMA RecordKeepsInv ==
    ASSUME PaymentsInv, NEW c \in Calls, RecordManualAction(c)
    PROVE  PaymentsInv'
  <1>1. call[c].pc = "record" /\ call[c].pc \in Places
    BY DEF RecordManualAction, Places
  <1>2. /\ call[c].key \in Keys /\ CallSound(c)
        /\ call[c].amount \in Amounts /\ call[c].reason \in Reasons
        /\ call[c].ask \in {"refund", "no_show_reversal"}
        /\ moved[call[c].key] > 0
        /\ op[call[c].key].state \in {"succeeded", "failed"}
    <2>1. call[c].key \in Keys /\ call[c].amount \in Amounts
      BY <1>1, RunningCalls DEF PaymentsInv
    <2>2. CallSound(c)
      BY <1>1 DEF PaymentsInv, WaySound
    <2>3. call[c].ask \in {"refund", "no_show_reversal"} /\ call[c].key # CaptureKey
      BY <1>1, <2>2, KeysDiffer DEF CallSound, ManualKey, CaptureKey, ReversalKey
    <2> QED
      BY <1>1, <2>1, <2>2, <2>3 DEF CallSound
  <1>3. Go(c, "over")
    BY DEF RecordManualAction
  <1>4. UNCHANGED <<intent, status, op, outbox, moved, faults>>
    BY DEF RecordManualAction
  <1> DEFINE a == [kind |-> call[c].ask, amount |-> call[c].amount, reason |-> call[c].reason]
  <1>5. a \in Action /\ actions' = Append(actions, a)
    BY <1>2 DEF RecordManualAction, Action
  <1>6. /\ actions \in Seq(Action) /\ actions' \in Seq(Action)
        /\ Len(actions') = Len(actions) + 1
        /\ actions'[Len(actions) + 1] = a
        /\ \A i \in DOMAIN actions : actions'[i] = actions[i]
        /\ DOMAIN actions' = DOMAIN actions \cup {Len(actions) + 1}
    <2>1. actions \in Seq(Action)
      BY DEF PaymentsInv, TypeOK
    <2> HIDE DEF a
    <2> QED
      BY <1>5, <2>1
  <1>7. Settling
    BY <1>4 DEF Settling
  <1>8. TypeOK' /\ WaySound' /\ NothingMovesUnseen'
    <2>1. /\ op' \in [Keys -> OpRow] /\ moved' \in [Keys -> {0} \cup Amounts]
          /\ status' \in {"SETUP_ONLY", "AUTHORIZED", "CAPTURED", "REFUNDED"}
          /\ outbox' \in Seq(Event) /\ faults' \in 0..MaxFaults
      BY <1>4 DEF PaymentsInv, TypeOK
    <2>2. "over" \in Places \cup {"over"} /\ "over" \notin Places
      BY DEF Places
    <2> QED
      BY <1>1, <1>2, <1>3, <1>4, <1>6, <1>7, <2>1, <2>2, LoudStep
  <1>9. RowsSound' /\ SucceededMeansMoved' /\ ReversalReturnsTheCapture'
    BY <1>4 DEF PaymentsInv, RowsSound, SucceededMeansMoved, ReversalReturnsTheCapture
  <1>10. ActionsAreBacked'
    <2>1. IF a.kind = "refund" THEN moved[ManualKey(a.reason)] > 0
                               ELSE moved[ReversalKey] = a.amount
      <3>1. CASE call[c].ask = "refund"
        BY <1>2, <3>1 DEF CallSound
      <3>2. CASE call[c].ask = "no_show_reversal"
        <4>1. call[c].key = ReversalKey /\ call[c].amount = moved[CaptureKey]
          BY <1>2, <3>2 DEF CallSound
        <4>2. moved[ReversalKey] = moved[CaptureKey]
          BY <4>1, <1>2 DEF PaymentsInv, ReversalReturnsTheCapture
        <4> QED
          BY <3>2, <4>1, <4>2
      <3> QED
        BY <1>2, <3>1, <3>2
    <2> HIDE DEF a
    <2>2. \A i \in DOMAIN actions' : i \in DOMAIN actions \/ actions'[i] = a
      BY <1>6
    <2> QED
      BY <1>4, <1>6, <2>1, <2>2 DEF PaymentsInv, ActionsAreBacked
  <1> QED
    BY <1>8, <1>9, <1>10 DEF PaymentsInv

---------------------------------------------------------------------------
(* The theorems.                                                           *)

\* Every step keeps the invariant.
LEMMA NextInv == PaymentsInv /\ [Next]_vars => PaymentsInv'
  <1> SUFFICES ASSUME PaymentsInv, [Next]_vars PROVE PaymentsInv'
    OBVIOUS
  <1>1. CASE UNCHANGED vars
    BY <1>1 DEF vars, PaymentsInv, TypeOK, RowsSound, WaySound, CallSound,
                SucceededMeansMoved, NothingMovesUnseen, Exceptions,
                ReversalReturnsTheCapture, ActionsAreBacked
  <1>2. CASE Next
    <2>1. PICK c \in Calls : Asking(c) \/ Step(c)
      BY <1>2 DEF Next, Asking
    <2>2. CASE Asking(c)
      BY <2>2, AskingKeepsInv
    <2>3. CASE Step(c)
      <3>1. CASE ReadCapture(c)
        BY <3>1, AskingKeepsInv DEF Asking
      <3>2. CASE Begin(c)
        BY <3>2, BeginKeepsInv
      <3>3. CASE Insert(c)
        BY <3>3, InsertKeepsInv
      <3>4. CASE GatewayTakes(c) \/ GatewayLost(c)
        BY <3>4, GatewayKeepsInv
      <3>5. CASE GatewayRefuses(c) \/ DatabaseError(c) \/ Crash(c)
        BY <3>5, SetbackKeepsInv
      <3>6. CASE Complete(c) \/ Fail(c)
        BY <3>6, OutcomeKeepsInv
      <3>7. CASE File(c)
        BY <3>7, FileKeepsInv
      <3>8. CASE RecordManualAction(c)
        BY <3>8, RecordKeepsInv
      <3> QED
        BY <2>3, <3>1, <3>2, <3>3, <3>4, <3>5, <3>6, <3>7, <3>8 DEF Step
    <2> QED
      BY <2>1, <2>2, <2>3
  <1> QED
    BY <1>1, <1>2

\* The inductive invariant of payments holds in every state.
THEOREM PaymentsInvariant == Spec => []PaymentsInv
  BY InitInv, NextInv, PTL DEF Spec

\* What payments.operations calls succeeded has moved exactly the amount on
\* record (capture, refundWithKey, completeOperation), for any race of calls.
THEOREM RecordsTellTheTruth == Spec => []SucceededMeansMoved
  <1>1. PaymentsInv => SucceededMeansMoved
    BY DEF PaymentsInv
  <1> QED
    BY <1>1, PaymentsInvariant, PTL

\* Money that has moved is recorded, listed as failed, or in the hands of a call
\* that has not ended other than by a crash (capture, refundWithKey).
THEOREM MoneyStaysInSight == Spec => []NothingMovesUnseen
  <1>1. PaymentsInv => NothingMovesUnseen
    BY DEF PaymentsInv
  <1> QED
    BY <1>1, PaymentsInvariant, PTL

\* A reversal returns what the capture took (reverseNoShow).
THEOREM ReversalsAreExact == Spec => []ReversalReturnsTheCapture
  <1>1. PaymentsInv => ReversalReturnsTheCapture
    BY DEF PaymentsInv
  <1> QED
    BY <1>1, PaymentsInvariant, PTL

\* Every manual action on record has its money behind it (manualRefund,
\* reverseNoShow).
THEOREM AuditIsBacked == Spec => []ActionsAreBacked
  <1>1. PaymentsInv => ActionsAreBacked
    BY DEF PaymentsInv
  <1> QED
    BY <1>1, PaymentsInvariant, PTL
---------------------------------------------------------------------------
(* Payments keeps the books of MoneyBook.                                  *)

\* What the operators' books show of a state.
OnFile == [k \in Keys |-> FileOf(k)]
InHand == [c \in Calls |-> HandOf(c)]
OnTrail == [i \in DOMAIN actions |-> Attested(actions[i])]

BookStep == [Books!Next]_<<moved, OnFile, InHand, OnTrail>>

\* Nothing is in hand, on file or attested when nothing has been asked.
LEMMA BooksInit == Init => Books!Init
  <1> SUFFICES ASSUME Init PROVE Books!Init
    OBVIOUS
  <1>1. \A k \in Keys : FileOf(k) = Books!Blank
    BY DEF Init, FileOf, NoOp, Books!Blank
  <1>2. \A c \in Calls : HandOf(c) = << >>
    BY DEF Init, HandOf, Idle, Places
  <1>3. OnTrail = << >>
    BY DEF Init, OnTrail
  <1> QED
    BY <1>1, <1>2, <1>3 DEF Init, Books!Init, OnTrail

\* A call that goes on keeps its operation in hand.
LEMMA KeepsInHand ==
    ASSUME TypeOK, NEW c \in Calls, call[c].pc \in Places,
           NEW p \in Places \cup {"crashed"}, Go(c, p)
    PROVE  InHand' = InHand /\ InHand[c] = call[c].key
  <1>1. /\ call'[c].pc = p /\ call'[c].key = call[c].key
        /\ \A d \in Calls \ {c} : call'[d] = call[d]
    BY Goes DEF Ends
  <1>2. \A d \in Calls : HandOf(d)' = HandOf(d)
    BY <1>1 DEF HandOf
  <1> QED
    BY <1>2 DEF InHand, HandOf

\* A call that is over has let go of it.
LEMMA LetsGo ==
    ASSUME TypeOK, NEW c \in Calls, call[c].pc \in Places, Go(c, "over")
    PROVE  InHand' = [InHand EXCEPT ![c] = << >>] /\ InHand[c] = call[c].key
  <1>1. /\ call'[c].pc = "over"
        /\ \A d \in Calls \ {c} : call'[d] = call[d]
    BY Goes DEF Ends
  <1>2. HandOf(c)' = << >> /\ \A d \in Calls \ {c} : HandOf(d)' = HandOf(d)
    BY <1>1 DEF HandOf, Places
  <1> QED
    BY <1>2 DEF InHand, HandOf

\* An operation with an outcome is on file.
LEMMA OutcomesAreOnFile ==
    ASSUME NEW k \in Keys
    PROVE  (op[k].state \in {"succeeded", "failed"}) <=> OnFile[k] # Books!Blank
  BY DEF OnFile, FileOf, Books!Blank

\* Who asks picks an operation up, or is refused with empty hands.
LEMMA AskingIsBook ==
    ASSUME PaymentsInv, NEW c \in Calls, Asking(c)
    PROVE  BookStep
  <1>1. /\ call' \in [Calls -> {Idle} \cup Reversing \cup Running]
        /\ \A d \in Calls \ {c} : call'[d] = call[d]
        /\ call'[c].pc \in {"begin", "over", "reversal"}
        /\ call[c].pc \in {"idle", "reversal"}
        /\ UNCHANGED <<op, actions, moved>>
    BY AskingChanges
  <1>2. OnFile' = OnFile /\ OnTrail' = OnTrail
    BY <1>1 DEF OnFile, FileOf, OnTrail, Attested
  <1>3. HandOf(c) = << >> /\ \A d \in Calls \ {c} : HandOf(d)' = HandOf(d)
    BY <1>1 DEF HandOf, Places
  <1>4. CASE call'[c].pc = "begin"
    <2>1. call'[c].key \in Keys
      BY <1>1, <1>4 DEF Idle, Reversing, Running
    <2>2. InHand' = [InHand EXCEPT ![c] = call'[c].key]
      BY <1>3, <1>4 DEF InHand, HandOf, Places
    <2>3. Books!PickUp(c, call'[c].key)
      BY <1>1, <1>2, <1>3, <2>2 DEF Books!PickUp, OnFile, InHand, OnTrail
    <2> QED
      BY <2>1, <2>3 DEF BookStep, Books!Next
  <1>5. CASE call'[c].pc # "begin"
    <2>1. HandOf(c)' = << >>
      BY <1>1, <1>5 DEF HandOf, Places
    <2>2. InHand' = InHand
      BY <1>3, <2>1 DEF InHand
    <2> QED
      BY <1>1, <1>2, <2>2 DEF BookStep
  <1> QED
    BY <1>4, <1>5

\* Who begins goes on, or finds the operation done and puts it down.
LEMMA BeginIsBook ==
    ASSUME PaymentsInv, NEW c \in Calls, Begin(c)
    PROVE  BookStep
  <1>1. call[c].pc \in Places /\ TypeOK
    BY DEF Begin, Places, PaymentsInv
  <1>2. call[c].key \in Keys
    BY <1>1, RunningCalls
  <1>3. OnFile' = OnFile /\ OnTrail' = OnTrail /\ UNCHANGED moved
    BY DEF Begin, OnFile, FileOf, OnTrail, Attested
  <1>4. PICK p \in {"insert", "record", "over", "gateway", "fail"} :
          Go(c, p) /\ (p = "over" => op[call[c].key].state = "succeeded")
    BY DEF Begin, AfterSuccess, AfterBegin
  <1>5. CASE p = "over"
    <2>1. InHand' = [InHand EXCEPT ![c] = << >>] /\ InHand[c] = call[c].key
      BY <1>1, <1>4, <1>5, LetsGo
    <2>2. OnFile[call[c].key] # Books!Blank
      BY <1>2, <1>4, <1>5, OutcomesAreOnFile
    <2>3. Books!PutDown(c, call[c].key)
      BY <1>3, <2>1, <2>2 DEF Books!PutDown, OnFile, InHand, OnTrail
    <2> QED
      BY <1>2, <2>3 DEF BookStep, Books!Next
  <1>6. CASE p # "over"
    <2>1. p \in Places \cup {"crashed"}
      BY <1>6 DEF Places
    <2>2. InHand' = InHand
      BY <1>1, <1>4, <2>1, KeepsInHand
    <2> QED
      BY <1>3, <2>2 DEF BookStep
  <1> QED
    BY <1>5, <1>6

\* A pending operation is not on file yet; an error, a refusal and a crash leave
\* the operation in the hand it was in.
LEMMA OnwardsIsBook ==
    ASSUME PaymentsInv, NEW c \in Calls,
           Insert(c) \/ GatewayRefuses(c) \/ DatabaseError(c) \/ Crash(c)
    PROVE  BookStep
  <1>1. call[c].pc \in Places /\ TypeOK
    BY DEF Insert, GatewayRefuses, DatabaseError, Crash, Places, PaymentsInv
  <1>2. call[c].key \in Keys
    BY <1>1, RunningCalls
  <1>3. PICK p \in {"gateway", "fail", "crashed"} : Go(c, p)
    BY DEF Insert, GatewayRefuses, DatabaseError, Crash, AfterBegin, AfterError
  <1>4. InHand' = InHand
    BY <1>1, <1>3, KeepsInHand DEF Places
  <1>5. \/ op' = op
        \/ op[call[c].key].state = "none" /\ op' = [op EXCEPT ![call[c].key].state = "pending"]
    BY DEF Insert, GatewayRefuses, DatabaseError, Crash
  <1>6. \A k \in Keys : FileOf(k)' = FileOf(k)
    BY <1>1, <1>2, <1>5 DEF FileOf, TypeOK, OpRow
  <1>7. OnFile' = OnFile
    BY <1>6 DEF OnFile
  <1>8. OnTrail' = OnTrail /\ UNCHANGED moved
    BY DEF Insert, GatewayRefuses, DatabaseError, Crash, OnTrail, Attested
  <1> QED
    BY <1>4, <1>7, <1>8 DEF BookStep

\* The gateway moves money once under a key, and of a capture the whole back.
LEMMA GatewayIsBook ==
    ASSUME PaymentsInv, NEW c \in Calls, GatewayTakes(c) \/ GatewayLost(c)
    PROVE  BookStep
  <1> DEFINE k == call[c].key
             amount == call[c].amount
  <1>1. call[c].pc \in Places /\ TypeOK
    BY DEF GatewayTakes, GatewayLost, Places, PaymentsInv
  <1>2. k \in Keys /\ amount \in Amounts /\ CallSound(c)
    BY <1>1, RunningCalls DEF PaymentsInv, WaySound
  <1>3. PICK p \in {"complete", "fail"} : Go(c, p)
    BY DEF GatewayTakes, GatewayLost, LostMeans
  <1>4. InHand' = InHand /\ InHand[c] = k
    BY <1>1, <1>3, KeepsInHand DEF Places
  <1>5. OnFile' = OnFile /\ OnTrail' = OnTrail
    BY DEF GatewayTakes, GatewayLost, OnFile, FileOf, OnTrail, Attested
  <1>6. \/ UNCHANGED moved
        \/ moved' = [moved EXCEPT ![k] = amount] /\ moved[k] \in {0, amount}
    BY DEF GatewayTakes, GatewayLost, Acceptable
  <1>7. k = ReversalKey => amount = moved[CaptureKey]
    BY <1>2 DEF CallSound
  <1> HIDE DEF k, amount
  <1>8. CASE moved' = [moved EXCEPT ![k] = amount] /\ moved[k] = 0
    <2>1. Books!Move(c, k, amount)
      BY <1>4, <1>5, <1>7, <1>8 DEF Books!Move, OnFile, InHand, OnTrail
    <2> QED
      BY <1>2, <2>1 DEF BookStep, Books!Next
  <1>9. CASE UNCHANGED moved \/ (moved' = [moved EXCEPT ![k] = amount] /\ moved[k] = amount)
    <2>1. moved' = moved
      BY <1>1, <1>2, <1>9 DEF TypeOK
    <2> QED
      BY <1>4, <1>5, <2>1 DEF BookStep
  <1> QED
    BY <1>6, <1>8, <1>9

\* On file as done is what has moved; what failed is an exception.
LEMMA OutcomeIsBook ==
    ASSUME PaymentsInv, NEW c \in Calls, Complete(c) \/ Fail(c)
    PROVE  BookStep
  <1>1. call[c].pc \in Places /\ TypeOK
    BY DEF Complete, Fail, Places, PaymentsInv
  <1>2. PICK k \in Keys :
          /\ k = call[c].key /\ CallSound(c)
          /\ call[c].amount \in Amounts /\ call[c].amount > 0
    BY <1>1, RunningCalls, HoldIsPositive DEF PaymentsInv, WaySound, Amounts
  <1>3. OnTrail' = OnTrail /\ UNCHANGED moved
    BY DEF Complete, Fail, OnTrail, Attested
  <1>4. CASE Complete(c)
    <2>1. InHand' = InHand /\ InHand[c] = k
      BY <1>1, <1>2, <1>4, KeepsInHand DEF Complete, Places
    <2>2. moved[k] = call[c].amount
      BY <1>2, <1>4 DEF CallSound, Complete
    <2>3. op' = [op EXCEPT ![k] = Outcome(c, "succeeded")]
      BY <1>2, <1>4 DEF Complete
    <2>4. /\ FileOf(k)' = Books!Done(moved[k])
          /\ \A l \in Keys \ {k} : FileOf(l)' = FileOf(l)
      BY <1>1, <1>2, <2>2, <2>3 DEF FileOf, Outcome, Books!Done, TypeOK
    <2>5. OnFile' = [OnFile EXCEPT ![k] = Books!Done(moved[k])]
      BY <1>2, <2>4 DEF OnFile
    <2>6. Books!Settle(c, k)
      BY <1>2, <1>3, <2>1, <2>2, <2>5 DEF Books!Settle, OnFile, InHand, OnTrail
    <2> QED
      BY <1>2, <2>6 DEF BookStep, Books!Next
  <1>5. CASE Fail(c)
    <2>1. InHand' = [InHand EXCEPT ![c] = << >>] /\ InHand[c] = k
      BY <1>1, <1>2, <1>5, LetsGo DEF Fail
    <2>2. op' = [op EXCEPT ![k] = Outcome(c, "failed")]
      BY <1>2, <1>5 DEF Fail
    <2>3. /\ FileOf(k)' = Books!Exception
          /\ \A l \in Keys \ {k} : FileOf(l)' = FileOf(l)
      BY <1>1, <1>2, <2>2 DEF FileOf, Outcome, Books!Exception, TypeOK
    <2>4. OnFile' = [OnFile EXCEPT ![k] = Books!Exception]
      BY <1>2, <2>3 DEF OnFile
    <2>5. Books!Refer(c, k)
      BY <1>3, <2>1, <2>4 DEF Books!Refer, OnFile, InHand, OnTrail
    <2> QED
      BY <1>2, <2>5 DEF BookStep, Books!Next
  <1> QED
    BY <1>4, <1>5

\* What is announced is on file already.
LEMMA FileIsBook ==
    ASSUME PaymentsInv, NEW c \in Calls, File(c)
    PROVE  BookStep
  <1>1. call[c].pc \in Places /\ TypeOK /\ call[c].pc = "file"
    BY DEF File, Places, PaymentsInv
  <1>2. call[c].key \in Keys /\ CallSound(c)
    BY <1>1, RunningCalls DEF PaymentsInv, WaySound
  <1>3. OnFile' = OnFile /\ OnTrail' = OnTrail /\ UNCHANGED moved
    BY DEF File, OnFile, FileOf, OnTrail, Attested
  <1>4. PICK p \in {"record", "over"} : Go(c, p)
    BY DEF File, AfterSuccess
  <1>5. CASE p = "record"
    <2>1. InHand' = InHand
      BY <1>1, <1>4, <1>5, KeepsInHand DEF Places
    <2> QED
      BY <1>3, <2>1 DEF BookStep
  <1>6. CASE p = "over"
    <2>1. InHand' = [InHand EXCEPT ![c] = << >>] /\ InHand[c] = call[c].key
      BY <1>1, <1>4, <1>6, LetsGo
    <2>2. OnFile[call[c].key] # Books!Blank
      BY <1>1, <1>2, OutcomesAreOnFile DEF CallSound
    <2>3. Books!PutDown(c, call[c].key)
      BY <1>3, <2>1, <2>2 DEF Books!PutDown, OnFile, InHand, OnTrail
    <2> QED
      BY <1>2, <2>3 DEF BookStep, Books!Next
  <1> QED
    BY <1>5, <1>6

\* A correction is attested under its own key, once it is on file.
LEMMA RecordIsBook ==
    ASSUME PaymentsInv, NEW c \in Calls, RecordManualAction(c)
    PROVE  BookStep
  <1> DEFINE k == call[c].key
             amount == call[c].amount
             a == [kind |-> call[c].ask, amount |-> amount, reason |-> call[c].reason]
  <1>1. call[c].pc \in Places /\ TypeOK /\ call[c].pc = "record"
    BY DEF RecordManualAction, Places, PaymentsInv
  <1>2. /\ k \in Keys /\ amount \in Amounts /\ CallSound(c)
        /\ call[c].ask \in {"refund", "no_show_reversal"}
        /\ moved[k] > 0
    <2>1. k \in Keys /\ amount \in Amounts /\ CallSound(c)
      BY <1>1, RunningCalls DEF PaymentsInv, WaySound
    <2> QED
      BY <1>1, <2>1 DEF CallSound
  <1>3. /\ k # CaptureKey
        /\ k = ReversalKey => amount = moved[CaptureKey]
        /\ Attested(a) = [key |-> k, amount |-> amount]
    BY <1>2 DEF CallSound, Attested, ManualKey, CaptureKey, ReversalKey
  <1>4. InHand' = [InHand EXCEPT ![c] = << >>] /\ InHand[c] = k
    BY <1>1, LetsGo DEF RecordManualAction
  <1>5. OnFile[k] # Books!Blank
    BY <1>1, <1>2, OutcomesAreOnFile DEF CallSound
  <1>6. OnFile' = OnFile /\ UNCHANGED moved
    BY DEF RecordManualAction, OnFile, FileOf
  <1>7. actions' = Append(actions, a) /\ actions \in Seq(Action)
    BY <1>1 DEF RecordManualAction, TypeOK
  <1> HIDE DEF a
  <1>8. OnTrail' = Append(OnTrail, Attested(a))
    <2>1. /\ Len(actions) \in Nat /\ DOMAIN actions = 1..Len(actions)
          /\ DOMAIN actions' = 1..(Len(actions) + 1)
          /\ actions'[Len(actions) + 1] = a
          /\ \A i \in 1..Len(actions) : actions'[i] = actions[i]
      BY <1>7
    <2>2. OnTrail' = [i \in 1..(Len(actions) + 1) |-> Attested(actions'[i])]
      BY <2>1 DEF OnTrail, Attested
    <2>3. OnTrail = [i \in 1..Len(actions) |-> Attested(actions[i])]
      BY <2>1 DEF OnTrail
    <2> QED
      BY <2>1, <2>2, <2>3
  <1> HIDE DEF k, amount
  <1>9. Books!Attest(c, k, amount)
    BY <1>2, <1>3, <1>4, <1>5, <1>6, <1>8 DEF Books!Attest, OnFile, InHand, OnTrail
  <1> QED
    BY <1>2, <1>9 DEF BookStep, Books!Next

\* Every step of payments is a step of the books, or none.
LEMMA NextIsBook ==
    ASSUME PaymentsInv, [Next]_vars
    PROVE  BookStep
  <1>1. CASE UNCHANGED vars
    BY <1>1 DEF vars, BookStep, OnFile, FileOf, InHand, HandOf, OnTrail, Attested
  <1>2. CASE Next
    <2>1. PICK c \in Calls : Asking(c) \/ Step(c)
      BY <1>2 DEF Next, Asking
    <2>2. CASE Asking(c) \/ ReadCapture(c)
      BY <2>2, AskingIsBook DEF Asking
    <2>3. CASE Begin(c)
      BY <2>3, BeginIsBook
    <2>4. CASE Insert(c) \/ GatewayRefuses(c) \/ DatabaseError(c) \/ Crash(c)
      BY <2>4, OnwardsIsBook
    <2>5. CASE GatewayTakes(c) \/ GatewayLost(c)
      BY <2>5, GatewayIsBook
    <2>6. CASE Complete(c) \/ Fail(c)
      BY <2>6, OutcomeIsBook
    <2>7. CASE File(c)
      BY <2>7, FileIsBook
    <2>8. CASE RecordManualAction(c)
      BY <2>8, RecordIsBook
    <2> QED
      BY <2>1, <2>2, <2>3, <2>4, <2>5, <2>6, <2>7, <2>8 DEF Step
  <1> QED
    BY <1>1, <1>2

\* PAY-002, OPS-002, OPS-003: whatever calls race, fail, are retried or die, the
\* money of a booking is moved once under each key, never put down before it is
\* on file, and attested only when it has moved.
THEOREM PaymentsKeepTheBooks == Spec => BooksAreKept
  <1>1. PaymentsInv /\ [Next]_vars
          => [Books!Next]_<<moved, [k \in Keys |-> FileOf(k)], [c \in Calls |-> HandOf(c)],
                            [i \in DOMAIN actions |-> Attested(actions[i])]>>
    BY NextIsBook DEF BookStep, OnFile, InHand, OnTrail
  <1> QED
    BY BooksInit, PaymentsInvariant, <1>1, PTL DEF Spec, BooksAreKept, Books!Spec
=============================================================================
