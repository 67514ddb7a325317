-------------------------- MODULE CreateSaga_proofs --------------------------
(***************************************************************************)
(* Proofs about CreateSaga: its type invariant, that nothing happens at    *)
(* the gateway behind the operations table's back, that no booking comes   *)
(* into being without a card, and that the saga implements SlotSale - for  *)
(* any calls, attempts and retries, and any number of faults.              *)
(*                                                                         *)
(* And, of the attempts one call alone has made, what is left of the card  *)
(* when it is over: a buyer's authorization is on file, a loser holds no   *)
(* money, a live booking keeps its hold.  LonersInv follows the one call   *)
(* and its releaser; a call that shares its attempt stands beside it.      *)
(***************************************************************************)
EXTENDS CreateSaga, TLAPS

USE DEF Ids, Cards, Keys, Workers

\* Workers of different calls, and the two of one call, are different.
LEMMA WorkersDiffer ==
    /\ \A c \in Calls : Creator(c) \in Workers /\ Releaser(c) \in Workers
    /\ \A c, d \in Calls : Creator(c) # Releaser(d)
    /\ \A c, d \in Calls : c # d => Creator(c) # Creator(d)
    /\ \A w \in Workers : w[2] \in Calls /\ (w = Creator(w[2]) \/ w = Releaser(w[2]))
    BY DEF Creator, Releaser

\* What a worker calls cancelAuthorization with.
LEMMA IdType ==
    ASSUME NEW w \in Workers
    PROVE  /\ Id(w) \in Ids
           /\ AttemptNamed(Id(w)) \in Attempts
           /\ Intent(w) \in Cards \X Attempts
           /\ <<"cancel", Id(w)>> \in Keys
  <1>1. w[2] \in Calls /\ AttemptOf[w[2]] \in Attempts
    BY AttemptsNameCalls
  <1>2. Id(w) \in Ids
    BY <1>1 DEF Id
  <1>3. AttemptNamed(Id(w)) \in Attempts
    BY <1>2, AttemptsNameCalls DEF AttemptNamed
  <1> QED
    BY <1>2, <1>3 DEF Intent

\* A call's card key, whichever of the two operations it asks for.
LEMMA CardKeyType ==
    ASSUME TypeOK, NEW c \in Calls
    PROVE  CardKey(c) \in Cards \X Attempts /\ CardKey(c) \in Keys
    BY AttemptsNameCalls DEF TypeOK, CardKey

\* How a worker's end changes its place and the answers.
LEMMA FinishType ==
    ASSUME TypeOK, NEW w \in Workers, NEW a \in {"booked", "taken", "error"},
           Finish(w, a)
    PROVE  /\ at' \in [Workers -> Phases]
           /\ answer' \in [Calls -> {"none", "booked", "taken", "error"}]
    BY DEF TypeOK, Finish, Phases

\* Nothing has been asked yet, and everything has its type.
LEMMA InitTypeOK == Init => TypeOK
  BY SagaTimesAreNatural DEF Init, TypeOK, Row, NoRow, Phases

\* Each step of the way to a hold keeps the types.
LEMMA CreateTypeOK ==
    ASSUME TypeOK, NEW c \in Calls, Start(c) \/ Create(c)
    PROVE  TypeOK'
  <1> USE WorkersDiffer, CardKeyType, SagaTimesAreNatural
  <1>w. Creator(c) \in Workers /\ AttemptOf[c] \in Attempts
    BY AttemptsNameCalls
  <1>1. CASE Start(c)
    <2>1. <<CardFor(clock), AttemptOf[c]>> \in Keys /\ CardFor(clock) \in Cards
      BY <1>w DEF CardFor
    <2>2. kind' \in [Calls -> Cards]
      BY <1>1, <2>1 DEF Start, TypeOK
    <2>3. op' \in [Keys -> {"none", "pending", "succeeded", "failed"}]
      BY <1>1, <2>1 DEF Start, TypeOK, Begun
    <2>4. \/ Finish(Creator(c), "error")
          \/ /\ \E p \in {"insert", "gateway"} :
                  at' = [at EXCEPT ![Creator(c)] = p]
             /\ UNCHANGED answer
      BY <1>1 DEF Start
    <2>5. /\ at' \in [Workers -> Phases]
          /\ answer' \in [Calls -> {"none", "booked", "taken", "error"}]
      <3>1. CASE Finish(Creator(c), "error")
        BY <3>1, <1>w, FinishType
      <3>2. CASE ~Finish(Creator(c), "error")
        <4>1. /\ \E p \in {"insert", "gateway"} : at' = [at EXCEPT ![Creator(c)] = p]
              /\ UNCHANGED answer
          BY <3>2, <2>4
        <4> QED
          BY <4>1, <1>w DEF TypeOK, Phases
      <3> QED
        BY <3>1, <3>2
    <2>6. UNCHANGED <<clock, gateway, row, booking, faults>>
      BY <1>1 DEF Start
    <2> QED
      BY <2>2, <2>3, <2>5, <2>6 DEF TypeOK
  <1>2. CASE GatewayTakes(c) \/ GatewayRefuses(c) \/ GatewayLost(c)
    <2>1. \E s \in {"none", "open", "refused", "canceled"} :
             gateway' = [gateway EXCEPT ![CardKey(c)] = s]
      BY <1>2, <1>w DEF GatewayTakes, GatewayRefuses, GatewayLost, TypeOK
    <2>2. gateway' \in [Cards \X Attempts -> {"none", "open", "refused", "canceled"}]
      BY <2>1, <1>w DEF TypeOK
    <2>3. \E p \in {"record", "fail"} : at' = [at EXCEPT ![Creator(c)] = p]
      BY <1>2 DEF GatewayTakes, GatewayRefuses, GatewayLost, Go
    <2>4. at' \in [Workers -> Phases]
      BY <2>3, <1>w DEF TypeOK, Phases
    <2>5. faults' \in 0..MaxFaults
      BY <1>2 DEF GatewayTakes, GatewayRefuses, GatewayLost, Fault, TypeOK
    <2> QED
      BY <1>2, <2>2, <2>4, <2>5 DEF GatewayTakes, GatewayRefuses, GatewayLost, TypeOK
  <1>3. CASE Record(c)
    BY <1>3, <1>w DEF Record, Go, TypeOK, Phases
  <1>4. CASE File(c)
    <2>1. Filed(c, row[AttemptOf[c]]) \in Row
      BY <1>w DEF Filed, Row, TypeOK
    <2> QED
      BY <1>4, <1>w, <2>1 DEF File, Go, Filed, TypeOK, Phases
  <1>5. CASE Fail(c)
    <2>1. Finish(Creator(c), "error")
      BY <1>5 DEF Fail
    <2>2. /\ at' \in [Workers -> Phases]
          /\ answer' \in [Calls -> {"none", "booked", "taken", "error"}]
      BY <2>1, <1>w, FinishType
    <2> QED
      BY <1>5, <2>2 DEF Fail, TypeOK
  <1>6. CASE InsertBooking(c)
    BY <1>6, <1>w DEF InsertBooking, Go, TypeOK, Phases
  <1>7. CASE Rekey(c)
    <2>1. row' \in [Ids -> Row]
      BY <1>7, <1>w DEF Rekey, Rekeyed, TypeOK, Row, NoRow
    <2>2. /\ \A id \in Ids : row'[id].status = "AUTHORIZED" => row'[id].intent
          /\ \A id \in Ids : row'[id].status = "none" => ~row'[id].intent
      BY <1>7, <1>w DEF Rekey, Rekeyed, TypeOK, Row, NoRow
    <2> QED
      BY <1>7, <1>w, <2>1, <2>2 DEF Rekey, Go, TypeOK, Phases
  <1>9. CASE Attribute(c)
    <2>1. Finish(Creator(c), "booked")
      BY <1>9 DEF Attribute
    <2>2. /\ at' \in [Workers -> Phases]
          /\ answer' \in [Calls -> {"none", "booked", "taken", "error"}]
      BY <2>1, <1>w, FinishType
    <2> QED
      BY <1>9, <2>2 DEF Attribute, TypeOK
  <1>8. CASE InsertOrRekeyFails(c)
    <2>1. Finish(Creator(c), "error")
      BY <1>8 DEF InsertOrRekeyFails
    <2>2. /\ at' \in [Workers -> Phases]
          /\ answer' \in [Calls -> {"none", "booked", "taken", "error"}]
      BY <2>1, <1>w, FinishType
    <2> QED
      BY <1>8, <2>2 DEF InsertOrRekeyFails, Fault, TypeOK
  <1> QED
    BY <1>1, <1>2, <1>3, <1>4, <1>5, <1>6, <1>7, <1>8, <1>9 DEF Create

\* So does each step of cancelAuthorization.
LEMMA CancelTypeOK ==
    ASSUME TypeOK, NEW w \in Workers, Cancel(w)
    PROVE  TypeOK'
  <1> USE IdType
  <1>1. CASE CancelBegins(w)
    <2>k. PICK k \in Keys : k = <<"cancel", Id(w)>>
      OBVIOUS
    <2>0. \/ UNCHANGED op
          \/ op' = [op EXCEPT ![k] = IF op[k] = "none" THEN "pending" ELSE op[k]]
      BY <1>1, <2>k DEF CancelBegins
    <2>1. op' \in [Keys -> {"none", "pending", "succeeded", "failed"}]
      BY <2>0 DEF TypeOK
    <2>2. \/ Finish(w, "taken")
          \/ /\ \E p \in {"void", "voided"} : at' = [at EXCEPT ![w] = p]
             /\ UNCHANGED answer
      BY <1>1 DEF CancelBegins
    <2>3. /\ at' \in [Workers -> Phases]
          /\ answer' \in [Calls -> {"none", "booked", "taken", "error"}]
      <3>1. CASE Finish(w, "taken")
        BY <3>1, FinishType
      <3>2. CASE ~Finish(w, "taken")
        BY <3>2, <2>2 DEF TypeOK, Phases
      <3> QED
        BY <3>1, <3>2
    <2> QED
      BY <1>1, <2>1, <2>3 DEF CancelBegins, TypeOK
  <1>2. CASE Void(w)
    BY <1>2 DEF Void, Go, TypeOK, Phases
  <1>3. CASE VoidFails(w)
    BY <1>3, SagaTimesAreNatural DEF VoidFails, Go, Fault, TypeOK, Phases
  <1>4. CASE Voided(w)
    BY <1>4 DEF Voided, Go, TypeOK, Phases
  <1>5. CASE Close(w)
    <2>1. row' \in [Ids -> Row]
      BY <1>5 DEF Close, TypeOK, Row
    <2>2. /\ \A id \in Ids : row'[id].status = "AUTHORIZED" => row'[id].intent
          /\ \A id \in Ids : row'[id].status = "none" => ~row'[id].intent
      BY <1>5 DEF Close, TypeOK, Row
    <2>3. Finish(w, "taken")
      BY <1>5 DEF Close
    <2>4. /\ at' \in [Workers -> Phases]
          /\ answer' \in [Calls -> {"none", "booked", "taken", "error"}]
      BY <2>3, FinishType
    <2> QED
      BY <1>5, <2>1, <2>2, <2>4 DEF Close, TypeOK
  <1>6. CASE Unvoided(w)
    <2>1. Finish(w, "error")
      BY <1>6 DEF Unvoided
    <2>2. /\ at' \in [Workers -> Phases]
          /\ answer' \in [Calls -> {"none", "booked", "taken", "error"}]
      BY <2>1, FinishType
    <2> QED
      BY <1>6, <2>2 DEF Unvoided, TypeOK
  <1> QED
    BY <1>1, <1>2, <1>3, <1>4, <1>5, <1>6 DEF Cancel

\* Every step keeps the types.
LEMMA TypeOKStep == TypeOK /\ [Next]_vars => TypeOK'
  <1> SUFFICES ASSUME TypeOK, [Next]_vars
               PROVE  TypeOK'
    OBVIOUS
  <1> USE SagaTimesAreNatural
  <1>1. CASE Tick
    BY <1>1 DEF Tick, TypeOK
  <1>2. ASSUME NEW c \in Calls, Start(c) \/ Create(c)
        PROVE  TypeOK'
    BY <1>2, CreateTypeOK
  <1>3. ASSUME NEW c \in Calls, Leave(c)
        PROVE  TypeOK'
    BY <1>3, WorkersDiffer DEF Leave, Go, TypeOK, Phases
  <1>4. ASSUME NEW w \in Workers, Cancel(w)
        PROVE  TypeOK'
    BY <1>4, CancelTypeOK
  <1>5. ASSUME NEW w \in Workers, DatabaseError(w) \/ Crash(w)
        PROVE  TypeOK'
    BY <1>5 DEF DatabaseError, Crash, Fault, TypeOK, Phases
  <1>6. CASE UNCHANGED vars
    BY <1>6 DEF vars, TypeOK
  <1> QED
    BY <1>1, <1>2, <1>3, <1>4, <1>5, <1>6 DEF Next

\* Every variable keeps its type, and an authorization on file names its
\* PaymentIntent.
THEOREM SagaTypeCorrect == Spec => []TypeOK
  <1> QED
    BY InitTypeOK, TypeOKStep, PTL DEF Spec

---------------------------------------------------------------------------
\* The card.

\* A hold or a set-up card exists, or did.
Taken(k) == gateway[k] \in {"open", "canceled"}
HasCard(a) == \E k \in Cards : Taken(<<k, a>>)

\* What is known at each point of the way: an operation is recorded before the
\* gateway is asked, only what the gateway took is recorded as succeeded, filed
\* or booked on.
WaySound ==
    \A c \in Calls :
        /\ at[Creator(c)] \in {"gateway", "record", "file", "fail"}
             => op[CardKey(c)] # "none"
        /\ at[Creator(c)] \in {"record", "file"} => Taken(CardKey(c))
        /\ at[Creator(c)] \in {"insert", "rekey"} => HasCard(AttemptOf[c])

\* Only an intent that was on file is cancelled.
VoidsSound == \A w \in Workers : at[w] = "void" => Taken(Intent(w))

RowsSound == \A id \in Ids : row[id].intent => Taken(<<"authorize", AttemptNamed(id)>>)

CardInv == WaySound /\ VoidsSound /\ RowsSound /\ GatewayIsRecorded /\ NoBookingWithoutCard

\* What the gateway has taken stays taken, and what is recorded stays recorded.
LEMMA CardsStay ==
    ASSUME TypeOK, CardInv, [Next]_vars
    PROVE  /\ \A k \in Cards \X Attempts : Taken(k) => Taken(k)'
           /\ \A k \in Keys : op[k] # "none" => op'[k] # "none"
  <1>1. ASSUME NEW c \in Calls, Start(c) \/ Create(c)
        PROVE  /\ \A k \in Cards \X Attempts : Taken(k) => Taken(k)'
               /\ \A k \in Keys : op[k] # "none" => op'[k] # "none"
    <2>1. CardKey(c) \in Cards \X Attempts
      BY CardKeyType
    <2>2. \/ UNCHANGED gateway
          \/ gateway' = [gateway EXCEPT ![CardKey(c)] =
                           IF gateway[CardKey(c)] = "none" THEN "open"
                           ELSE gateway[CardKey(c)]]
          \/ /\ ~Taken(CardKey(c))
             /\ gateway' = [gateway EXCEPT ![CardKey(c)] = "refused"]
      BY <1>1 DEF Start, Create, GatewayTakes, GatewayRefuses, GatewayLost, Record, File,
                  Fail, InsertBooking, Rekey, Attribute, InsertOrRekeyFails, Taken
    <2>3. \A k \in Cards \X Attempts : Taken(k) => Taken(k)'
      BY <2>1, <2>2 DEF Taken, TypeOK
    <2>4. \/ UNCHANGED op
          \/ \E k \in Keys, x \in {"pending", "succeeded", "failed"} :
               op' = [op EXCEPT ![k] = x]
      <3>1. <<CardFor(clock), AttemptOf[c]>> \in Keys
        BY AttemptsNameCalls DEF CardFor
      <3>2. CardKey(c) \in Keys
        BY <2>1
      <3> QED
        BY <1>1, <3>1, <3>2
        DEF Start, Begun, Create, GatewayTakes, GatewayRefuses, GatewayLost, Record,
            File, Fail, InsertBooking, Rekey, Attribute, InsertOrRekeyFails
    <2> QED
      BY <2>3, <2>4 DEF TypeOK
  <1>2. ASSUME NEW w \in Workers, Cancel(w)
        PROVE  /\ \A k \in Cards \X Attempts : Taken(k) => Taken(k)'
               /\ \A k \in Keys : op[k] # "none" => op'[k] # "none"
    <2>k. PICK i \in Cards \X Attempts, k \in Keys :
                i = Intent(w) /\ k = <<"cancel", Id(w)>>
      BY IdType
    <2>1. \/ UNCHANGED gateway
          \/ gateway' = [gateway EXCEPT ![i] = "canceled"]
      BY <1>2, <2>k DEF Cancel, CancelBegins, Void, VoidFails, Voided, Close, Unvoided
    <2>2. \/ UNCHANGED op
          \/ op' = [op EXCEPT ![k] = IF op[k] = "none" THEN "pending" ELSE op[k]]
          \/ \E x \in {"succeeded", "failed"} : op' = [op EXCEPT ![k] = x]
      BY <1>2, <2>k DEF Cancel, CancelBegins, Void, VoidFails, Voided, Close, Unvoided
    <2> QED
      BY <2>1, <2>2 DEF Taken, TypeOK
  <1>3. ASSUME UNCHANGED <<gateway, op>>
        PROVE  /\ \A k \in Cards \X Attempts : Taken(k) => Taken(k)'
               /\ \A k \in Keys : op[k] # "none" => op'[k] # "none"
    BY <1>3 DEF Taken
  <1> QED
    BY <1>1, <1>2, <1>3 DEF Next, Tick, Leave, DatabaseError, Crash, vars

\* A step on the way of c leaves the place and the key of every other call alone.
LEMMA OthersStay ==
    ASSUME TypeOK, NEW c \in Calls, Start(c) \/ Create(c), NEW d \in Calls, d # c
    PROVE  at'[Creator(d)] = at[Creator(d)] /\ CardKey(d)' = CardKey(d)
  <1>1. Creator(c) \in Workers /\ Creator(d) \in Workers /\ Creator(c) # Creator(d)
    BY WorkersDiffer
  <1>2. \E p : at' = [at EXCEPT ![Creator(c)] = p]
    BY DEF Start, Create, GatewayTakes, GatewayRefuses, GatewayLost, Record, File, Fail,
           InsertBooking, Rekey, Attribute, InsertOrRekeyFails, Go, Finish
  <1>3. at'[Creator(d)] = at[Creator(d)]
    BY <1>1, <1>2 DEF TypeOK
  <1>4. kind'[d] = kind[d]
    BY DEF Start, Create, GatewayTakes, GatewayRefuses, GatewayLost, Record, File, Fail,
           InsertBooking, Rekey, Attribute, InsertOrRekeyFails, TypeOK
  <1> QED
    BY <1>3, <1>4 DEF CardKey

\* A cancelling step leaves creators where they are or past their booking.
LEMMA CancelPhases ==
    ASSUME TypeOK, NEW w \in Workers, Cancel(w), NEW c \in Calls
    PROVE  /\ \/ at'[Creator(c)] = at[Creator(c)]
              \/ at'[Creator(c)] \in {"void", "voided", "close", "unvoided", "over"}
           /\ kind' = kind
  <1>1. \E p \in {"void", "voided", "close", "unvoided", "over"} :
          at' = [at EXCEPT ![w] = p]
    BY DEF Cancel, CancelBegins, Void, VoidFails, Voided, Close, Unvoided, Go, Finish
  <1>2. kind' = kind
    BY DEF Cancel, CancelBegins, Void, VoidFails, Voided, Close, Unvoided
  <1> QED
    BY <1>1, <1>2, WorkersDiffer DEF TypeOK

\* What is known at each point of a call's way is still known after a step.
LEMMA WaySoundStep ==
    ASSUME TypeOK, CardInv, [Next]_vars
    PROVE  WaySound'
  <1>0. /\ \A k \in Cards \X Attempts : Taken(k) => Taken(k)'
        /\ \A k \in Keys : op[k] # "none" => op'[k] # "none"
    BY CardsStay
  <1> SUFFICES ASSUME NEW d \in Calls
               PROVE  /\ at'[Creator(d)] \in {"gateway", "record", "file", "fail"}
                           => op'[CardKey(d)'] # "none"
                      /\ at'[Creator(d)] \in {"record", "file"} => Taken(CardKey(d))'
                      /\ at'[Creator(d)] \in {"insert", "rekey"} => HasCard(AttemptOf[d])'
    BY DEF WaySound
  <1>k. CardKey(d) \in Cards \X Attempts /\ CardKey(d) \in Keys
    BY CardKeyType
  <1>h. HasCard(AttemptOf[d]) => HasCard(AttemptOf[d])'
    BY <1>0, AttemptsNameCalls DEF HasCard
  <1>s. /\ at[Creator(d)] \in {"gateway", "record", "file", "fail"} => op[CardKey(d)] # "none"
        /\ at[Creator(d)] \in {"record", "file"} => Taken(CardKey(d))
        /\ at[Creator(d)] \in {"insert", "rekey"} => HasCard(AttemptOf[d])
    BY DEF CardInv, WaySound
  <1>w. Creator(d) \in Workers
    BY WorkersDiffer
  <1>1. ASSUME at'[Creator(d)] = at[Creator(d)], CardKey(d)' = CardKey(d)
        PROVE  /\ at'[Creator(d)] \in {"gateway", "record", "file", "fail"}
                    => op'[CardKey(d)'] # "none"
               /\ at'[Creator(d)] \in {"record", "file"} => Taken(CardKey(d))'
               /\ at'[Creator(d)] \in {"insert", "rekey"} => HasCard(AttemptOf[d])'
    <2>0. PICK k \in Cards \X Attempts : k = CardKey(d) /\ k \in Keys
      BY <1>k
    <2>1. Taken(k) => Taken(CardKey(d))'
      BY <1>0, <1>1, <2>0 DEF Taken
    <2>2. op[k] # "none" => op'[CardKey(d)'] # "none"
      BY <1>0, <1>1, <2>0
    <2> QED
      BY <1>1, <1>s, <1>h, <2>0, <2>1, <2>2
  <1>2. CASE Start(d)
    <2>k. CardFor(clock) \in Cards /\ AttemptOf[d] \in Attempts
      BY AttemptsNameCalls DEF CardFor
    <2>0. PICK k \in Cards \X Attempts : k = <<CardFor(clock), AttemptOf[d]>>
      BY <2>k
    <2>1. CardKey(d)' = k
      BY <1>2, <2>0 DEF Start, CardKey, TypeOK
    <2>2. \/ at'[Creator(d)] = "over"
          \/ at'[Creator(d)] = "insert" /\ op[k] = "succeeded"
          \/ at'[Creator(d)] = "gateway" /\ op' = [op EXCEPT ![k] = "pending"]
      BY <1>2, <1>w, <2>0 DEF Start, Finish, AnsweredFromTable, Begun, TypeOK
    <2>3. op[k] = "succeeded" => HasCard(AttemptOf[d])
      BY <2>0 DEF CardInv, GatewayIsRecorded, HasCard, Taken
    <2> QED
      BY <1>h, <2>0, <2>1, <2>2, <2>3 DEF TypeOK
  <1>3. CASE Create(d)
    <2>0. PICK k \in Cards \X Attempts : k = CardKey(d) /\ k \in Keys
      BY <1>k
    <2>1. CardKey(d)' = k
      BY <1>3, <2>0
      DEF Create, GatewayTakes, GatewayRefuses, GatewayLost, Record, File, Fail,
          InsertBooking, Rekey, Attribute, InsertOrRekeyFails, CardKey
    <2>2. CASE GatewayTakes(d)
      <3>1. at'[Creator(d)] = "record" /\ op[k] # "none"
        BY <2>2, <2>0, <1>w, <1>s DEF GatewayTakes, Go, TypeOK
      <3>2. Taken(k)'
        BY <2>2, <2>0 DEF GatewayTakes, Taken, TypeOK
      <3>3. Taken(CardKey(d))'
        BY <3>2, <2>1 DEF Taken
      <3> QED
        BY <3>1, <3>3, <2>0, <2>1, <1>0
    <2>3. CASE GatewayRefuses(d) \/ GatewayLost(d)
      <3>1. at'[Creator(d)] = "fail" /\ op[k] # "none"
        BY <2>3, <2>0, <1>w, <1>s DEF GatewayRefuses, GatewayLost, Go, TypeOK
      <3> QED
        BY <3>1, <2>0, <2>1, <1>0
    <2>4. CASE Record(d)
      <3>1. at'[Creator(d)] = "file" /\ op[k] # "none" /\ Taken(k)
        BY <2>4, <2>0, <1>w, <1>s DEF Record, Go, TypeOK
      <3>2. Taken(CardKey(d))'
        BY <3>1, <2>0, <2>1, <1>0 DEF Taken
      <3> QED
        BY <3>1, <3>2, <2>0, <2>1, <1>0
    <2>5. CASE File(d)
      <3>1. at'[Creator(d)] = "insert" /\ Taken(k)
        BY <2>5, <2>0, <1>w, <1>s DEF File, Go, TypeOK
      <3>2. HasCard(AttemptOf[d])
        BY <3>1, <2>0, AttemptsNameCalls DEF CardKey, HasCard, TypeOK
      <3> QED
        BY <3>1, <3>2, <1>h
    <2>6. CASE InsertBooking(d)
      <3>1. at'[Creator(d)] \in {"rekey", "cancel"} /\ HasCard(AttemptOf[d])
        BY <2>6, <1>w, <1>s DEF InsertBooking, Go, TypeOK
      <3> QED
        BY <3>1, <1>h
    <2>7. CASE Fail(d) \/ Rekey(d) \/ Attribute(d) \/ InsertOrRekeyFails(d)
      <3>1. at'[Creator(d)] \in {"attribute", "over"}
        BY <2>7, <1>w DEF Fail, Rekey, Attribute, InsertOrRekeyFails, Go, Finish, TypeOK
      <3> QED
        BY <3>1
    <2> QED
      BY <1>3, <2>2, <2>3, <2>4, <2>5, <2>6, <2>7 DEF Create
  <1>4. ASSUME NEW c \in Calls, Start(c) \/ Create(c), c # d
        PROVE  at'[Creator(d)] = at[Creator(d)] /\ CardKey(d)' = CardKey(d)
    BY <1>4, OthersStay
  <1>5. ASSUME NEW w \in Workers, Cancel(w)
        PROVE  \/ at'[Creator(d)] = at[Creator(d)] /\ CardKey(d)' = CardKey(d)
               \/ at'[Creator(d)] \in {"void", "voided", "close", "unvoided", "over"}
    BY <1>5, CancelPhases DEF CardKey
  <1>6. ASSUME NEW w \in Workers, DatabaseError(w) \/ Crash(w)
        PROVE  /\ CardKey(d)' = CardKey(d)
               /\ \/ at'[Creator(d)] = at[Creator(d)]
                  \/ at'[Creator(d)] \in {"over", "unvoided"}
                  \/ at'[Creator(d)] = "fail" /\ at[Creator(d)] \in {"record", "file"}
    BY <1>6, <1>w DEF DatabaseError, Crash, CardKey, TypeOK
  <1>7. ASSUME NEW c \in Calls, Leave(c)
        PROVE  at'[Creator(d)] = at[Creator(d)] /\ CardKey(d)' = CardKey(d)
    BY <1>7, WorkersDiffer DEF Leave, Go, CardKey, TypeOK
  <1>8. ASSUME Tick \/ UNCHANGED vars
        PROVE  at'[Creator(d)] = at[Creator(d)] /\ CardKey(d)' = CardKey(d)
    BY <1>8 DEF Tick, vars, CardKey
  <1>9. ASSUME NEW w \in Workers, DatabaseError(w) \/ Crash(w)
        PROVE  /\ at'[Creator(d)] \in {"gateway", "record", "file", "fail"}
                    => op'[CardKey(d)'] # "none"
               /\ at'[Creator(d)] \in {"record", "file"} => Taken(CardKey(d))'
               /\ at'[Creator(d)] \in {"insert", "rekey"} => HasCard(AttemptOf[d])'
    <2>1. CASE at'[Creator(d)] = "fail" /\ at[Creator(d)] \in {"record", "file"}
      BY <2>1, <1>6, <1>9, <1>s, <1>0, <1>k
    <2> QED
      BY <2>1, <1>6, <1>9, <1>1
  <1> QED
    BY <1>1, <1>2, <1>3, <1>4, <1>5, <1>7, <1>8, <1>9 DEF Next

\* The intent a cancelling worker has read was taken, and stays so.
LEMMA VoidsSoundStep ==
    ASSUME TypeOK, CardInv, [Next]_vars
    PROVE  VoidsSound'
  <1>0. \A k \in Cards \X Attempts : Taken(k) => Taken(k)'
    BY CardsStay
  <1> SUFFICES ASSUME NEW w \in Workers, at'[w] = "void"
               PROVE  Taken(Intent(w))'
    BY DEF VoidsSound
  <1>k. PICK k \in Cards \X Attempts : k = Intent(w)
    BY IdType
  <1>s. Taken(k)' => Taken(Intent(w))'
    BY <1>k DEF Taken, Intent, Id, AttemptNamed
  <1>1. CASE at[w] = "void"
    BY <1>0, <1>1, <1>k, <1>s DEF CardInv, VoidsSound
  <1>2. CASE at[w] # "void"
    <2>1. CancelBegins(w) /\ HasIntent(w)
      <3>1. ASSUME NEW c \in Calls, Start(c) \/ Create(c) \/ Leave(c)
            PROVE  FALSE
        BY <1>2, <3>1, WorkersDiffer
        DEF Start, Create, GatewayTakes, GatewayRefuses, GatewayLost, Record, File, Fail,
            InsertBooking, Rekey, Attribute, InsertOrRekeyFails, Leave, Go, Finish, TypeOK
      <3>2. ASSUME NEW v \in Workers, DatabaseError(v) \/ Crash(v)
            PROVE  FALSE
        BY <1>2, <3>2 DEF DatabaseError, Crash, TypeOK
      <3>3. ASSUME NEW v \in Workers, Cancel(v)
            PROVE  v = w /\ CancelBegins(w) /\ HasIntent(w)
        BY <1>2, <3>3
        DEF Cancel, CancelBegins, Void, VoidFails, Voided, Close, Unvoided, Go, Finish,
            TypeOK
      <3>4. at' # at
        BY <1>2
      <3> QED
        BY <3>1, <3>2, <3>3, <3>4 DEF Next, vars, Tick
    <2>2. Taken(Intent(w))
      BY <2>1, IdType DEF HasIntent, Intent, CardInv, RowsSound
    <2> QED
      BY <1>0, <1>k, <1>s, <2>2
  <1> QED
    BY <1>1, <1>2

\* A row names a PaymentIntent only if the gateway has one under its attempt.
LEMMA RowsSoundStep ==
    ASSUME TypeOK, CardInv, [Next]_vars
    PROVE  RowsSound'
  <1>0. \A k \in Cards \X Attempts : Taken(k) => Taken(k)'
    BY CardsStay
  <1>n. \A id \in Ids : <<"authorize", AttemptNamed(id)>> \in Cards \X Attempts
    BY AttemptsNameCalls DEF AttemptNamed
  <1> SUFFICES ASSUME NEW id \in Ids, row'[id].intent
               PROVE  Taken(<<"authorize", AttemptNamed(id)>>)'
    BY DEF RowsSound
  <1>k. PICK k \in Cards \X Attempts : k = <<"authorize", AttemptNamed(id)>>
    BY <1>n
  <1>s. Taken(k)' => Taken(<<"authorize", AttemptNamed(id)>>)'
    BY <1>k DEF Taken
  <1>1. CASE row[id].intent
    BY <1>1, <1>0, <1>k, <1>s DEF CardInv, RowsSound
  <1>2. ASSUME NEW c \in Calls, File(c), ~row[id].intent
        PROVE  Taken(k)
    <2>1. AttemptOf[c] \in Attempts /\ AttemptOf[c] \in Ids
      BY AttemptsNameCalls
    <2>2. id = AttemptOf[c] /\ kind[c] = "authorize"
      BY <1>2, <2>1 DEF File, Filed, TypeOK, Row
    <2>3. k = CardKey(c)
      BY <1>k, <2>1, <2>2 DEF CardKey, AttemptNamed
    <2>4. at[Creator(c)] = "file"
      BY <1>2 DEF File, Go
    <2> QED
      BY <2>3, <2>4 DEF CardInv, WaySound
  <1>3. ASSUME NEW c \in Calls, Rekey(c), ~row[id].intent
        PROVE  Taken(k)
    <2>1. AttemptOf[c] \in Attempts /\ AttemptOf[c] \in Ids /\ c \in Ids /\ c # AttemptOf[c]
      BY AttemptsNameCalls, AttemptsAreNotBookings
    <2>2. id = c /\ row[AttemptOf[c]].intent
      BY <1>3, <2>1 DEF Rekey, Rekeyed, NoRow, TypeOK, Row
    <2>3. AttemptNamed(AttemptOf[c]) = AttemptNamed(c)
      BY <2>1, AttemptsAreNotBookings DEF AttemptNamed
    <2> QED
      BY <1>k, <2>1, <2>2, <2>3 DEF CardInv, RowsSound
  <1>4. ASSUME NEW w \in Workers, Close(w), ~row[id].intent
        PROVE  FALSE
    BY <1>4, IdType DEF Close, TypeOK, Row
  <1>5. ASSUME ~row[id].intent
        PROVE  \/ \E c \in Calls : File(c) \/ Rekey(c)
               \/ \E w \in Workers : Close(w)
    <2>1. row' # row
      BY <1>5
    <2> QED
      BY <2>1
      DEF Next, vars, Tick, Start, Create, GatewayTakes, GatewayRefuses, GatewayLost,
          Record, Fail, InsertBooking, Attribute, InsertOrRekeyFails, Leave, Cancel, CancelBegins,
          Void, VoidFails, Voided, Unvoided, DatabaseError, Crash
  <1> QED
    BY <1>0, <1>1, <1>2, <1>3, <1>4, <1>5, <1>s

\* Both halves of GatewayIsRecorded, from where the workers are.
LEMMA GatewayIsRecordedStep ==
    ASSUME TypeOK, CardInv, [Next]_vars
    PROVE  GatewayIsRecorded'
  <1>0. /\ \A k \in Cards \X Attempts : Taken(k) => Taken(k)'
        /\ \A k \in Keys : op[k] # "none" => op'[k] # "none"
    BY CardsStay
  <1> SUFFICES ASSUME NEW k \in Cards \X Attempts
               PROVE  /\ gateway'[k] # "none" => op'[k] # "none"
                      /\ op'[k] = "succeeded" => gateway'[k] \in {"open", "canceled"}
    BY DEF GatewayIsRecorded
  <1>1. ASSUME gateway[k] = "none", gateway'[k] # "none"
        PROVE  op[k] # "none"
    <2>1. ASSUME NEW c \in Calls, GatewayTakes(c) \/ GatewayRefuses(c) \/ GatewayLost(c)
          PROVE  op[k] # "none"
      <3>1. k = CardKey(c)
        BY <1>1, <2>1, CardKeyType DEF GatewayTakes, GatewayRefuses, GatewayLost, TypeOK
      <3>2. at[Creator(c)] = "gateway"
        BY <2>1 DEF GatewayTakes, GatewayRefuses, GatewayLost, Go
      <3> QED
        BY <3>1, <3>2 DEF CardInv, WaySound
    <2>2. ASSUME NEW w \in Workers, Void(w) \/ VoidFails(w)
          PROVE  FALSE
      <3>1. k = Intent(w) /\ at[w] = "void"
        BY <1>1, <2>2, IdType DEF Void, VoidFails, Go, TypeOK
      <3>2. Taken(Intent(w))
        BY <3>1 DEF CardInv, VoidsSound
      <3> QED
        BY <1>1, <3>1, <3>2 DEF Taken
    <2>3. gateway' # gateway
      BY <1>1
    <2> QED
      BY <2>1, <2>2, <2>3
      DEF Next, vars, Tick, Start, Create, Record, File, Fail, InsertBooking, Rekey,
          Attribute, InsertOrRekeyFails, Leave, Cancel, CancelBegins, Voided, Close, Unvoided,
          DatabaseError, Crash
  <1>2. ASSUME op[k] # "succeeded", op'[k] = "succeeded"
        PROVE  Taken(k)
    <2>1. ASSUME NEW c \in Calls, Start(c)
          PROVE  FALSE
      <3>1. \/ UNCHANGED op
            \/ op' = [op EXCEPT ![<<CardFor(clock), AttemptOf[c]>>] = "pending"]
        BY <2>1 DEF Start, Begun
      <3> QED
        BY <1>2, <3>1 DEF TypeOK
    <2>2. ASSUME NEW c \in Calls, Record(c)
          PROVE  Taken(k)
      <3>1. k = CardKey(c)
        BY <1>2, <2>2 DEF Record, TypeOK
      <3> QED
        BY <2>2, <3>1 DEF Record, Go, CardInv, WaySound
    <2>3. ASSUME NEW c \in Calls, Fail(c)
          PROVE  FALSE
      BY <1>2, <2>3 DEF Fail, TypeOK
    <2>4. ASSUME NEW w \in Workers, CancelBegins(w) \/ Voided(w) \/ Unvoided(w)
          PROVE  FALSE
      <3>1. k # <<"cancel", Id(w)>>
        OBVIOUS
      <3>2. op'[k] = op[k]
        BY <2>4, <3>1 DEF CancelBegins, Voided, Unvoided, TypeOK
      <3> QED
        BY <1>2, <3>2
    <2>5. op' # op
      BY <1>2
    <2> QED
      BY <2>1, <2>2, <2>3, <2>4, <2>5
      DEF Next, vars, Tick, Create, GatewayTakes, GatewayRefuses, GatewayLost, File,
          InsertBooking, Rekey, Attribute, InsertOrRekeyFails, Leave, Cancel, Void, VoidFails,
          Close, DatabaseError, Crash
  <1>3. /\ gateway[k] # "none" => op[k] # "none"
        /\ op[k] = "succeeded" => Taken(k)
    BY DEF CardInv, GatewayIsRecorded, Taken
  <1>4. gateway'[k] # "none" => op'[k] # "none"
    BY <1>0, <1>1, <1>3
  <1>5. op'[k] = "succeeded" => Taken(k)'
    BY <1>0, <1>2, <1>3
  <1> QED
    BY <1>4, <1>5 DEF Taken

\* Only an insert makes a booking, and an insert has its card.
LEMMA NoBookingWithoutCardStep ==
    ASSUME TypeOK, CardInv, [Next]_vars
    PROVE  NoBookingWithoutCard'
  <1>0. \A k \in Cards \X Attempts : Taken(k) => Taken(k)'
    BY CardsStay
  <1> SUFFICES ASSUME NEW c \in Calls, booking'[c] # "none"
               PROVE  HasCard(AttemptOf[c])'
    BY DEF NoBookingWithoutCard, HasCard, Taken
  <1>1. HasCard(AttemptOf[c]) => HasCard(AttemptOf[c])'
    BY <1>0, AttemptsNameCalls DEF HasCard
  <1>2. CASE booking[c] # "none"
    BY <1>1, <1>2 DEF CardInv, NoBookingWithoutCard, HasCard, Taken
  <1>3. CASE booking[c] = "none"
    <2>1. booking' # booking
      BY <1>3
    <2>2. \E d \in Calls : InsertBooking(d) \/ Leave(d)
      BY <2>1
      DEF Next, vars, Tick, Start, Create, GatewayTakes, GatewayRefuses, GatewayLost,
          Record, File, Fail, Rekey, Attribute, InsertOrRekeyFails, Cancel, CancelBegins, Void,
          VoidFails, Voided, Close, Unvoided, DatabaseError, Crash
    <2>3. InsertBooking(c)
      BY <1>3, <2>2 DEF InsertBooking, Leave, TypeOK
    <2> QED
      BY <1>1, <2>3 DEF InsertBooking, Go, CardInv, WaySound
  <1> QED
    BY <1>2, <1>3

\* Nothing is on its way, on record, or at the gateway.
LEMMA InitCardInv == Init => CardInv
  <1> SUFFICES ASSUME Init
               PROVE  CardInv
    OBVIOUS
  <1>1. WaySound /\ VoidsSound
    BY WorkersDiffer DEF Init, WaySound, VoidsSound
  <1>2. RowsSound
    BY DEF Init, RowsSound, NoRow
  <1>3. GatewayIsRecorded
    BY DEF Init, GatewayIsRecorded
  <1>4. NoBookingWithoutCard
    BY DEF Init, NoBookingWithoutCard
  <1> QED
    BY <1>1, <1>2, <1>3, <1>4 DEF CardInv

\* CardInv is inductive: the gateway, the operations table, the authorizations
\* and the bookings agree at every point of every call's way.
THEOREM CardInvariant == Spec => []CardInv
  <1>1. TypeOK /\ CardInv /\ [Next]_vars => CardInv'
    BY WaySoundStep, VoidsSoundStep, RowsSoundStep, GatewayIsRecordedStep, NoBookingWithoutCardStep
    DEF CardInv
  <1> QED
    BY InitCardInv, SagaTypeCorrect, <1>1, PTL DEF Spec

\* Design 8.4: nothing is asked of the gateway that the operations table does not
\* know of, and no key the table calls succeeded has been refused.
THEOREM GatewayStaysRecorded == Spec => []GatewayIsRecorded
  <1>1. CardInv => GatewayIsRecorded
    BY DEF CardInv
  <1> QED
    BY CardInvariant, <1>1, PTL

\* PAY-001: whatever is lost, retried or dies, no booking comes into being unless
\* the gateway has held or set up the card under its attempt.
THEOREM BookingsHaveCards == Spec => []NoBookingWithoutCard
  <1>1. CardInv => NoBookingWithoutCard
    BY DEF CardInv
  <1> QED
    BY CardInvariant, <1>1, PTL

---------------------------------------------------------------------------
\* The saga implements SlotSale.

\* A client is answered when its call ends, not before.
AnsweredAtTheEnd ==
    \A c \in Calls : answer[c] # "none" => at[Creator(c)] = "over"

Held == {c \in Calls : booking[c] = "live"}
Stage == [c \in Calls |-> StageOf(c)]

\* An answer is given by the step that ends a call, and a call ends once.
LEMMA AnswersAtEnds ==
    ASSUME TypeOK, [Next]_vars
    PROVE  \A c \in Calls :
             /\ answer'[c] # answer[c] => at'[Creator(c)] = "over"
             /\ at[Creator(c)] = "over"
                  => at'[Creator(c)] = "over" /\ answer'[c] = answer[c]
  <1> SUFFICES ASSUME NEW c \in Calls
               PROVE  /\ answer'[c] # answer[c] => at'[Creator(c)] = "over"
                      /\ at[Creator(c)] = "over"
                           => at'[Creator(c)] = "over" /\ answer'[c] = answer[c]
    OBVIOUS
  <1>1. ASSUME NEW d \in Calls, Start(d) \/ Create(d)
        PROVE  /\ at[Creator(d)] # "over"
               /\ \E p : /\ at' = [at EXCEPT ![Creator(d)] = p]
                         /\ \/ UNCHANGED answer
                            \/ /\ p = "over"
                               /\ \E a : answer' = [answer EXCEPT ![d] = a]
    BY <1>1 DEF Start, Create, GatewayTakes, GatewayRefuses, GatewayLost, Record, File,
                Fail, InsertBooking, Rekey, Attribute, InsertOrRekeyFails, Go, Finish, Creator
  <1>2. ASSUME NEW w \in Workers, Cancel(w) \/ DatabaseError(w) \/ Crash(w)
        PROVE  /\ at[w] # "over"
               /\ \E p : /\ at' = [at EXCEPT ![w] = p]
                         /\ \/ UNCHANGED answer
                            \/ /\ p = "over" /\ w = Creator(w[2])
                               /\ \E a : answer' = [answer EXCEPT ![w[2]] = a]
    BY <1>2, WorkersDiffer
    DEF Cancel, CancelBegins, Void, VoidFails, Voided, Close, Unvoided, Go, Finish,
        DatabaseError, Crash, Creator, Releaser
  <1>3. ASSUME NEW d \in Calls, Leave(d)
        PROVE  at'[Creator(c)] = at[Creator(c)] /\ UNCHANGED answer
    BY <1>3, WorkersDiffer DEF Leave, Go, TypeOK
  <1>4. CASE \E d \in Calls : Start(d) \/ Create(d)
    BY <1>4, <1>1, WorkersDiffer DEF TypeOK
  <1>5. CASE \E w \in Workers : Cancel(w) \/ DatabaseError(w) \/ Crash(w)
    BY <1>5, <1>2, WorkersDiffer DEF TypeOK
  <1>6. CASE Tick \/ UNCHANGED vars
    BY <1>6 DEF Tick, vars
  <1> QED
    BY <1>3, <1>4, <1>5, <1>6 DEF Next

\* A client is answered by the step that ends its call, and not before.
LEMMA AnsweredAtTheEndInvariant == Spec => []AnsweredAtTheEnd
  <1>1. Init => AnsweredAtTheEnd
    BY DEF Init, AnsweredAtTheEnd
  <1>2. TypeOK /\ AnsweredAtTheEnd /\ [Next]_vars => AnsweredAtTheEnd'
    BY AnswersAtEnds DEF AnsweredAtTheEnd
  <1> QED
    BY <1>1, <1>2, SagaTypeCorrect, PTL DEF Spec

\* Where a creator that moves stands in SlotSale; nobody else's stage moves.
LEMMA StageMoves ==
    ASSUME TypeOK, NEW c \in Calls, NEW x,
           \A d \in Calls \ {c} :
               at'[Creator(d)] = at[Creator(d)] /\ answer'[d] = answer[d],
           StageOf(c)' = x
    PROVE  Stage' = [Stage EXCEPT ![c] = x]
  <1>1. ASSUME NEW d \in Calls \ {c}
        PROVE  StageOf(d)' = StageOf(d)
    BY DEF StageOf
  <1> QED
    BY <1>1 DEF Stage

\* A call that does not move stays at its stage of the sale.
LEMMA StageStays ==
    ASSUME TypeOK, [Next]_vars, NEW c \in Calls, at'[Creator(c)] = at[Creator(c)]
    PROVE  answer'[c] = answer[c] /\ StageOf(c)' = StageOf(c)
  <1>1. answer'[c] = answer[c]
    BY AnswersAtEnds
  <1> QED
    BY <1>1 DEF StageOf

\* One creator that moves makes one step of SlotSale, or none.
LEMMA CreatorMoves ==
    ASSUME TypeOK, TypeOK', AnsweredAtTheEnd, [Next]_vars, NEW c \in Calls,
           UNCHANGED booking, at[Creator(c)] # "over",
           \A d \in Calls \ {c} : at'[Creator(d)] = at[Creator(d)],
           \/ StageOf(c)' = StageOf(c)
           \/ at'[Creator(c)] = "over" /\ answer'[c] \in {"none", "error"}
           \/ /\ at[Creator(c)] = "attribute" /\ at'[Creator(c)] = "over"
              /\ answer'[c] = "booked"
           \/ StageOf(c) = "lost" /\ at'[Creator(c)] = "over" /\ answer'[c] = "taken"
           \/ /\ at[Creator(c)] = "insert" /\ at'[Creator(c)] = "cancel"
              /\ Excluded
    PROVE  [Sale!Next]_<<Held, Stage>>
  <1>1. \A d \in Calls \ {c} : answer'[d] = answer[d]
    BY StageStays
  <1>2. Held' = Held
    BY DEF Held
  <1>3. Stage' = [Stage EXCEPT ![c] = StageOf(c)']
    BY <1>1, StageMoves
  <1>4. Stage[c] = StageOf(c)
    BY DEF Stage
  <1>5. StageOf(c) \in {"asking", "sold", "lost"}
    BY DEF StageOf
  <1>6. CASE StageOf(c)' = StageOf(c)
    BY <1>2, <1>3, <1>4, <1>6 DEF Stage
  <1>7. CASE at'[Creator(c)] = "over" /\ answer'[c] \in {"none", "error"}
    <2>1. StageOf(c)' = "dropped"
      BY <1>7 DEF StageOf
    <2>2. Sale!Drop(c)
      BY <1>2, <1>3, <1>4, <1>5, <2>1 DEF Sale!Drop, Held, Stage
    <2> QED
      BY <2>2 DEF Sale!Next
  <1>8. CASE /\ at[Creator(c)] = "attribute" /\ at'[Creator(c)] = "over"
             /\ answer'[c] = "booked"
    <2>1. StageOf(c) = "sold" /\ StageOf(c)' = "booked"
      BY <1>8 DEF StageOf
    <2>2. Sale!TellBooked(c)
      BY <1>2, <1>3, <1>4, <2>1 DEF Sale!TellBooked, Held, Stage
    <2> QED
      BY <2>2 DEF Sale!Next
  <1>9. CASE StageOf(c) = "lost" /\ at'[Creator(c)] = "over" /\ answer'[c] = "taken"
    <2>1. StageOf(c)' = "taken"
      BY <1>9 DEF StageOf
    <2>2. Sale!TellTaken(c)
      BY <1>2, <1>3, <1>4, <1>9, <2>1 DEF Sale!TellTaken, Held, Stage
    <2> QED
      BY <2>2 DEF Sale!Next
  <1>10. CASE at[Creator(c)] = "insert" /\ at'[Creator(c)] = "cancel" /\ Excluded
    <2>1. StageOf(c) = "asking" /\ StageOf(c)' = "lost"
      BY <1>10 DEF StageOf
    <2>2. Held # {}
      BY <1>10 DEF Excluded, Held
    <2>3. Sale!Lose(c)
      BY <1>2, <1>3, <1>4, <2>1, <2>2 DEF Sale!Lose, Held, Stage
    <2> QED
      BY <2>3 DEF Sale!Next
  <1> QED
    BY <1>6, <1>7, <1>8, <1>9, <1>10

\* The first state of the saga is a first state of the sale.
LEMMA SaleInit == Init => Sale!Init
  <1> SUFFICES ASSUME Init
               PROVE  Sale!Init
    OBVIOUS
  <1>1. \A c \in Calls : StageOf(c) = "asking"
    BY WorkersDiffer DEF Init, StageOf
  <1> QED
    BY <1>1 DEF Init, Sale!Init

\* The booking is inserted, or the slot is found held.
LEMMA InsertIsSale ==
    ASSUME TypeOK, TypeOK', AnsweredAtTheEnd, [Next]_vars,
           NEW c \in Calls, InsertBooking(c)
    PROVE  [Sale!Next]_<<Held, Stage>>
  <1>1. /\ Creator(c) \in Workers
        /\ at[Creator(c)] = "insert"
        /\ \A d \in Calls \ {c} : at'[Creator(d)] = at[Creator(d)]
    BY WorkersDiffer, OthersStay DEF Create, InsertBooking, Go
  <1>2. CASE Excluded
    <2>1. at'[Creator(c)] = "cancel" /\ UNCHANGED booking
      BY <1>1, <1>2 DEF InsertBooking, Go, TypeOK
    <2> QED
      BY <1>1, <1>2, <2>1, CreatorMoves
  <1>3. CASE ~Excluded
    <2>1. /\ at'[Creator(c)] = "rekey"
          /\ booking' = [booking EXCEPT ![c] = "live"]
      BY <1>1, <1>3 DEF InsertBooking, Go, TypeOK
    <2>2. Held = {}
      BY <1>3 DEF Excluded, Held
    <2>3. Held' = {c}
      BY <2>1, <2>2 DEF Held, TypeOK
    <2>4. StageOf(c) = "asking" /\ StageOf(c)' = "sold"
      BY <1>1, <2>1 DEF StageOf
    <2>5. \A d \in Calls \ {c} : answer'[d] = answer[d]
      BY <1>1, StageStays
    <2>6. Stage' = [Stage EXCEPT ![c] = "sold"]
      BY <1>1, <2>4, <2>5, StageMoves
    <2>7. Stage[c] = "asking"
      BY <2>4 DEF Stage
    <2>8. Sale!Sell(c)
      BY <2>2, <2>3, <2>6, <2>7 DEF Sale!Sell, Held, Stage
    <2> QED
      BY <2>8 DEF Sale!Next
  <1> QED
    BY <1>2, <1>3

\* Every other step on the way of a call.
LEMMA WayIsSale ==
    ASSUME TypeOK, TypeOK', AnsweredAtTheEnd, [Next]_vars,
           NEW c \in Calls, Start(c) \/ Create(c), ~InsertBooking(c)
    PROVE  [Sale!Next]_<<Held, Stage>>
  <1>1. /\ Creator(c) \in Workers
        /\ \A d \in Calls \ {c} : at'[Creator(d)] = at[Creator(d)]
    BY WorkersDiffer, OthersStay
  <1>2. UNCHANGED booking
    BY DEF Start, Create, GatewayTakes, GatewayRefuses, GatewayLost, Record, File, Fail,
           Rekey, Attribute, InsertOrRekeyFails
  <1>3. \/ /\ at[Creator(c)] \in {"idle", "gateway", "record", "file"}
           /\ at'[Creator(c)] \in {"gateway", "record", "file", "fail", "insert"}
        \/ /\ at[Creator(c)] \in {"idle", "fail", "insert", "rekey", "attribute"}
           /\ at'[Creator(c)] = "over" /\ answer'[c] = "error"
        \/ at[Creator(c)] = "rekey" /\ at'[Creator(c)] = "attribute"
        \/ /\ at[Creator(c)] = "attribute" /\ at'[Creator(c)] = "over"
           /\ answer'[c] = "booked"
    <2>1. CASE Start(c)
      BY <1>1, <2>1 DEF Start, Finish, Creator, TypeOK
    <2>2. CASE GatewayTakes(c) \/ GatewayRefuses(c) \/ GatewayLost(c) \/ Record(c) \/ File(c)
      BY <1>1, <2>2
      DEF GatewayTakes, GatewayRefuses, GatewayLost, Record, File, Go, TypeOK
    <2>3. CASE Fail(c) \/ Rekey(c) \/ Attribute(c) \/ InsertOrRekeyFails(c)
      BY <1>1, <2>3
      DEF Fail, Rekey, Attribute, InsertOrRekeyFails, Go, Finish, Creator, TypeOK
    <2> QED
      BY <2>1, <2>2, <2>3 DEF Create
  <1>4. CASE /\ at[Creator(c)] \in {"idle", "gateway", "record", "file"}
             /\ at'[Creator(c)] \in {"gateway", "record", "file", "fail", "insert"}
    <2>1. StageOf(c) = "asking" /\ StageOf(c)' = "asking"
      BY <1>4 DEF StageOf
    <2> QED
      BY <1>1, <1>2, <1>4, <2>1, CreatorMoves
  <1>5. CASE at'[Creator(c)] = "over" /\ answer'[c] = "error" /\ at[Creator(c)] # "over"
    BY <1>1, <1>2, <1>5, CreatorMoves
  <1>6. CASE at[Creator(c)] = "rekey" /\ at'[Creator(c)] = "attribute"
    <2>1. StageOf(c) = "sold" /\ StageOf(c)' = "sold"
      BY <1>6 DEF StageOf
    <2> QED
      BY <1>1, <1>2, <1>6, <2>1, CreatorMoves
  <1>7. CASE /\ at[Creator(c)] = "attribute" /\ at'[Creator(c)] = "over"
             /\ answer'[c] = "booked"
    BY <1>1, <1>2, <1>7, CreatorMoves
  <1> QED
    BY <1>3, <1>4, <1>5, <1>6, <1>7

\* The steps of cancelAuthorization, and the faults, of either worker.
LEMMA WorkerIsSale ==
    ASSUME TypeOK, TypeOK', AnsweredAtTheEnd, [Next]_vars,
           NEW w \in Workers, Cancel(w) \/ DatabaseError(w) \/ Crash(w)
    PROVE  [Sale!Next]_<<Held, Stage>>
  <1>1. UNCHANGED booking
    BY DEF Cancel, CancelBegins, Void, VoidFails, Voided, Close, Unvoided, DatabaseError,
           Crash
  <1>2. \E p : at' = [at EXCEPT ![w] = p]
    BY DEF Cancel, CancelBegins, Void, VoidFails, Voided, Close, Unvoided, Go, Finish,
           DatabaseError, Crash
  <1>3. CASE \E c \in Calls : w = Releaser(c)
    <2>1. \A d \in Calls : at'[Creator(d)] = at[Creator(d)]
      BY <1>2, <1>3, WorkersDiffer DEF TypeOK
    <2>2. Held' = Held
      BY <1>1 DEF Held
    <2>3. \A d \in Calls : StageOf(d)' = StageOf(d)
      BY <2>1, StageStays
    <2>4. Stage' = Stage
      BY <2>3 DEF Stage
    <2> QED
      BY <2>2, <2>4
  <1>4. ASSUME NEW c \in Calls, w = Creator(c)
        PROVE  [Sale!Next]_<<Held, Stage>>
    <2>1. \A d \in Calls \ {c} : at'[Creator(d)] = at[Creator(d)]
      BY <1>2, <1>4, WorkersDiffer DEF TypeOK
    <2>2. ASSUME Cancel(w)
          PROVE  /\ StageOf(c) = "lost" /\ at[w] # "over"
                 /\ \/ at'[w] \in {"void", "voided", "close", "unvoided"}
                    \/ at'[w] = "over" /\ answer'[c] \in {"taken", "error"}
      <3>1. /\ at[w] \in {"cancel", "void", "voided", "close", "unvoided"}
            /\ \/ at'[w] \in {"void", "voided", "close", "unvoided"}
               \/ at'[w] = "over" /\ answer'[c] \in {"taken", "error"}
        BY <1>4, <2>2
        DEF Cancel, CancelBegins, Void, VoidFails, Voided, Close, Unvoided, Go, Finish,
            Creator, TypeOK
      <3> QED
        BY <1>4, <3>1 DEF StageOf
    <2>3. ASSUME DatabaseError(w)
          PROVE  StageOf(c)' = StageOf(c) /\ at[w] # "over"
      <3>1. \/ at[w] \in {"record", "file"} /\ at'[w] = "fail"
            \/ at[w] \in {"voided", "close"} /\ at'[w] = "unvoided"
        BY <2>3 DEF DatabaseError, TypeOK
      <3> QED
        BY <1>4, <3>1 DEF StageOf
    <2>4. ASSUME Crash(w)
          PROVE  at'[w] = "over" /\ answer'[c] = "none" /\ at[w] # "over"
      BY <1>4, <2>4 DEF Crash, AnsweredAtTheEnd, TypeOK
    <2>5. CASE Cancel(w) /\ at'[w] \in {"void", "voided", "close", "unvoided"}
      <3>1. StageOf(c)' = "lost"
        BY <1>4, <2>5 DEF StageOf
      <3> QED
        BY <1>1, <1>4, <2>1, <2>2, <2>5, <3>1, CreatorMoves
    <2>6. CASE Cancel(w) /\ at'[w] = "over" /\ answer'[c] \in {"taken", "error"}
      BY <1>1, <1>4, <2>1, <2>2, <2>6, CreatorMoves
    <2>7. CASE DatabaseError(w)
      BY <1>1, <1>4, <2>1, <2>3, <2>7, CreatorMoves
    <2>8. CASE Crash(w)
      BY <1>1, <1>4, <2>1, <2>4, <2>8, CreatorMoves
    <2> QED
      BY <2>2, <2>5, <2>6, <2>7, <2>8
  <1> QED
    BY <1>3, <1>4, WorkersDiffer

\* Every step of the saga is a step of the sale, or none.
LEMMA SaleStep ==
    ASSUME TypeOK, TypeOK', AnsweredAtTheEnd, [Next]_vars
    PROVE  [Sale!Next]_<<Held, Stage>>
  <1>1. ASSUME NEW c \in Calls, Start(c) \/ Create(c)
        PROVE  [Sale!Next]_<<Held, Stage>>
    BY <1>1, InsertIsSale, WayIsSale
  <1>2. ASSUME NEW c \in Calls, Leave(c)
        PROVE  [Sale!Next]_<<Held, Stage>>
    <2>1. Held' = Held \ {c} /\ c \in Held
      BY <1>2 DEF Leave, Held, TypeOK
    <2>2. \A d \in Calls : at'[Creator(d)] = at[Creator(d)]
      BY <1>2, WorkersDiffer DEF Leave, Go, TypeOK
    <2>3. \A d \in Calls : StageOf(d)' = StageOf(d)
      BY <2>2, StageStays
    <2>4. Stage' = Stage
      BY <2>3 DEF Stage
    <2>5. Sale!GiveBack(c)
      BY <2>1, <2>4 DEF Sale!GiveBack, Held, Stage
    <2> QED
      BY <2>5 DEF Sale!Next
  <1>3. ASSUME NEW w \in Workers, Cancel(w) \/ DatabaseError(w) \/ Crash(w)
        PROVE  [Sale!Next]_<<Held, Stage>>
    BY <1>3, WorkerIsSale
  <1>4. CASE Tick \/ UNCHANGED vars
    BY <1>4 DEF Tick, vars, Held, Stage, StageOf
  <1> QED
    BY <1>1, <1>2, <1>3, <1>4 DEF Next

\* BOK-002: whatever fails, is retried or runs at once, the slot is sold to one
\* customer at a time, "booked" is told to a buyer and "just taken" to a loser.
THEOREM SagaSellsTheSlotOnce == Spec => SellsTheSlotOnce
  <1>1. TypeOK /\ TypeOK' /\ AnsweredAtTheEnd /\ [Next]_vars
          => [Sale!Next]_<<{c \in Calls : booking[c] = "live"},
                           [c \in Calls |-> StageOf(c)]>>
    BY SaleStep DEF Held, Stage
  <1> QED
    BY SaleInit, SagaTypeCorrect, AnsweredAtTheEndInvariant, <1>1, PTL
    DEF Spec, SellsTheSlotOnce, Sale!Spec

---------------------------------------------------------------------------
\* A call whose attempt is its own.

\* The way up to the booking, and the way back of a call that found none to make.
Asking == {"idle", "gateway", "record", "file", "fail", "insert"}
GivingBack == {"cancel", "void", "voided", "close", "unvoided"}

Hold(c) == <<"authorize", AttemptOf[c]>>
At(c) == at[Creator(c)]

\* Only the call's own steps touch the card, and it asks for one card only.
CardUntouched(c) ==
    /\ At(c) = "idle" => \A k \in Cards :
           op[<<k, AttemptOf[c]>>] = "none" /\ gateway[<<k, AttemptOf[c]>>] = "none"
    /\ At(c) # "idle" => \A k \in Cards \ {kind[c]} : gateway[<<k, AttemptOf[c]>>] = "none"

\* A call that goes on to insert has its authorization on file under the attempt.
AttemptOnFile(c) ==
    At(c) \in {"insert", "rekey", "cancel"} =>
        row[AttemptOf[c]] # NoRow /\ (kind[c] = "authorize" => row[AttemptOf[c]].intent)

\* Once re-keyed, it is on file under the booking.
BookingOnFile(c) == At(c) = "attribute" \/ answer[c] = "booked" => row[c] # NoRow

\* Nothing has been cancelled under the attempt before the call gives up, and
\* nothing is open any more when it says so.
GivesBackOnce(c) ==
    /\ At(c) \in Asking \cup {"cancel"} => op[<<"cancel", AttemptOf[c]>>] = "none"
    /\ At(c) \in {"voided", "close"} \/ answer[c] = "taken" => gateway[Hold(c)] # "open"

\* The booking is made by who asks, freed by who releases, and not both.
BookingOfTheCall(c) ==
    /\ At(c) \in Asking \cup GivingBack => booking[c] = "none"
    /\ at[Releaser(c)] # "idle" => booking[c] = "gone"

\* Nobody cancels the hold of a call that asks or of a booking that lives.
HoldIsSafe(c) == At(c) \in Asking \/ booking[c] = "live" => gateway[Hold(c)] # "canceled"

OwnInv(c) ==
    /\ CardUntouched(c) /\ AttemptOnFile(c) /\ BookingOnFile(c)
    /\ GivesBackOnce(c) /\ BookingOfTheCall(c) /\ HoldIsSafe(c)

LonersInv == \A c \in Calls : Alone(c) => OwnInv(c)

\* What OwnInv(c) speaks of stays as it is.
Undisturbed(c) ==
    /\ \A k \in Cards : /\ op'[<<k, AttemptOf[c]>>] = op[<<k, AttemptOf[c]>>]
                        /\ gateway'[<<k, AttemptOf[c]>>] = gateway[<<k, AttemptOf[c]>>]
    /\ op'[<<"cancel", AttemptOf[c]>>] = op[<<"cancel", AttemptOf[c]>>]
    /\ row'[AttemptOf[c]] = row[AttemptOf[c]] /\ row'[c] = row[c]
    /\ kind'[c] = kind[c] /\ answer'[c] = answer[c] /\ booking'[c] = booking[c]
    /\ at'[Creator(c)] = at[Creator(c)] /\ at'[Releaser(c)] = at[Releaser(c)]

\* Then what is known of c stays true.
LEMMA UndisturbedKeeps ==
    ASSUME NEW c \in Calls, OwnInv(c), Undisturbed(c)
    PROVE  OwnInv(c)'
  <1> USE DEF Undisturbed, Hold, At
  <1>1. CardUntouched(c)'
    BY DEF OwnInv, CardUntouched
  <1>2. AttemptOnFile(c)' /\ BookingOnFile(c)'
    BY DEF OwnInv, AttemptOnFile, BookingOnFile
  <1>3. GivesBackOnce(c)' /\ BookingOfTheCall(c)'
    BY DEF OwnInv, GivesBackOnce, BookingOfTheCall
  <1>4. HoldIsSafe(c)'
    BY DEF OwnInv, HoldIsSafe
  <1> QED
    BY <1>1, <1>2, <1>3, <1>4 DEF OwnInv

\* The keys of a call that is alone are nobody else's.
LEMMA OwnKeys ==
    ASSUME NEW c \in Calls, Alone(c), NEW d \in Calls, d # c
    PROVE  /\ AttemptOf[d] # AttemptOf[c] /\ AttemptOf[d] # c /\ AttemptOf[c] # d
           /\ AttemptOf[c] \in Attempts /\ AttemptOf[d] \in Attempts
           /\ c \notin Attempts /\ d \notin Attempts
    BY AttemptsNameCalls, AttemptsAreNotBookings DEF Alone

\* A step on another call's way to its booking does not disturb c.
LEMMA OthersCreate ==
    ASSUME TypeOK, NEW c \in Calls, Alone(c), NEW d \in Calls, d # c,
           Start(d) \/ Create(d) \/ Leave(d)
    PROVE  Undisturbed(c)
  <1>o. /\ AttemptOf[d] # AttemptOf[c] /\ AttemptOf[d] # c /\ AttemptOf[c] # d
        /\ AttemptOf[c] \in Attempts /\ AttemptOf[d] \in Attempts
        /\ c \notin Attempts /\ d \notin Attempts
    BY OwnKeys
  <1>w. /\ Creator(d) \in Workers /\ Creator(c) \in Workers /\ Creator(d) # Creator(c)
        /\ Releaser(d) \in Workers /\ Releaser(c) \in Workers /\ Creator(d) # Releaser(c)
        /\ Releaser(d) # Releaser(c) /\ Releaser(d) # Creator(c)
    BY WorkersDiffer DEF Creator, Releaser
  <1>1. at'[Creator(c)] = at[Creator(c)] /\ at'[Releaser(c)] = at[Releaser(c)]
    <2>1. \E w \in {Creator(d), Releaser(d)} : \E p : at' = [at EXCEPT ![w] = p]
      BY DEF Start, Create, Leave, GatewayTakes, GatewayRefuses, GatewayLost, Record, File,
             Fail, InsertBooking, Rekey, Attribute, InsertOrRekeyFails, Go, Finish
    <2> QED
      BY <1>w, <2>1 DEF TypeOK
  <1>2. \A x \in Cards \cup {"cancel"} :
           <<x, AttemptOf[c]>> \in Keys => op'[<<x, AttemptOf[c]>>] = op[<<x, AttemptOf[c]>>]
    <2>1. UNCHANGED op \/ \E y \in Cards : \E s : op' = [op EXCEPT ![<<y, AttemptOf[d]>>] = s]
      <3>1. kind[d] \in Cards /\ CardFor(clock) \in Cards
        BY DEF TypeOK, CardFor
      <3> QED
        BY <3>1 DEF Start, Begun, Create, Leave, GatewayTakes, GatewayRefuses, GatewayLost,
             Record, File, Fail, InsertBooking, Rekey, Attribute, InsertOrRekeyFails, CardKey
    <2>2. \A x, y : <<x, AttemptOf[c]>> # <<y, AttemptOf[d]>>
      BY <1>o
    <2> QED
      BY <2>1, <2>2 DEF TypeOK
  <1>3. \A k \in Cards : gateway'[<<k, AttemptOf[c]>>] = gateway[<<k, AttemptOf[c]>>]
    <2>1. UNCHANGED gateway \/ \E y, s : gateway' = [gateway EXCEPT ![<<y, AttemptOf[d]>>] = s]
      BY DEF Start, Create, Leave, GatewayTakes, GatewayRefuses, GatewayLost,
             Record, File, Fail, InsertBooking, Rekey, Attribute, InsertOrRekeyFails, CardKey
    <2>2. \A x, y : <<x, AttemptOf[c]>> # <<y, AttemptOf[d]>>
      BY <1>o
    <2>3. \A k \in Cards : <<k, AttemptOf[c]>> \in Cards \X Attempts
      BY <1>o
    <2> QED
      BY <2>1, <2>2, <2>3 DEF TypeOK
  <1>4. row'[AttemptOf[c]] = row[AttemptOf[c]] /\ row'[c] = row[c]
    <2>1. \/ UNCHANGED row
          \/ \E r : row' = [row EXCEPT ![AttemptOf[d]] = r]
          \/ \E r, s : row' = [row EXCEPT ![d] = r, ![AttemptOf[d]] = s]
      BY DEF Start, Create, Leave, GatewayTakes, GatewayRefuses, GatewayLost,
             Record, File, Fail, InsertBooking, Rekey, Rekeyed, Attribute, InsertOrRekeyFails
    <2> QED
      BY <1>o, <2>1 DEF TypeOK
  <1>5. kind'[c] = kind[c] /\ booking'[c] = booking[c]
    BY DEF Start, Create, Leave, GatewayTakes, GatewayRefuses, GatewayLost, Record, File,
           Fail, InsertBooking, Rekey, Attribute, InsertOrRekeyFails, TypeOK
  <1>6. answer'[c] = answer[c]
    BY DEF Start, Create, Leave, GatewayTakes, GatewayRefuses, GatewayLost, Record, File,
           Fail, InsertBooking, Rekey, Attribute, InsertOrRekeyFails, Finish, Creator, TypeOK
  <1>7. \A x \in Cards \cup {"cancel"} : <<x, AttemptOf[c]>> \in Keys
    BY <1>o
  <1> QED
    BY <1>1, <1>2, <1>3, <1>4, <1>5, <1>6, <1>7 DEF Undisturbed

\* Nor does a step of cancelAuthorization for another call, or a fault.
LEMMA OthersCancel ==
    ASSUME TypeOK, NEW c \in Calls, Alone(c), NEW w \in Workers, w[2] # c,
           Cancel(w) \/ DatabaseError(w) \/ Crash(w)
    PROVE  Undisturbed(c)
  <1>d. PICK d \in Calls : d = w[2] /\ (w = Creator(d) \/ w = Releaser(d))
    BY WorkersDiffer
  <1>o. /\ AttemptOf[d] # AttemptOf[c] /\ AttemptOf[d] # c /\ AttemptOf[c] # d
        /\ AttemptOf[c] \in Attempts /\ AttemptOf[d] \in Attempts
        /\ c \notin Attempts /\ d \notin Attempts
    BY <1>d, OwnKeys
  <1>w. Creator(c) \in Workers /\ Releaser(c) \in Workers /\ w # Creator(c) /\ w # Releaser(c)
    BY WorkersDiffer DEF Creator, Releaser
  <1>i. Id(w) \in Ids /\ Id(w) # AttemptOf[c] /\ Id(w) # c /\ AttemptNamed(Id(w)) = AttemptOf[d]
    BY <1>d, <1>o DEF Id, AttemptNamed, Creator, Releaser
  <1>1. at'[Creator(c)] = at[Creator(c)] /\ at'[Releaser(c)] = at[Releaser(c)]
    <2>1. \E p : at' = [at EXCEPT ![w] = p]
      BY DEF Cancel, CancelBegins, Void, VoidFails, Voided, Close, Unvoided, Go, Finish,
             DatabaseError, Crash
    <2> QED
      BY <1>w, <2>1 DEF TypeOK
  <1>2. \A x \in Cards \cup {"cancel"} :
           <<x, AttemptOf[c]>> \in Keys => op'[<<x, AttemptOf[c]>>] = op[<<x, AttemptOf[c]>>]
    <2>1. UNCHANGED op \/ \E s : op' = [op EXCEPT ![<<"cancel", Id(w)>>] = s]
      BY DEF Cancel, CancelBegins, Void, VoidFails, Voided, Close, Unvoided, DatabaseError, Crash
    <2>2. \A x : <<x, AttemptOf[c]>> # <<"cancel", Id(w)>>
      BY <1>i
    <2> QED
      BY <2>1, <2>2 DEF TypeOK
  <1>3. \A k \in Cards : gateway'[<<k, AttemptOf[c]>>] = gateway[<<k, AttemptOf[c]>>]
    <2>1. UNCHANGED gateway \/ \E s : gateway' = [gateway EXCEPT ![Intent(w)] = s]
      BY DEF Cancel, CancelBegins, Void, VoidFails, Voided, Close, Unvoided, DatabaseError, Crash
    <2>2. \A k : <<k, AttemptOf[c]>> # Intent(w)
      BY <1>i, <1>o DEF Intent
    <2>3. \A k \in Cards : <<k, AttemptOf[c]>> \in Cards \X Attempts
      BY <1>o
    <2> QED
      BY <2>1, <2>2, <2>3 DEF TypeOK
  <1>4. row'[AttemptOf[c]] = row[AttemptOf[c]] /\ row'[c] = row[c]
    <2>1. UNCHANGED row \/ \E r : row' = [row EXCEPT ![Id(w)] = r]
      BY DEF Cancel, CancelBegins, Void, VoidFails, Voided, Close, Unvoided, DatabaseError, Crash
    <2> QED
      BY <1>i, <1>o, <2>1 DEF TypeOK
  <1>5. kind'[c] = kind[c] /\ booking'[c] = booking[c]
    BY DEF Cancel, CancelBegins, Void, VoidFails, Voided, Close, Unvoided, DatabaseError, Crash
  <1>6. answer'[c] = answer[c]
    BY DEF Cancel, CancelBegins, Void, VoidFails, Voided, Close, Unvoided, DatabaseError, Crash,
           Finish, TypeOK
  <1>7. \A x \in Cards \cup {"cancel"} : <<x, AttemptOf[c]>> \in Keys
    BY <1>o
  <1> QED
    BY <1>1, <1>2, <1>3, <1>4, <1>5, <1>6, <1>7 DEF Undisturbed

\* Before the first call nothing is on record, and nobody has been told anything.
LEMMA LonersInit == Init => LonersInv
  <1> SUFFICES ASSUME Init, NEW c \in Calls
               PROVE  OwnInv(c)
    BY DEF LonersInv
  <1>1. AttemptOf[c] \in Attempts /\ AttemptOf[c] \in Ids /\ c \in Ids
    BY AttemptsNameCalls
  <1>2. at[Creator(c)] = "idle" /\ at[Releaser(c)] = "idle"
    BY WorkersDiffer DEF Init
  <1>3. \A k \in Cards : op[<<k, AttemptOf[c]>>] = "none" /\ gateway[<<k, AttemptOf[c]>>] = "none"
    BY <1>1 DEF Init
  <1>4. op[<<"cancel", AttemptOf[c]>>] = "none"
    BY <1>1 DEF Init
  <1> QED
    BY <1>1, <1>2, <1>3, <1>4
    DEF Init, OwnInv, CardUntouched, AttemptOnFile, BookingOnFile, GivesBackOnce,
        BookingOfTheCall, HoldIsSafe, Hold, At

\* What every step on c's own way to its booking leaves alone.
LEMMA OwnCreateFrame ==
    ASSUME TypeOK, NEW c \in Calls, Start(c) \/ Create(c)
    PROVE  /\ at'[Releaser(c)] = at[Releaser(c)]
           /\ op'[<<"cancel", AttemptOf[c]>>] = op[<<"cancel", AttemptOf[c]>>]
           /\ AttemptOf[c] \in Attempts /\ c \notin Attempts
           /\ \A k \in Cards : <<k, AttemptOf[c]>> \in Keys
  <1>1. /\ AttemptOf[c] \in Attempts /\ c \notin Attempts
        /\ \A k \in Cards : <<k, AttemptOf[c]>> \in Keys
        /\ <<"cancel", AttemptOf[c]>> \in Keys
    BY AttemptsNameCalls, AttemptsAreNotBookings
  <1>2. at'[Releaser(c)] = at[Releaser(c)]
    <2>1. \E p : at' = [at EXCEPT ![Creator(c)] = p]
      BY DEF Start, Create, GatewayTakes, GatewayRefuses, GatewayLost, Record, File, Fail,
             InsertBooking, Rekey, Attribute, InsertOrRekeyFails, Go, Finish
    <2> QED
      BY <2>1, WorkersDiffer DEF TypeOK
  <1>3. UNCHANGED op \/ \E y \in Cards : \E s : op' = [op EXCEPT ![<<y, AttemptOf[c]>>] = s]
    <2>1. kind[c] \in Cards /\ CardFor(clock) \in Cards
      BY DEF TypeOK, CardFor
    <2> QED
      BY <2>1
      DEF Start, Begun, Create, GatewayTakes, GatewayRefuses, GatewayLost, Record, File,
          Fail, InsertBooking, Rekey, Attribute, InsertOrRekeyFails, CardKey
  <1> QED
    BY <1>1, <1>2, <1>3 DEF TypeOK

\* Asking for the card, up to the point where it is on file.
LEMMA OwnCard ==
    ASSUME TypeOK, AnsweredAtTheEnd, NEW c \in Calls, Alone(c), OwnInv(c),
           \/ Start(c) \/ GatewayTakes(c) \/ GatewayRefuses(c) \/ GatewayLost(c)
           \/ Record(c) \/ Fail(c)
    PROVE  OwnInv(c)'
  <1>f. /\ at'[Releaser(c)] = at[Releaser(c)]
        /\ op'[<<"cancel", AttemptOf[c]>>] = op[<<"cancel", AttemptOf[c]>>]
        /\ AttemptOf[c] \in Attempts
        /\ \A k \in Cards : <<k, AttemptOf[c]>> \in Cards \X Attempts
    BY OwnCreateFrame DEF Create
  <1>w. Creator(c) \in Workers
    BY WorkersDiffer
  <1>i. /\ At(c) = "idle" => \A k \in Cards :
              op[<<k, AttemptOf[c]>>] = "none" /\ gateway[<<k, AttemptOf[c]>>] = "none"
        /\ At(c) # "idle" => \A k \in Cards \ {kind[c]} : gateway[<<k, AttemptOf[c]>>] = "none"
    BY DEF OwnInv, CardUntouched
  <1>1. /\ At(c) \in Asking /\ At(c)' \in Asking \cup {"over"} /\ At(c)' \notin {"idle", "insert"}
        /\ answer[c] = "none" /\ answer'[c] \in {"none", "error"}
        /\ row' = row /\ booking' = booking
    <2>1. CASE Start(c)
      <3>1. At(c) = "idle" /\ ~AnsweredFromTable(<<CardFor(clock), AttemptOf[c]>>)
        BY <2>1, <1>i DEF Start, At, AnsweredFromTable, CardFor
      <3> QED
        BY <2>1, <3>1, <1>w DEF Start, Finish, At, Asking, Creator, AnsweredAtTheEnd, TypeOK
    <2>2. CASE ~Start(c)
      BY <2>2, <1>w DEF GatewayTakes, GatewayRefuses, GatewayLost, Record, Fail, Go, Finish, At,
                   Asking, Creator, AnsweredAtTheEnd, TypeOK
    <2> QED
      BY <2>1, <2>2
  <1>2. /\ kind'[c] \in Cards
        /\ \A k \in Cards \ {kind'[c]} : gateway'[<<k, AttemptOf[c]>>] = "none"
    <2>1. CASE Start(c)
      BY <2>1, <1>i DEF Start, At, CardFor, TypeOK
    <2>2. CASE ~Start(c)
      <3>1. kind' = kind /\ At(c) # "idle"
        BY <2>2 DEF GatewayTakes, GatewayRefuses, GatewayLost, Record, Fail, Go, At
      <3>2. UNCHANGED gateway \/ \E s : gateway' = [gateway EXCEPT ![<<kind[c], AttemptOf[c]>>] = s]
        BY <2>2 DEF GatewayTakes, GatewayRefuses, GatewayLost, Record, Fail, CardKey
      <3> QED
        BY <3>1, <3>2, <1>i, <1>f DEF TypeOK
    <2> QED
      BY <2>1, <2>2
  <1>3. gateway[Hold(c)] # "canceled" => gateway'[Hold(c)] # "canceled"
    <2>1. \/ UNCHANGED gateway
          \/ gateway' = [gateway EXCEPT ![CardKey(c)] = IF @ = "none" THEN "open" ELSE @]
          \/ gateway' = [gateway EXCEPT ![CardKey(c)] = "refused"]
      BY DEF Start, GatewayTakes, GatewayRefuses, GatewayLost, Record, Fail
    <2> QED
      BY <2>1, <1>f, CardKeyType DEF Hold, TypeOK
  <1>4. CardUntouched(c)'
    BY <1>1, <1>2 DEF CardUntouched, At
  <1>5. AttemptOnFile(c)' /\ BookingOnFile(c)'
    BY <1>1 DEF AttemptOnFile, BookingOnFile, At, Asking, OwnInv
  <1>6. GivesBackOnce(c)' /\ BookingOfTheCall(c)'
    BY <1>1, <1>f DEF GivesBackOnce, BookingOfTheCall, At, Asking, GivingBack, OwnInv, Hold
  <1>7. HoldIsSafe(c)'
    BY <1>1, <1>3 DEF HoldIsSafe, BookingOfTheCall, At, Asking, OwnInv, Hold
  <1> QED
    BY <1>4, <1>5, <1>6, <1>7 DEF OwnInv

\* Filing it, inserting the booking, re-keying and answering.
LEMMA OwnBooking ==
    ASSUME TypeOK, AnsweredAtTheEnd, NEW c \in Calls, Alone(c), OwnInv(c),
           File(c) \/ InsertBooking(c) \/ Rekey(c) \/ Attribute(c) \/ InsertOrRekeyFails(c)
    PROVE  OwnInv(c)'
  <1>f. /\ at'[Releaser(c)] = at[Releaser(c)]
        /\ AttemptOf[c] \in Attempts /\ c \notin Attempts
        /\ op' = op /\ gateway' = gateway /\ kind' = kind
    BY OwnCreateFrame
    DEF Create, File, InsertBooking, Rekey, Attribute, InsertOrRekeyFails
  <1>w. Creator(c) \in Workers
    BY WorkersDiffer
  <1>a. answer[c] # "none" => At(c) = "over"
    BY DEF AnsweredAtTheEnd, At
  <1>1. \/ File(c) /\ At(c) = "file" /\ At(c)' = "insert" /\ answer' = answer
        \/ InsertBooking(c) /\ At(c) = "insert" /\ At(c)' \in {"rekey", "cancel"} /\ answer' = answer
        \/ Rekey(c) /\ At(c) = "rekey" /\ At(c)' = "attribute" /\ answer' = answer
        \/ Attribute(c) /\ At(c) = "attribute" /\ At(c)' = "over" /\ answer'[c] = "booked"
        \/ /\ InsertOrRekeyFails(c) /\ At(c) \in {"insert", "rekey", "attribute"}
           /\ At(c)' = "over" /\ answer'[c] = "error"
    BY <1>w
    DEF File, InsertBooking, Rekey, Attribute, InsertOrRekeyFails, Go, Finish, At, Creator, TypeOK
  <1>2. CardUntouched(c)'
    BY <1>1, <1>f DEF CardUntouched, At, OwnInv
  <1>3. AttemptOnFile(c)' /\ BookingOnFile(c)'
    <2>1. CASE File(c)
      <3>1. row'[AttemptOf[c]] = Filed(c, row[AttemptOf[c]])
        BY <2>1, <1>f DEF File, TypeOK
      <3>2. row'[AttemptOf[c]] # NoRow /\ (kind[c] = "authorize" => row'[AttemptOf[c]].intent)
        BY <3>1 DEF Filed, NoRow
      <3>3. At(c)' = "insert" /\ answer'[c] = "none"
        BY <2>1, <1>1, <1>a DEF File, Go, At, TypeOK
      <3> QED
        BY <3>2, <3>3, <1>f DEF AttemptOnFile, BookingOnFile, At
    <2>2. CASE Rekey(c)
      <3>1. row[AttemptOf[c]] # NoRow
        BY <2>2, <1>w DEF Rekey, Go, OwnInv, AttemptOnFile, At
      <3>2. row'[c] # NoRow
        BY <2>2, <3>1, <1>f DEF Rekey, Rekeyed, TypeOK
      <3>3. At(c)' = "attribute"
        BY <2>2, <1>w DEF Rekey, Go, At, TypeOK
      <3> QED
        BY <3>2, <3>3 DEF AttemptOnFile, BookingOnFile, At
    <2>3. CASE ~File(c) /\ ~Rekey(c)
      <3>1. row' = row
        BY <2>3 DEF InsertBooking, Attribute, InsertOrRekeyFails
      <3> QED
        BY <2>3, <3>1, <1>1, <1>f, <1>a DEF AttemptOnFile, BookingOnFile, At, OwnInv
    <2> QED
      BY <2>1, <2>2, <2>3
  <1>4. GivesBackOnce(c)'
    BY <1>1, <1>f, <1>a DEF GivesBackOnce, At, Asking, OwnInv, Hold
  <1>5. BookingOfTheCall(c)' /\ HoldIsSafe(c)'
    <2>1. CASE InsertBooking(c)
      <3>1. /\ booking[c] = "none" /\ at[Releaser(c)] = "idle" /\ gateway[Hold(c)] # "canceled"
            /\ \/ At(c)' = "rekey" /\ booking'[c] = "live"
               \/ At(c)' = "cancel" /\ booking'[c] = "none"
        BY <2>1, <1>w DEF InsertBooking, Go, At, OwnInv, BookingOfTheCall, HoldIsSafe, Asking, TypeOK
      <3> QED
        BY <3>1, <1>f DEF BookingOfTheCall, HoldIsSafe, At, Hold, Asking, GivingBack
    <2>2. CASE ~InsertBooking(c)
      <3>1. booking' = booking
        BY <2>2 DEF File, Rekey, Attribute, InsertOrRekeyFails
      <3> QED
        BY <2>2, <3>1, <1>1, <1>f
        DEF BookingOfTheCall, HoldIsSafe, At, Hold, Asking, GivingBack, OwnInv
    <2> QED
      BY <2>1, <2>2
  <1> QED
    BY <1>2, <1>3, <1>4, <1>5 DEF OwnInv

\* The booking leaves its slot, and a releaser sets out.
LEMMA OwnLeave ==
    ASSUME TypeOK, NEW c \in Calls, OwnInv(c), Leave(c)
    PROVE  OwnInv(c)'
  <1>1. /\ at'[Creator(c)] = at[Creator(c)] /\ booking'[c] = "gone" /\ booking[c] = "live"
        /\ UNCHANGED <<op, gateway, row, kind, answer>>
    BY WorkersDiffer DEF Leave, Go, TypeOK
  <1> QED
    BY <1>1
    DEF OwnInv, CardUntouched, AttemptOnFile, BookingOnFile, GivesBackOnce, BookingOfTheCall,
        HoldIsSafe, At, Hold, Asking, GivingBack

\* cancelAuthorization under the attempt's id, for a call that lost the slot.
LEMMA OwnGiveBack ==
    ASSUME TypeOK, AnsweredAtTheEnd, CardInv, NEW c \in Calls, Alone(c), OwnInv(c),
           Cancel(Creator(c))
    PROVE  OwnInv(c)'
  <1> DEFINE w == Creator(c)
  <1>w. /\ w \in Workers /\ Id(w) = AttemptOf[c] /\ Intent(w) = Hold(c) /\ w[1] = "create"
        /\ w[2] = c /\ AttemptOf[c] \in Attempts /\ AttemptOf[c] \in Ids /\ AttemptOf[c] # c
        /\ Hold(c) \in Cards \X Attempts /\ <<"cancel", AttemptOf[c]>> \in Keys
    BY WorkersDiffer, AttemptsNameCalls, AttemptsAreNotBookings
    DEF Creator, Id, Intent, AttemptNamed, Hold
  <1> HIDE DEF w
  <1>a. answer[c] = "none" \/ At(c) = "over"
    BY DEF AnsweredAtTheEnd, At
  <1>b. At(c) = at[w] /\ at[w] \in GivingBack
    BY DEF w, At, Cancel, CancelBegins, Void, VoidFails, Voided, Close, Unvoided, Go, GivingBack
  <1>c. at[w] = "cancel" => HasIntent(w) \/ gateway[Hold(c)] # "open"
    <2>1. kind[c] = "authorize" \/ (kind[c] = "setup" /\ gateway[Hold(c)] = "none")
      BY <1>b, <1>w DEF OwnInv, CardUntouched, GivingBack, Hold, TypeOK
    <2> QED
      BY <2>1, <1>b, <1>w DEF OwnInv, AttemptOnFile, HasIntent
  <1>1. /\ At(c)' = at'[w] /\ at'[Releaser(c)] = at[Releaser(c)]
        /\ kind' = kind /\ booking' = booking /\ row'[c] = row[c]
    <2>1. \E p : at' = [at EXCEPT ![w] = p]
      BY DEF w, Cancel, CancelBegins, Void, VoidFails, Voided, Close, Unvoided, Go, Finish
    <2>2. UNCHANGED row \/ \E r : row' = [row EXCEPT ![AttemptOf[c]] = r]
      BY <1>w DEF w, Cancel, CancelBegins, Void, VoidFails, Voided, Close, Unvoided
    <2> QED
      BY <2>1, <2>2, <1>w, WorkersDiffer
      DEF w, At, Cancel, CancelBegins, Void, VoidFails, Voided, Close, Unvoided, TypeOK
  <1>2. \/ at'[w] \in {"void", "unvoided"} /\ answer' = answer
        \/ at'[w] \in {"voided", "close"} /\ answer' = answer /\ gateway'[Hold(c)] # "open"
        \/ at'[w] = "over" /\ answer'[c] = "error"
        \/ at'[w] = "over" /\ answer'[c] = "taken" /\ gateway'[Hold(c)] # "open"
    <2>1. CASE CancelBegins(w)
      <3>1. op[<<"cancel", AttemptOf[c]>>] # "succeeded"
        BY <2>1, <1>b DEF CancelBegins, OwnInv, GivesBackOnce
      <3> QED
        BY <2>1, <3>1, <1>w, <1>c DEF CancelBegins, TypeOK
    <2>2. CASE Void(w) \/ VoidFails(w)
      BY <2>2, <1>w DEF Void, VoidFails, Go, TypeOK
    <2>3. CASE Voided(w) \/ Close(w) \/ Unvoided(w)
      BY <2>3, <1>w, <1>b DEF Voided, Close, Unvoided, Go, Finish, OwnInv, GivesBackOnce, TypeOK
    <2> QED
      BY <2>1, <2>2, <2>3 DEF Cancel, w
  <1>3. \A k \in Cards \ {kind[c]} : gateway'[<<k, AttemptOf[c]>>] = "none"
    <2>1. \A k \in Cards \ {kind[c]} : gateway[<<k, AttemptOf[c]>>] = "none"
      BY <1>b DEF OwnInv, CardUntouched, GivingBack
    <2>2. UNCHANGED gateway \/ (at[w] = "void" /\ gateway' = [gateway EXCEPT ![Hold(c)] = "canceled"])
      BY <1>w DEF w, Cancel, CancelBegins, Void, VoidFails, Voided, Close, Unvoided, Go
    <2>3. at[w] = "void" => kind[c] = "authorize"
      <3>1. at[w] = "void" => gateway[Hold(c)] # "none"
        BY <1>w DEF CardInv, VoidsSound, Taken
      <3> QED
        BY <3>1, <2>1 DEF Hold
    <2> QED
      BY <2>1, <2>2, <2>3, <1>w DEF Hold, TypeOK
  <1>4. booking[c] = "none"
    BY <1>b DEF OwnInv, BookingOfTheCall
  <1> QED
    BY <1>1, <1>2, <1>3, <1>4, <1>a, <1>b
    DEF OwnInv, CardUntouched, AttemptOnFile, BookingOnFile, GivesBackOnce, BookingOfTheCall,
        HoldIsSafe, At, Hold, Asking, GivingBack

\* cancelAuthorization under the booking's id, for a booking that is gone.
LEMMA OwnRelease ==
    ASSUME TypeOK, CardInv, NEW c \in Calls, Alone(c), OwnInv(c), Cancel(Releaser(c))
    PROVE  OwnInv(c)'
  <1> DEFINE w == Releaser(c)
  <1>w. /\ w \in Workers /\ Id(w) = c /\ Intent(w) = Hold(c) /\ w[1] = "release"
        /\ AttemptOf[c] \in Attempts /\ AttemptOf[c] # c /\ c \in Ids /\ AttemptOf[c] \in Ids
        /\ Hold(c) \in Cards \X Attempts /\ <<"cancel", AttemptOf[c]>> \in Keys
        /\ \A k \in Cards : <<k, AttemptOf[c]>> \in Keys
    BY WorkersDiffer, AttemptsNameCalls, AttemptsAreNotBookings
    DEF Releaser, Id, Intent, AttemptNamed, Hold
  <1> HIDE DEF w
  <1>b. booking[c] = "gone" /\ At(c) \notin Asking \cup GivingBack
    <2>1. at[w] # "idle"
      BY DEF w, Cancel, CancelBegins, Void, VoidFails, Voided, Close, Unvoided, Go
    <2> QED
      BY <2>1 DEF w, OwnInv, BookingOfTheCall
  <1>1. /\ At(c)' = At(c) /\ kind' = kind /\ booking' = booking /\ answer' = answer
        /\ row'[AttemptOf[c]] = row[AttemptOf[c]] /\ (row[c] # NoRow => row'[c] # NoRow)
    <2>1. \E p : at' = [at EXCEPT ![w] = p]
      BY DEF w, Cancel, CancelBegins, Void, VoidFails, Voided, Close, Unvoided, Go, Finish
    <2>2. UNCHANGED row \/ \E i : row' = [row EXCEPT ![c] = [status |-> "CANCELLED", intent |-> i]]
      BY <1>w DEF w, Cancel, CancelBegins, Void, VoidFails, Voided, Close, Unvoided
    <2>3. UNCHANGED <<kind, booking, answer>>
      BY <1>w DEF w, Cancel, CancelBegins, Void, VoidFails, Voided, Close, Unvoided, Finish
    <2> QED
      BY <2>1, <2>2, <2>3, <1>w, WorkersDiffer DEF w, At, NoRow, TypeOK
  <1>2. UNCHANGED gateway \/ (at[w] = "void" /\ gateway' = [gateway EXCEPT ![Hold(c)] = "canceled"])
    BY <1>w DEF w, Cancel, CancelBegins, Void, VoidFails, Voided, Close, Unvoided, Go
  <1>3. /\ \A k \in Cards \ {kind[c]} : gateway'[<<k, AttemptOf[c]>>] = "none"
        /\ gateway[Hold(c)] # "open" => gateway'[Hold(c)] # "open"
    <2>1. \A k \in Cards \ {kind[c]} : gateway[<<k, AttemptOf[c]>>] = "none"
      BY <1>b DEF OwnInv, CardUntouched, Asking
    <2>2. at[w] = "void" => gateway[Hold(c)] # "none"
      BY <1>w DEF CardInv, VoidsSound, Taken
    <2>3. at[w] = "void" => kind[c] = "authorize"
      BY <2>1, <2>2 DEF Hold
    <2> QED
      BY <2>1, <2>3, <1>2, <1>w DEF Hold, TypeOK
  <1> QED
    BY <1>1, <1>3, <1>b
    DEF OwnInv, CardUntouched, AttemptOnFile, BookingOnFile, GivesBackOnce, BookingOfTheCall,
        HoldIsSafe, At, Hold, Asking, GivingBack

\* A query of c fails, or its process dies.
LEMMA OwnFault ==
    ASSUME TypeOK, NEW c \in Calls, OwnInv(c), NEW w \in {Creator(c), Releaser(c)},
           DatabaseError(w) \/ Crash(w)
    PROVE  OwnInv(c)'
  <1>1. UNCHANGED <<op, gateway, row, booking, kind, answer>>
    BY DEF DatabaseError, Crash
  <1>2. \/ at[w] \in {"record", "file"} /\ at' = [at EXCEPT ![w] = "fail"]
        \/ at[w] \in {"voided", "close"} /\ at' = [at EXCEPT ![w] = "unvoided"]
        \/ at[w] # "idle" /\ at' = [at EXCEPT ![w] = "over"]
    BY DEF DatabaseError, Crash
  <1>3. CASE w = Releaser(c)
    <2>1. at'[Creator(c)] = at[Creator(c)] /\ at[Releaser(c)] # "idle"
      BY <1>2, <1>3, WorkersDiffer DEF TypeOK
    <2> QED
      BY <2>1, <1>1
      DEF OwnInv, CardUntouched, AttemptOnFile, BookingOnFile, GivesBackOnce, BookingOfTheCall,
          HoldIsSafe, At, Hold
  <1>4. CASE w = Creator(c)
    <2>1. at'[Releaser(c)] = at[Releaser(c)]
      BY <1>2, <1>4, WorkersDiffer DEF TypeOK
    <2>2. \/ At(c) \in {"record", "file"} /\ At(c)' = "fail"
          \/ At(c) \in {"voided", "close"} /\ At(c)' = "unvoided"
          \/ At(c) # "idle" /\ At(c)' = "over"
      BY <1>2, <1>4, WorkersDiffer DEF At, TypeOK
    <2> QED
      BY <2>1, <2>2, <1>1
      DEF OwnInv, CardUntouched, AttemptOnFile, BookingOnFile, GivesBackOnce, BookingOfTheCall,
          HoldIsSafe, At, Hold, Asking, GivingBack
  <1> QED
    BY <1>3, <1>4

\* Every step keeps what is known of a call that is alone.
LEMMA LonersStep ==
    ASSUME TypeOK, CardInv, AnsweredAtTheEnd, LonersInv, [Next]_vars
    PROVE  LonersInv'
  <1> SUFFICES ASSUME NEW c \in Calls, Alone(c)
               PROVE  OwnInv(c)'
    BY DEF LonersInv, Alone
  <1>0. OwnInv(c)
    BY DEF LonersInv
  <1>1. ASSUME NEW d \in Calls, Start(d) \/ Create(d) \/ Leave(d)
        PROVE  OwnInv(c)'
    <2>1. CASE d # c
      BY <1>0, <1>1, <2>1, OthersCreate, UndisturbedKeeps
    <2>2. CASE d = c
      BY <1>0, <1>1, <2>2, OwnCard, OwnBooking, OwnLeave DEF Create
    <2> QED
      BY <2>1, <2>2
  <1>2. ASSUME NEW w \in Workers, Cancel(w) \/ DatabaseError(w) \/ Crash(w)
        PROVE  OwnInv(c)'
    <2>1. CASE w[2] # c
      BY <1>0, <1>2, <2>1, OthersCancel, UndisturbedKeeps
    <2>2. CASE w[2] = c
      <3>1. w = Creator(c) \/ w = Releaser(c)
        BY <2>2, WorkersDiffer
      <3>2. CASE Cancel(w)
        BY <1>0, <3>1, <3>2, OwnGiveBack, OwnRelease
      <3>3. CASE DatabaseError(w) \/ Crash(w)
        BY <1>0, <3>1, <3>3, OwnFault
      <3> QED
        BY <1>2, <3>2, <3>3
    <2> QED
      BY <2>1, <2>2
  <1>3. CASE Tick \/ UNCHANGED vars
    BY <1>0, <1>3, UndisturbedKeeps DEF Tick, vars, Undisturbed
  <1> QED
    BY <1>1, <1>2, <1>3 DEF Next

\* The inductive invariant of the calls that share their attempt with nobody:
\* which keys are untouched, what is on file where, and which holds are safe, at
\* each point of the way there and back.
THEOREM LonersInvariant == Spec => []LonersInv
  <1>1. TypeOK /\ CardInv /\ AnsweredAtTheEnd /\ LonersInv /\ [Next]_vars => LonersInv'
    BY LonersStep
  <1> QED
    BY LonersInit, SagaTypeCorrect, CardInvariant, AnsweredAtTheEndInvariant, <1>1, PTL DEF Spec

\* PAY-001: the payment record of a customer who was told "booked" is filed under
\* the booking, where capture and release will look for it.
THEOREM BookedStaysOnFile == Spec => []BookedIsOnFile
  <1>1. LonersInv => BookedIsOnFile
    BY DEF LonersInv, OwnInv, BookingOnFile, BookedIsOnFile
  <1> QED
    BY LonersInvariant, <1>1, PTL

\* BOK-002: whoever was told "just taken" has no hold left on the card.
THEOREM LosersKeepNoHold == Spec => []TakenLeavesNoHold
  <1>1. LonersInv => TakenLeavesNoHold
    BY DEF LonersInv, OwnInv, GivesBackOnce, Hold, TakenLeavesNoHold
  <1> QED
    BY LonersInvariant, <1>1, PTL

\* PAY-001: no fault and nobody else's call takes back the hold of a booking that
\* holds its slot.
THEOREM LiveBookingsKeepTheirHold == Spec => []LiveBookingKeepsItsHold
  <1>1. LonersInv => LiveBookingKeepsItsHold
    BY DEF LonersInv, OwnInv, HoldIsSafe, Hold, LiveBookingKeepsItsHold
  <1> QED
    BY LonersInvariant, <1>1, PTL
=============================================================================
