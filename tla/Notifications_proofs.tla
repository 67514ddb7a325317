------------------------ MODULE Notifications_proofs ------------------------
(***************************************************************************)
(* Proofs about Notifications: no outbox row is marked before everybody    *)
(* the state machine names has been mailed, and nobody is mailed twice     *)
(* about one transition without a fault in between - for any number of     *)
(* bookings, dispatchers, pollers and faults.                              *)
(***************************************************************************)
EXTENDS Notifications, WellFoundedInduction, TLAPS

\* The mails a dispatcher may have left, and to whom.
Lefts == {<< >>, <<"customer">>, <<"provider">>, <<"customer", "provider">>}
Members(left) == {left[i] : i \in DOMAIN left}

Waiting == [pc : {"claiming"}, done : Nat]
Carrying == [pc : {"mailing", "hung"}, done : Nat, row : Nat, left : Lefts]

\* The dispatcher holds the lock of its row.
Holds(d) == disp[d].pc \in {"mailing", "hung"}

MailTypes ==
    /\ state \in [Bookings -> BookingState \cup {"NONE"}]
    /\ outbox \in Seq(Row)
    /\ mailed \in Seq([Parties -> Nat])
    /\ Len(mailed) = Len(outbox)
    /\ disp \in [Dispatchers -> {Idle} \cup Waiting \cup Carrying]
    /\ faults \in Nat

\* A row on its way is undispatched, and one dispatcher's.
RowsHeld ==
    /\ \A d \in Dispatchers :
         Holds(d) => disp[d].row \in DOMAIN outbox /\ ~outbox[disp[d].row].dispatched
    /\ \A d, e \in Dispatchers : Holds(d) /\ Holds(e) /\ disp[d].row = disp[e].row => d = e

\* The service's list of mails covers whom the state machine names.
RowsCovered ==
    \A i \in DOMAIN outbox : Concerned(outbox[i].event) \subseteq Members(MailsFor(outbox[i].to))

\* Who is no longer on a dispatcher's list has been mailed.
MailedSoFar ==
    \A d \in Dispatchers : Holds(d) =>
        \A party \in Members(MailsFor(outbox[disp[d].row].to)) \ Members(disp[d].left) :
            mailed[disp[d].row][party] > 0

\* The present handling of row i has passed the party by, or was the last.
Past(i, party) ==
    \/ outbox[i].dispatched
    \/ \E d \in Dispatchers : Holds(d) /\ disp[d].row = i /\ party \notin Members(disp[d].left)

\* A fault for every handling of the row before this one.
MailsCounted ==
    \A i \in DOMAIN outbox : \A party \in Parties :
        /\ mailed[i][party] <= 1 + faults
        /\ ~Past(i, party) => mailed[i][party] <= faults

MailInv ==
    /\ MailTypes
    /\ RowsHeld
    /\ RowsCovered
    /\ MailedSoFar
    /\ DispatchedMeansTold
    /\ MailsCounted

---------------------------------------------------------------------------
\* A set of numbers that is not empty has a least.
LEMMA LeastExists ==
    ASSUME NEW T, T \subseteq Nat, T # {}
    PROVE  \E x \in T : \A y \in T : x <= y
  <1>1. PICK x \in T : \A y \in T : ~(<<y, x>> \in OpToRel(<, Nat))
    BY NatLessThanWellFounded, WFMin, Zenon
  <1>2. \A y \in T : ~(y < x)
    BY <1>1 DEF OpToRel
  <1> QED
    BY <1>2

\* Whom each list goes to.
LEMMA ListMembers ==
    /\ Members(<< >>) = {}
    /\ Members(<<"customer">>) = {"customer"}
    /\ Members(<<"provider">>) = {"provider"}
    /\ Members(<<"customer", "provider">>) = {"customer", "provider"}
  <1>1. Members(<< >>) = {}
    BY DEF Members
  <1>2. Members(<<"customer">>) = {"customer"}
    BY DEF Members
  <1>3. Members(<<"provider">>) = {"provider"}
    BY DEF Members
  <1>4. Members(<<"customer", "provider">>) = {"customer", "provider"}
    BY DEF Members
  <1> QED
    BY <1>1, <1>2, <1>3, <1>4

\* Taking the first mail off a list.
LEMMA OneMailLess ==
    ASSUME NEW l \in Lefts, l # << >>
    PROVE  /\ Head(l) \in Parties /\ Tail(l) \in Lefts
           /\ Head(l) \in Members(l)
           /\ Members(Tail(l)) = Members(l) \ {Head(l)}
  <1>1. CASE l = <<"customer">>
    <2>1. Head(l) = "customer" /\ Tail(l) = << >>
      BY <1>1
    <2> QED
      BY <1>1, <2>1, ListMembers DEF Lefts, Parties
  <1>2. CASE l = <<"provider">>
    <2>1. Head(l) = "provider" /\ Tail(l) = << >>
      BY <1>2
    <2> QED
      BY <1>2, <2>1, ListMembers DEF Lefts, Parties
  <1>3. CASE l = <<"customer", "provider">>
    <2>1. Head(l) = "customer" /\ Tail(l) = <<"provider">>
      BY <1>3
    <2> QED
      BY <1>3, <2>1, ListMembers DEF Lefts, Parties
  <1> QED
    BY <1>1, <1>2, <1>3 DEF Lefts

\* The lists mails are sent from.
LEMMA MailLists ==
    /\ \A to : MailsFor(to) \in Lefts /\ MailsFor(to) # << >>
    /\ Members(<< >>) = {}
    /\ \A l \in Lefts : Members(l) \subseteq Parties
    /\ \A event \in BookingEvent :
         Concerned(event) \subseteq Members(MailsFor(NextState(event)))
    /\ Concerned(NoEvent) \subseteq Members(MailsFor("PENDING"))
  <1>1. \A to : MailsFor(to) \in Lefts /\ MailsFor(to) # << >>
    BY DEF MailsFor, Lefts
  <1>2. \A l \in Lefts : Members(l) \subseteq Parties
    BY ListMembers DEF Lefts, Parties
  <1>3. ASSUME NEW event \in BookingEvent
        PROVE  Concerned(event) \subseteq Members(MailsFor(NextState(event)))
    <2>1. event # NoEvent
      BY DEF BookingEvent, PendingEvents, ConfirmedEvents, NoEvent
    <2>2. CASE event = "ProviderDeclines"
      <3>1. NextState("ProviderDeclines") = "DECLINED"
        BY DEF NextState
      <3>2. Recipients(event) = {"customer"}
        BY <2>2 DEF Recipients, CustomerEvents
      <3> QED
        BY <2>1, <2>2, <3>1, <3>2, ListMembers DEF Concerned, MailsFor
    <2>3. CASE event # "ProviderDeclines"
      <3>1. NextState(event) # "DECLINED"
        BY <2>3 DEF NextState
      <3>2. Recipients(event) \subseteq {"customer", "provider"}
        BY DEF Recipients
      <3> QED
        BY <2>1, <3>1, <3>2, ListMembers DEF Concerned, MailsFor
    <2> QED
      BY <2>2, <2>3
  <1>4. Concerned(NoEvent) \subseteq Members(MailsFor("PENDING"))
    BY ListMembers DEF Concerned, MailsFor, Parties
  <1> QED
    BY <1>1, <1>2, <1>3, <1>4, ListMembers

\* What a dispatcher is that holds a row.
LEMMA HoldersHold ==
    ASSUME MailTypes, NEW d \in Dispatchers, Holds(d)
    PROVE  disp[d] \in Carrying /\ disp[d].row \in Nat /\ disp[d].left \in Lefts /\ disp[d].done \in Nat
  <1>1. disp[d] \in Carrying
    BY DEF MailTypes, Holds, Idle, Waiting
  <1> QED
    BY <1>1 DEF Carrying

\* Nothing has been announced, nobody mailed.
LEMMA InitInv == Init => MailInv
  <1> SUFFICES ASSUME Init PROVE MailInv
    OBVIOUS
  <1>1. \A d \in Dispatchers : ~Holds(d)
    BY DEF Init, Holds, Idle
  <1>2. DOMAIN outbox = {}
    BY DEF Init
  <1>3. MailTypes
    BY DEF Init, MailTypes
  <1> QED
    BY <1>1, <1>2, <1>3 DEF MailInv, RowsHeld, RowsCovered, MailedSoFar, DispatchedMeansTold, MailsCounted

---------------------------------------------------------------------------
(* A dispatcher lets go of its row, or never had one.                      *)

\* A dispatcher that goes back to idling or claiming leaves the invariant as
\* it is, if it had no row or if a fault is counted.
LEMMA LettingGoKeepsInv ==
    ASSUME MailInv, NEW d \in Dispatchers, NEW place \in {Idle} \cup Waiting,
           disp' = [disp EXCEPT ![d] = place],
           UNCHANGED <<state, outbox, mailed>>,
           faults' = faults + 1 \/ (faults' = faults /\ ~Holds(d))
    PROVE  MailInv'
  <1> USE DEF MailInv
  <1>1. place.pc \notin {"mailing", "hung"}
    BY DEF Idle, Waiting
  <1>2. ~Holds(d)' /\ \A e \in Dispatchers : Holds(e)' => e # d /\ disp'[e] = disp[e] /\ Holds(e)
    BY <1>1 DEF MailTypes, Holds
  <1>3. MailTypes'
    BY DEF MailTypes
  <1>4. RowsHeld' /\ RowsCovered' /\ MailedSoFar' /\ DispatchedMeansTold'
    BY <1>2 DEF RowsHeld, RowsCovered, MailedSoFar, DispatchedMeansTold
  <1>5. \A i \in DOMAIN outbox, party \in Parties : mailed[i][party] \in Nat
    BY DEF MailTypes
  <1>6. CASE faults' = faults + 1
    <2>1. ASSUME NEW i \in DOMAIN outbox, NEW party \in Parties
          PROVE  mailed[i][party] <= faults' /\ mailed[i][party] <= 1 + faults'
      <3>1. mailed[i][party] <= 1 + faults /\ mailed[i][party] \in Nat /\ faults \in Nat
        BY <1>5 DEF MailsCounted, MailTypes
      <3> QED
        BY <1>6, <3>1
    <2> QED
      BY <1>3, <1>4, <2>1 DEF MailsCounted
  <1>7. CASE faults' = faults /\ ~Holds(d)
    <2>1. \A e \in Dispatchers : Holds(e) => Holds(e)' /\ disp'[e] = disp[e]
      BY <1>7 DEF Holds, MailTypes
    <2>2. \A i, party : Past(i, party) => Past(i, party)'
      BY <2>1 DEF Past
    <2> QED
      BY <1>3, <1>4, <1>7, <2>2 DEF MailsCounted
  <1> QED
    BY <1>3, <1>4, <1>6, <1>7

\* A step that touches neither rows nor dispatchers, perhaps with a fault.
LEMMA ElsewhereKeepsInv ==
    ASSUME MailInv, UNCHANGED <<outbox, mailed, disp>>,
           state' \in [Bookings -> BookingState \cup {"NONE"}],
           faults' = faults \/ faults' = faults + 1
    PROVE  MailInv'
  <1> USE DEF MailInv
  <1>1. MailTypes'
    BY DEF MailTypes
  <1>2. RowsHeld' /\ RowsCovered' /\ MailedSoFar' /\ DispatchedMeansTold'
    BY DEF RowsHeld, RowsCovered, MailedSoFar, DispatchedMeansTold, Holds
  <1>3. \A i, party : Past(i, party)' <=> Past(i, party)
    BY DEF Past, Holds
  <1>4. \A i \in DOMAIN outbox, party \in Parties : mailed[i][party] \in Nat
    BY DEF MailTypes
  <1>5. MailsCounted'
    BY <1>3, <1>4 DEF MailsCounted, MailTypes
  <1> QED
    BY <1>1, <1>2, <1>5

\* A new row is nobody's, undispatched and unmailed.
LEMMA AnnouncingKeepsInv ==
    ASSUME MailInv, NEW b \in Bookings, NEW to \in BookingState,
           NEW event \in BookingEvent \cup {NoEvent},
           Concerned(event) \subseteq Members(MailsFor(to)),
           Announce(b, to, event), UNCHANGED <<disp, faults>>,
           state' \in [Bookings -> BookingState \cup {"NONE"}]
    PROVE  MailInv'
  <1> USE DEF MailInv
  <1> DEFINE n == Len(outbox) + 1
             r == [ booking |-> b, to |-> to, event |-> event,
                    dispatched |-> FALSE, attempts |-> 0 ]
  <1>1. r \in Row /\ NoMail \in [Parties -> Nat]
    BY DEF Row, NoMail
  <1>2. MailTypes'
    BY <1>1 DEF MailTypes, Announce
  <1>3. /\ DOMAIN outbox' = DOMAIN outbox \cup {n} /\ n \notin DOMAIN outbox
        /\ outbox'[n] = r /\ mailed'[n] = NoMail
        /\ \A i \in DOMAIN outbox : outbox'[i] = outbox[i] /\ mailed'[i] = mailed[i]
    BY DEF MailTypes, Announce
  <1>4. disp' = disp /\ \A d \in Dispatchers : Holds(d)' <=> Holds(d)
    BY DEF Holds
  <1>5. RowsHeld'
    <2>2. \A d \in Dispatchers : Holds(d)' => disp'[d].row \in DOMAIN outbox' /\ ~outbox'[disp'[d].row].dispatched
      BY <1>3, <1>4 DEF RowsHeld
    <2>3. \A d, e \in Dispatchers : Holds(d)' /\ Holds(e)' /\ disp'[d].row = disp'[e].row => d = e
      BY <1>4 DEF RowsHeld
    <2> QED
      BY <2>2, <2>3 DEF RowsHeld
  <1>6. RowsCovered'
    <2>1. outbox'[n].event = event /\ outbox'[n].to = to
      BY <1>3
    <2> HIDE DEF n, r
    <2> QED
      BY <1>3, <2>1 DEF RowsCovered
  <1>7. MailedSoFar'
    BY <1>3, <1>4 DEF MailedSoFar, RowsHeld
  <1>8. DispatchedMeansTold'
    BY <1>3 DEF DispatchedMeansTold
  <1>9. MailsCounted'
    <2>1. \A party \in Parties : mailed'[n][party] = 0
      BY <1>3 DEF NoMail
    <2>2. \A i \in DOMAIN outbox, party \in Parties : Past(i, party)' <=> Past(i, party)
      BY <1>3, <1>4 DEF Past
    <2>3. faults' = faults /\ faults \in Nat
      BY DEF MailTypes
    <2> SUFFICES ASSUME NEW i \in DOMAIN outbox', NEW party \in Parties
                 PROVE  /\ mailed'[i][party] <= 1 + faults
                        /\ ~Past(i, party)' => mailed'[i][party] <= faults
      BY <2>3 DEF MailsCounted
    <2>4. CASE i = n
      BY <2>1, <2>3, <2>4
    <2>5. CASE i \in DOMAIN outbox
      BY <1>3, <2>2, <2>5 DEF MailsCounted
    <2> QED
      BY <1>3, <2>4, <2>5
  <1> QED
    BY <1>2, <1>5, <1>6, <1>7, <1>8, <1>9

---------------------------------------------------------------------------
(* A dispatcher takes a row, mails, and marks it.                          *)

\* The row taken is nobody else's, for the others' are locked.
LEMMA ClaimKeepsInv ==
    ASSUME MailInv, NEW d \in Dispatchers, Claim(d)
    PROVE  MailInv'
  <1> USE DEF MailInv
  <1>1. CASE Claimable(d) = {} \/ disp[d].done = Limit
    BY <1>1, LettingGoKeepsInv DEF Claim, Holds
  <1>2. CASE ~(Claimable(d) = {} \/ disp[d].done = Limit)
    <2> DEFINE i == CHOOSE i \in Claimable(d) : \A j \in Claimable(d) : i <= j
    <2>1. Claimable(d) \subseteq DOMAIN outbox /\ DOMAIN outbox \subseteq Nat
      BY DEF Claimable, MailTypes
    <2>2. \E x \in Claimable(d) : \A y \in Claimable(d) : x <= y
      BY <1>2, <2>1, LeastExists
    <2>3. i \in Claimable(d)
      BY <2>2
    <2>4. i \in DOMAIN outbox /\ i \in Nat /\ ~outbox[i].dispatched /\ i \notin Locked(d)
      BY <2>1, <2>3 DEF Claimable
    <2>5. ~Holds(d) /\ disp[d] \in Waiting
      BY DEF Claim, Holds, MailTypes, Idle, Carrying
    <2> DEFINE place == [ pc |-> "mailing", done |-> disp[d].done, row |-> i,
                          left |-> MailsFor(outbox[i].to) ]
    <2>6. disp' = [disp EXCEPT ![d] = place] /\ UNCHANGED <<state, outbox, mailed, faults>>
      BY <1>2 DEF Claim
    <2> HIDE DEF i
    <2>7. place \in Carrying
      BY <2>4, <2>5, MailLists DEF Carrying, Waiting
    <2>8. /\ Holds(d)' /\ disp'[d] = place
          /\ \A e \in Dispatchers \ {d} : disp'[e] = disp[e] /\ (Holds(e)' <=> Holds(e))
      BY <2>6 DEF MailTypes, Holds
    <2>9. MailTypes'
      BY <2>6, <2>7 DEF MailTypes
    <2>10. RowsHeld'
      <3>1. \A e \in Dispatchers \ {d} : Holds(e) => disp[e].row # i
        BY <2>4 DEF Locked, Holds
      <3> QED
        BY <2>4, <2>6, <2>8, <3>1 DEF RowsHeld
    <2>11. MailedSoFar'
      BY <2>6, <2>8 DEF MailedSoFar
    <2>12. \A k, party : Past(k, party) => Past(k, party)'
      BY <2>5, <2>6, <2>8 DEF Past
    <2>13. RowsCovered' /\ DispatchedMeansTold' /\ MailsCounted'
      BY <2>6, <2>12 DEF RowsCovered, DispatchedMeansTold, MailsCounted
    <2> QED
      BY <2>9, <2>10, <2>11, <2>13
  <1> QED
    BY <1>1, <1>2

\* A mail goes to somebody the present handling has not mailed yet.
LEMMA MailKeepsInv ==
    ASSUME MailInv, NEW d \in Dispatchers, Mail(d)
    PROVE  MailInv'
  <1> USE DEF MailInv
  <1> DEFINE r == disp[d].row
             p == Head(disp[d].left)
             place == [disp[d] EXCEPT !.left = Tail(@)]
  <1>1. Holds(d) /\ disp[d] \in Carrying /\ r \in DOMAIN outbox /\ ~outbox[r].dispatched
    BY HoldersHold DEF Mail, Holds, RowsHeld
  <1>2. /\ p \in Parties /\ Tail(disp[d].left) \in Lefts /\ p \in Members(disp[d].left)
        /\ Members(Tail(disp[d].left)) = Members(disp[d].left) \ {p}
    BY <1>1, OneMailLess DEF Mail, Carrying
  <1>3. disp' = [disp EXCEPT ![d] = place] /\ UNCHANGED <<state, outbox, faults>>
    BY DEF Mail
  <1>4. /\ place \in Carrying /\ place.pc = disp[d].pc /\ place.row = r
        /\ place.left = Tail(disp[d].left)
    BY <1>1, <1>2 DEF Carrying
  <1>5. /\ disp'[d] = place
        /\ \A e \in Dispatchers \ {d} : disp'[e] = disp[e]
        /\ \A e \in Dispatchers : (Holds(e)' <=> Holds(e)) /\ (Holds(e) => disp'[e].row = disp[e].row)
    BY <1>3, <1>4 DEF MailTypes, Holds
  <1>6. DOMAIN mailed = DOMAIN outbox /\ \A k \in DOMAIN outbox : mailed[k] \in [Parties -> Nat]
    BY DEF MailTypes
  <1>7. mailed' = [mailed EXCEPT ![r] = [mailed[r] EXCEPT ![p] = @ + 1]]
    BY DEF Mail
  <1>8. MailTypes'
    <2>1. [mailed[r] EXCEPT ![p] = @ + 1] \in [Parties -> Nat]
      BY <1>1, <1>2, <1>6
    <2>2. mailed' \in Seq([Parties -> Nat]) /\ Len(mailed') = Len(mailed)
      BY <1>1, <1>6, <1>7, <2>1 DEF MailTypes
    <2> QED
      BY <1>3, <1>4, <2>2 DEF MailTypes
  <1>9. \A k \in DOMAIN outbox, q \in Parties :
          mailed'[k][q] = IF k = r /\ q = p THEN mailed[r][p] + 1 ELSE mailed[k][q]
    BY <1>1, <1>2, <1>6, <1>7
  <1>10. RowsHeld' /\ RowsCovered'
    BY <1>3, <1>5 DEF RowsHeld, RowsCovered
  <1>11. \A k \in DOMAIN outbox, q \in Parties : mailed[k][q] > 0 => mailed'[k][q] > 0
    BY <1>6, <1>9
  <1>12. MailedSoFar'
    <2> SUFFICES ASSUME NEW e \in Dispatchers, Holds(e),
                        NEW q \in Members(MailsFor(outbox[disp[e].row].to)),
                        q \notin Members(disp'[e].left)
                 PROVE  mailed'[disp[e].row][q] > 0
      BY <1>3, <1>5 DEF MailedSoFar
    <2>1. q \in Parties /\ disp[e].row \in DOMAIN outbox
      BY MailLists DEF RowsHeld
    <2>2. CASE q \notin Members(disp[e].left)
      BY <1>11, <2>1, <2>2 DEF MailedSoFar
    <2>3. CASE q \in Members(disp[e].left)
      <3>1. e = d /\ q = p
        BY <1>2, <1>4, <1>5, <2>3
      <3> QED
        BY <1>1, <1>6, <1>9, <2>1, <3>1
    <2> QED
      BY <2>2, <2>3
  <1>13. DispatchedMeansTold'
    <2>1. \A k \in DOMAIN outbox : Concerned(outbox[k].event) \subseteq Parties
      BY MailLists DEF RowsCovered
    <2> QED
      BY <1>3, <1>11, <2>1 DEF DispatchedMeansTold
  <1>14. MailsCounted'
    <2>1. ~Past(r, p)
      BY <1>1, <1>2 DEF Past, RowsHeld
    <2>3. \A k, q : Past(k, q) => Past(k, q)'
      BY <1>2, <1>3, <1>4, <1>5 DEF Past
    <2>4. faults \in Nat
      BY DEF MailTypes
    <2>5. mailed[r][p] <= faults
      BY <1>1, <1>2, <2>1 DEF MailsCounted
    <2> SUFFICES ASSUME NEW k \in DOMAIN outbox, NEW q \in Parties
                 PROVE  /\ mailed'[k][q] <= 1 + faults
                        /\ ~Past(k, q)' => mailed'[k][q] <= faults
      BY <1>3 DEF MailsCounted
    <2>6. mailed[k][q] <= 1 + faults /\ (~Past(k, q)' => mailed[k][q] <= faults)
      BY <2>3 DEF MailsCounted
    <2>7. mailed[k][q] \in Nat
      BY <1>6
    <2>8. CASE k = r /\ q = p
      <3>1. mailed'[k][q] = mailed[r][p] + 1 /\ mailed[r][p] \in Nat
        BY <1>9, <2>7, <2>8
      <3>2. mailed'[k][q] <= 1 + faults
        BY <2>4, <2>5, <3>1
      <3>3. Past(k, q)'
        BY <1>1, <1>2, <1>4, <1>5, <2>8 DEF Past
      <3> QED
        BY <3>2, <3>3
    <2>9. CASE ~(k = r /\ q = p)
      <3>1. mailed'[k][q] = mailed[k][q]
        BY <1>9, <2>9
      <3> QED
        BY <2>6, <3>1
    <2> QED
      BY <2>8, <2>9
  <1> QED
    BY <1>8, <1>10, <1>12, <1>13, <1>14

\* The row is marked once nobody is left on the list.
LEMMA MarkKeepsInv ==
    ASSUME MailInv, NEW d \in Dispatchers, MarkDispatched(d)
    PROVE  MailInv'
  <1> USE DEF MailInv
  <1> DEFINE r == disp[d].row
  <1>1. Holds(d) /\ disp[d] \in Carrying /\ disp[d].done \in Nat /\ r \in DOMAIN outbox
    BY HoldersHold DEF MarkDispatched, Holds, RowsHeld
  <1>2. /\ outbox' = [outbox EXCEPT ![r] = [outbox[r] EXCEPT !.dispatched = TRUE]]
        /\ disp' = [disp EXCEPT ![d] = Handled(d)]
        /\ UNCHANGED <<state, mailed, faults>>
        /\ Members(disp[d].left) = {}
    BY MailLists DEF MarkDispatched
  <1>3. outbox[r] \in Row
    BY <1>1 DEF MailTypes
  <1>4. Handled(d) \in Waiting /\ Handled(d).pc = "claiming"
    BY <1>1 DEF Handled, Waiting
  <1>5. ~Holds(d)' /\ \A e \in Dispatchers \ {d} : disp'[e] = disp[e] /\ (Holds(e)' <=> Holds(e))
    BY <1>2, <1>4 DEF MailTypes, Holds
  <1>6. /\ DOMAIN outbox' = DOMAIN outbox /\ outbox'[r].dispatched
        /\ \A k \in DOMAIN outbox : outbox'[k].event = outbox[k].event /\ outbox'[k].to = outbox[k].to
        /\ \A k \in DOMAIN outbox \ {r} : outbox'[k] = outbox[k]
    BY <1>1, <1>2, <1>3 DEF MailTypes, Row
  <1>7. MailTypes'
    <2>1. [outbox[r] EXCEPT !.dispatched = TRUE] \in Row
      BY <1>3 DEF Row
    <2>2. outbox' \in Seq(Row) /\ Len(outbox') = Len(outbox)
      BY <1>1, <1>2, <2>1 DEF MailTypes
    <2> QED
      BY <1>2, <1>4, <2>2 DEF MailTypes
  <1>8. RowsHeld'
    BY <1>1, <1>5, <1>6 DEF RowsHeld
  <1>9. RowsCovered'
    BY <1>6 DEF RowsCovered
  <1>10. MailedSoFar'
    BY <1>2, <1>5, <1>6 DEF MailedSoFar, RowsHeld
  <1>11. DispatchedMeansTold'
    <2>1. \A party \in Concerned(outbox[r].event) : mailed[r][party] > 0
      BY <1>1, <1>2 DEF RowsCovered, MailedSoFar
    <2> QED
      BY <1>2, <1>6, <2>1 DEF DispatchedMeansTold
  <1>12. MailsCounted'
    <2>1. \A k \in DOMAIN outbox, q \in Parties : Past(k, q) => Past(k, q)'
      BY <1>5, <1>6 DEF Past
    <2> QED
      BY <1>2, <1>6, <2>1 DEF MailsCounted
  <1> QED
    BY <1>7, <1>8, <1>9, <1>10, <1>11, <1>12

---------------------------------------------------------------------------
(* Faults.                                                                 *)

\* A refused mail may have been sent; the fault pays for it.
LEMMA FailureKeepsInv ==
    ASSUME MailInv, NEW d \in Dispatchers, MailFails(d)
    PROVE  MailInv'
  <1> USE DEF MailInv
  <1> DEFINE r == disp[d].row
             p == Head(disp[d].left)
  <1>1. /\ Holds(d) /\ disp[d] \in Carrying /\ disp[d].done \in Nat
        /\ r \in DOMAIN outbox /\ p \in Parties
    BY HoldersHold, OneMailLess DEF MailFails, Holds, RowsHeld
  <1>2. /\ outbox' = [outbox EXCEPT ![r] = [outbox[r] EXCEPT !.attempts = @ + 1]]
        /\ disp' = [disp EXCEPT ![d] = Handled(d)]
        /\ state' = state /\ faults' = faults + 1
        /\ mailed' = mailed \/ mailed' = [mailed EXCEPT ![r] = [mailed[r] EXCEPT ![p] = @ + 1]]
    BY DEF MailFails, Strike
  <1>3. outbox[r] \in Row
    BY <1>1 DEF MailTypes
  <1>4. Handled(d) \in Waiting /\ Handled(d).pc = "claiming"
    BY <1>1 DEF Handled, Waiting
  <1>5. ~Holds(d)' /\ \A e \in Dispatchers \ {d} : disp'[e] = disp[e] /\ (Holds(e)' <=> Holds(e))
    BY <1>2, <1>4 DEF MailTypes, Holds
  <1>6. /\ DOMAIN outbox' = DOMAIN outbox
        /\ \A k \in DOMAIN outbox : /\ outbox'[k].event = outbox[k].event
                                    /\ outbox'[k].to = outbox[k].to
                                    /\ outbox'[k].dispatched = outbox[k].dispatched
    BY <1>1, <1>2, <1>3 DEF MailTypes, Row
  <1>7. DOMAIN mailed = DOMAIN outbox /\ \A k \in DOMAIN outbox : mailed[k] \in [Parties -> Nat]
    BY DEF MailTypes
  <1>8. MailTypes'
    <2>1. [outbox[r] EXCEPT !.attempts = @ + 1] \in Row
      BY <1>3 DEF Row
    <2>2. outbox' \in Seq(Row) /\ Len(outbox') = Len(outbox)
      BY <1>1, <1>2, <2>1 DEF MailTypes
    <2>3. [mailed[r] EXCEPT ![p] = @ + 1] \in [Parties -> Nat]
      BY <1>1, <1>7
    <2>4. mailed' \in Seq([Parties -> Nat]) /\ Len(mailed') = Len(mailed)
      <3>1. CASE mailed' = mailed
        BY <3>1 DEF MailTypes
      <3>2. CASE mailed' = [mailed EXCEPT ![r] = [mailed[r] EXCEPT ![p] = @ + 1]]
        BY <1>1, <1>7, <2>3, <3>2 DEF MailTypes
      <3> QED
        BY <1>2, <3>1, <3>2
    <2> QED
      BY <1>2, <1>4, <2>2, <2>4 DEF MailTypes
  <1>9. \A k \in DOMAIN outbox, q \in Parties :
          mailed'[k][q] \in Nat /\ mailed[k][q] <= mailed'[k][q] /\ mailed'[k][q] <= mailed[k][q] + 1
    BY <1>1, <1>2, <1>7
  <1>10. \A k \in DOMAIN outbox, q \in Parties : k # r \/ q # p => mailed'[k][q] = mailed[k][q]
    BY <1>1, <1>2, <1>7
  <1>11. RowsHeld' /\ RowsCovered'
    BY <1>5, <1>6 DEF RowsHeld, RowsCovered
  <1>12. \A k \in DOMAIN outbox : Concerned(outbox[k].event) \subseteq Parties
    BY MailLists DEF RowsCovered
  <1>13. MailedSoFar'
    <2> SUFFICES ASSUME NEW e \in Dispatchers \ {d}, Holds(e),
                        NEW q \in Members(MailsFor(outbox[disp[e].row].to)) \ Members(disp[e].left)
                 PROVE  mailed'[disp[e].row][q] > 0
      BY <1>5, <1>6 DEF MailedSoFar, RowsHeld
    <2>1. q \in Parties /\ disp[e].row \in DOMAIN outbox /\ mailed[disp[e].row][q] > 0
      BY MailLists DEF RowsHeld, MailedSoFar
    <2> QED
      BY <1>7, <1>9, <2>1
  <1>14. DispatchedMeansTold'
    <2> SUFFICES ASSUME NEW k \in DOMAIN outbox, outbox[k].dispatched,
                        NEW q \in Concerned(outbox[k].event)
                 PROVE  mailed'[k][q] > 0
      BY <1>6 DEF DispatchedMeansTold
    <2>1. q \in Parties /\ mailed[k][q] > 0
      BY <1>12 DEF DispatchedMeansTold
    <2> QED
      BY <1>7, <1>9, <2>1
  <1>15. MailsCounted'
    <2> SUFFICES ASSUME NEW k \in DOMAIN outbox, NEW q \in Parties
                 PROVE  /\ mailed'[k][q] <= 1 + faults'
                        /\ ~Past(k, q)' => mailed'[k][q] <= faults'
      BY <1>6 DEF MailsCounted
    <2>1. mailed[k][q] <= 1 + faults /\ (~Past(k, q) => mailed[k][q] <= faults)
      BY DEF MailsCounted
    <2>4. faults \in Nat /\ faults' = faults + 1 /\ mailed[k][q] \in Nat
      BY <1>2, <1>7 DEF MailTypes
    <2>2. CASE k = r /\ q = p
      <3>1. p \in Members(disp[d].left) /\ ~Past(r, p)
        BY <1>1, OneMailLess, HoldersHold DEF MailFails, Past, RowsHeld
      <3>2. mailed[k][q] <= faults
        BY <2>1, <2>2, <3>1
      <3>3. mailed'[k][q] \in Nat /\ mailed'[k][q] <= mailed[k][q] + 1
        BY <1>9
      <3> QED
        BY <2>4, <3>2, <3>3
    <2>3. CASE k # r \/ q # p
      <3>1. mailed'[k][q] = mailed[k][q]
        BY <1>10, <2>3
      <3> QED
        BY <2>1, <2>4, <3>1
    <2> QED
      BY <2>2, <2>3
  <1> QED
    BY <1>8, <1>11, <1>13, <1>14, <1>15

\* A dispatcher that hangs keeps its row, and what it has mailed.
LEMMA HangingKeepsInv ==
    ASSUME MailInv, NEW d \in Dispatchers, MailHangs(d)
    PROVE  MailInv'
  <1> USE DEF MailInv
  <1> DEFINE place == [disp[d] EXCEPT !.pc = "hung"]
  <1>1. Holds(d) /\ disp[d] \in Carrying
    BY HoldersHold DEF MailHangs, Holds
  <1>2. /\ disp' = [disp EXCEPT ![d] = place] /\ faults' = faults + 1
        /\ UNCHANGED <<state, outbox, mailed>>
    BY DEF MailHangs, Strike
  <1>3. place \in Carrying /\ place.row = disp[d].row /\ place.left = disp[d].left /\ place.pc = "hung"
    BY <1>1 DEF Carrying
  <1>4. \A e \in Dispatchers :
          /\ Holds(e)' <=> Holds(e)
          /\ Holds(e) => disp'[e].row = disp[e].row /\ disp'[e].left = disp[e].left
    BY <1>1, <1>2, <1>3 DEF MailTypes, Holds
  <1>5. MailTypes'
    BY <1>2, <1>3 DEF MailTypes
  <1>6. RowsHeld' /\ RowsCovered' /\ MailedSoFar' /\ DispatchedMeansTold'
    BY <1>2, <1>4 DEF RowsHeld, RowsCovered, MailedSoFar, DispatchedMeansTold
  <1>7. \A k, q : Past(k, q)' <=> Past(k, q)
    BY <1>2, <1>4 DEF Past
  <1>8. \A i \in DOMAIN outbox, q \in Parties : mailed[i][q] \in Nat
    BY DEF MailTypes
  <1>9. MailsCounted'
    BY <1>2, <1>7, <1>8 DEF MailsCounted, MailTypes
  <1> QED
    BY <1>5, <1>6, <1>9

---------------------------------------------------------------------------
(* The theorems.                                                           *)

\* Every step keeps the invariant.
LEMMA NextInv == MailInv /\ [Next]_vars => MailInv'
  <1> SUFFICES ASSUME MailInv, [Next]_vars PROVE MailInv'
    OBVIOUS
  <1>1. ASSUME NEW b \in Bookings, Create(b) PROVE MailInv'
    <2>1. "PENDING" \in BookingState /\ state' \in [Bookings -> BookingState \cup {"NONE"}]
      BY <1>1 DEF Create, MailInv, MailTypes, BookingState, Holding
    <2> QED
      BY <1>1, <2>1, MailLists, AnnouncingKeepsInv DEF Create
  <1>2. ASSUME NEW b \in Bookings, NEW event \in BookingEvent, Transition(b, event) PROVE MailInv'
    <2>1. NextState(event) \in BookingState
      BY DEF NextState, BookingState, Holding, Terminal
    <2>2. state' \in [Bookings -> BookingState \cup {"NONE"}]
      BY <1>2, <2>1 DEF Transition, MailInv, MailTypes
    <2> QED
      BY <1>2, <2>1, <2>2, MailLists, AnnouncingKeepsInv DEF Transition
  <1>3. ASSUME NEW b \in Bookings, ReminderDue(b) PROVE MailInv'
    BY <1>3, ElsewhereKeepsInv DEF ReminderDue, MailInv, MailTypes
  <1>4. ASSUME NEW d \in Dispatchers, Begin(d) PROVE MailInv'
    <2>1. [pc |-> "claiming", done |-> 0] \in Waiting /\ ~Holds(d)
      BY <1>4 DEF Begin, Waiting, Holds, Idle
    <2> QED
      BY <1>4, <2>1, LettingGoKeepsInv DEF Begin
  <1>5. ASSUME NEW d \in Dispatchers, TickFails(d) \/ Restart(d) PROVE MailInv'
    BY <1>5, LettingGoKeepsInv DEF TickFails, Restart, Strike
  <1>6. ASSUME NEW q \in Pollers, PollerStep(q) \/ ReminderFails(q) PROVE MailInv'
    <2>1. UNCHANGED <<state, outbox, mailed, disp>> /\ faults' \in {faults, faults + 1}
      BY <1>6 DEF PollerStep, BeginReminders, ClaimReminder, RemindersClaimed, Remind,
                  ReminderSent, RemindersOver, ReminderFails, Strike
    <2> QED
      BY <2>1, ElsewhereKeepsInv DEF MailInv, MailTypes
  <1>7. CASE UNCHANGED vars
    BY <1>7, ElsewhereKeepsInv DEF vars, MailInv, MailTypes
  <1> QED
    BY <1>1, <1>2, <1>3, <1>4, <1>5, <1>6, <1>7, ClaimKeepsInv, MailKeepsInv, MarkKeepsInv,
       FailureKeepsInv, HangingKeepsInv DEF Next, DispatcherStep

\* The inductive invariant of the outbox (notification-dispatcher.ts).
THEOREM MailInvariant == Spec => []MailInv
  BY InitInv, NextInv, PTL DEF Spec

\* No row is marked before everybody the state machine names has been mailed.
THEOREM MarkedOnlyWhenTold == Spec => []DispatchedMeansTold
  <1>1. MailInv => DispatchedMeansTold
    BY DEF MailInv
  <1> QED
    BY <1>1, MailInvariant, PTL

\* Nobody is mailed twice about one transition without a fault in between.
THEOREM NobodyIsMailedTwice == Spec => []RepeatedOnlyAfterFailure
  <1>1. MailInv => RepeatedOnlyAfterFailure
    BY DEF MailInv, MailsCounted, RepeatedOnlyAfterFailure
  <1> QED
    BY <1>1, MailInvariant, PTL
=============================================================================
