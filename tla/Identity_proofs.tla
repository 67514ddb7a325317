--------------------------- MODULE Identity_proofs ---------------------------
(***************************************************************************)
(* What accounts, sessions and resets keep as long as no reset runs at the *)
(* same time as another call: what a client has been answered is in the    *)
(* database, and a session goes with the password of its account.  The     *)
(* invariant behind both says where the transaction of a reset is: its     *)
(* statements go through pool.query one by one, and they meet on one       *)
(* connection only because nobody else takes the one used last.            *)
(***************************************************************************)
EXTENDS Identity, TLAPS

\* Where a call of each kind may be.
StepsOf(kind) ==
  CASE kind = "register" -> {"rate", "find", "insert", "session"}
    [] kind = "signIn" -> {"rate", "find", "session"}
    [] kind = "requestReset" -> {"rate", "find", "token"}
    [] kind = "confirmReset" ->
         {"select", "begin", "password", "use", "purge", "commit", "rollback"}
    [] kind = "signOut" -> {"endSession"}
    [] kind = "addAddress" -> {"whoami", "addAddress"}
    [] OTHER -> {"whoami", "deleteAddress"}

\* Between BEGIN and COMMIT.
Inside == {"password", "use", "purge", "commit"}

\* An account's row has a password and nothing else.
AccountsShaped(set) == \A r \in set : r.table = "account" => r = Account(r.email, r.pw)

\* A call under way: only a registration has written before its last statement,
\* a session is opened with the password the account has, and what a reset has
\* changed so far is about its own account.
CallOK(c) ==
  /\ c = [ kind |-> c.kind, email |-> c.email, target |-> c.target, n |-> c.n,
           pc |-> c.pc, conn |-> c.conn, pw |-> c.pw, made |-> c.made,
           ended |-> c.ended, failed |-> c.failed ]
  /\ c.kind \in Kinds /\ c.pc \in StepsOf(c.kind)
  /\ c.conn \in Conns \cup {NoConn}
  /\ c.failed = (c.pc = "rollback")
  /\ c.pc \notin Inside \cup {"rollback"} => c.ended = {}
  /\ c.pc \notin Inside \cup {"rollback", "session"} => c.made = {}
  /\ c.pc = "session" => /\ c.made \subseteq Of(rows, "account")
                         /\ Account(c.email, c.pw) \in rows
  /\ c.pc \in Inside =>
       /\ \A r \in c.made : r.table \in {"account", "token"} /\ r.email = c.email
       /\ \A r \in c.ended : r.table # "rate" /\ r.email = c.email
       /\ AccountsShaped(c.made)
  /\ c.pc = "commit" => For((rows \ c.ended) \cup c.made, "session", c.email) = {}

\* What is answered and what is stored.
RowsOK ==
  /\ told \subseteq rows
  /\ \A r \in told : r.table # "rate"
  /\ AccountsShaped(rows)
  /\ \A r \in Of(rows, "session") : Account(r.email, r.pw) \in rows

\* The transaction of the reset c is open on k, and no other is anywhere.
OpenOn(c, k) ==
  /\ c.conn = k \/ (c.conn = NoConn /\ idle # << >> /\ k = idle[Len(idle)])
  /\ conn = [o \in Conns |->
               IF o = k THEN [open |-> TRUE, minus |-> c.ended, plus |-> c.made] ELSE Quiet]

AllQuiet == conn = [k \in Conns |-> Quiet]

Carried ==
  /\ \A s \in Slots : Active(s) /\ call[s].pc \in Inside =>
       \E k \in Conns : OpenOn(call[s], k)
  /\ (\A s \in Slots : Active(s) => call[s].pc \notin Inside) => AllQuiet

\* A reset is the only call.
Alone == \A s, t \in Slots : Resetting(s) /\ Active(t) => s = t

CallsOK == \A s \in Slots : Active(s) => CallOK(call[s])

CalmInv ==
  /\ call = [s \in Slots |-> call[s]] /\ idle \in Seq(Conns)
  /\ CallsOK
  /\ RowsOK /\ Carried /\ Alone

---------------------------------------------------------------------------
\* A transaction belongs to a reset.
LEMMA InsideIsReset ==
  ASSUME NEW kind, NEW pc \in Inside, pc \in StepsOf(kind)
  PROVE  kind = "confirmReset"
BY DEF Inside, StepsOf

\* A call stays as it should be while the accounts stay, and while nothing is
\* added behind a reset about to commit.
LEMMA CallStaysOK ==
  ASSUME NEW c, CallOK(c), Of(rows, "account") \subseteq rows',
         c.pc = "commit" => rows' \subseteq rows
  PROVE  CallOK(c)'
<1>1. c.pc = "session" => /\ c.made \subseteq Of(rows', "account")
                          /\ Account(c.email, c.pw) \in rows'
  <2>1. Account(c.email, c.pw).table = "account"
    BY DEF Account
  <2> QED
    BY <2>1 DEF CallOK, Of
<1>2. c.pc = "commit" => For((rows' \ c.ended) \cup c.made, "session", c.email) = {}
  BY DEF CallOK, For, Of
<1> QED
  BY <1>1, <1>2 DEF CallOK

\* In the calm, whoever is active beside s is no reset, nor is s then.
LEMMA CalmCases ==
  ASSUME CalmInv, NEW s \in Slots, Active(s)
  PROVE  \/ /\ call[s].pc \in Inside
            /\ \A t \in Slots : Active(t) => t = s
            /\ \E k \in Conns : OpenOn(call[s], k)
         \/ /\ call[s].pc \notin Inside
            /\ AllQuiet
            /\ \A t \in Slots : Active(t) => call[t].pc \notin Inside
<1>1. ASSUME NEW t \in Slots, Active(t), call[t].pc \in Inside PROVE t = s
  <2>1. call[t].kind = "confirmReset"
    BY <1>1, InsideIsReset DEF CalmInv, CallsOK, CallOK
  <2> QED
    BY <1>1, <2>1 DEF CalmInv, CallsOK, Alone, Resetting
<1>2. CASE call[s].pc \in Inside
  <2>1. Resetting(s)
    BY <1>2, InsideIsReset DEF CalmInv, CallsOK, CallOK, Resetting
  <2> QED
    BY <1>2, <2>1 DEF CalmInv, CallsOK, Alone, Carried
<1>3. CASE call[s].pc \notin Inside
  BY <1>1, <1>3 DEF CalmInv, CallsOK, Carried
<1> QED
  BY <1>2, <1>3

\* In the quiet every connection sees what is committed, and locks nothing.
LEMMA QuietViews ==
  ASSUME AllQuiet, NEW k \in Conns
  PROVE  View(k) = rows /\ conn[k] = Quiet
BY DEF AllQuiet, View, Quiet

\* Only steps that know the calm last keep it.
LEMMA StartCalm ==
  ASSUME CalmInv, NEW s \in Slots, NEW kind \in Kinds, NEW email, NEW target,
         Start(s, kind, email, target), calm'
  PROVE  CalmInv'
<1>1. PICK c : c = [ kind |-> kind, email |-> email, target |-> target, n |-> calls + 1,
                     pc |-> First(kind), conn |-> NoConn, pw |-> 0,
                     made |-> {}, ended |-> {}, failed |-> FALSE ]
  OBVIOUS
<1>2. /\ call' = [call EXCEPT ![s] = c] /\ call = [t \in Slots |-> call[t]]
      /\ UNCHANGED <<rows, conn, idle, told>>
      /\ ~Active(s)
      /\ ~ \E t \in Slots \ {s} : Active(t) /\ (Resetting(t) \/ kind = "confirmReset")
  BY <1>1 DEF Start, CalmInv, CallsOK
<1>3. /\ call'[s] = c /\ \A t \in Slots \ {s} : call'[t] = call[t]
      /\ call' = [t \in Slots |-> call'[t]]
  BY <1>2
<1>4. /\ First(kind) \in StepsOf(kind)
      /\ First(kind) \notin Inside \cup {"rollback", "session", "over"}
  BY DEF First, StepsOf, Inside, Kinds
<1>5. CallOK(c)
  BY <1>1, <1>4 DEF CallOK, Inside
<1>6. \A t \in Slots : Active(t)' => t = s \/ (t # s /\ Active(t))
  BY <1>2, <1>3 DEF Active
<1>7. ASSUME NEW t \in Slots, Active(t)' PROVE CallOK(call[t])'
  <2>1. CallOK(call'[t])
    BY <1>3, <1>5, <1>6, <1>7 DEF CalmInv, CallsOK
  <2> QED
    BY <1>2, <2>1 DEF CallOK
<1>8. ASSUME NEW t \in Slots, Active(t)' PROVE call'[t].pc \notin Inside
  <2>1. CASE t = s
    BY <1>1, <1>3, <1>4, <2>1
  <2>2. CASE t # s
    <3>1. Active(t) /\ call'[t] = call[t]
      BY <1>3, <1>6, <1>8, <2>2
    <3>2. call[t].kind # "confirmReset" /\ CallOK(call[t])
      BY <1>2, <2>2, <3>1 DEF Resetting, CalmInv, CallsOK
    <3> QED
      BY <3>1, <3>2, InsideIsReset DEF CallOK
  <2> QED
    BY <2>1, <2>2
<1>9. AllQuiet
  <2>1. ASSUME NEW t \in Slots, Active(t) PROVE call[t].pc \notin Inside
    <3>1. t # s
      BY <1>2, <2>1
    <3>2. Active(t)'
      BY <1>3, <2>1, <3>1 DEF Active
    <3> QED
      BY <1>3, <1>8, <3>1, <3>2
  <2> QED
    BY <2>1 DEF CalmInv, CallsOK, Carried
<1>10. Carried'
  BY <1>2, <1>8, <1>9 DEF Carried, AllQuiet
<1>11. Alone'
  <2> SUFFICES ASSUME NEW t \in Slots, NEW u \in Slots, Resetting(t)', Active(u)'
               PROVE  t = u
    BY DEF Alone
  <2>1. CASE t # s /\ u # s
    <3>1. Resetting(t) /\ Active(u)
      BY <1>3, <2>1 DEF Resetting, Active
    <3> QED
      BY <3>1 DEF CalmInv, CallsOK, Alone
  <2>2. CASE t = s /\ u # s
    <3>1. kind = "confirmReset" /\ Active(u)
      BY <1>1, <1>3, <2>2 DEF Resetting, Active
    <3> QED
      BY <1>2, <2>2, <3>1
  <2>3. CASE t # s /\ u = s
    <3>1. Resetting(t)
      BY <1>3, <2>3 DEF Resetting, Active
    <3> QED
      BY <1>2, <2>3, <3>1 DEF Resetting
  <2> QED
    BY <2>1, <2>2, <2>3
<1>12. RowsOK'
  BY <1>2 DEF CalmInv, CallsOK, RowsOK
<1> QED
  BY <1>2, <1>3, <1>7, <1>10, <1>11, <1>12 DEF CalmInv, CallsOK

\* What is left to show when s goes on as c and the rows keep their accounts.
LEMMA GoesOn ==
  ASSUME CalmInv, NEW s \in Slots, Active(s), NEW c,
         call' = [call EXCEPT ![s] = c],
         c = NoCall \/ (CallOK(c)' /\ c.kind = call[s].kind),
         Of(rows, "account") \subseteq rows' ,
         \A t \in Slots \ {s} : Active(t) /\ call[t].pc = "commit" => rows' \subseteq rows
  PROVE  /\ call' = [t \in Slots |-> call'[t]]
         /\ CallsOK'
         /\ Alone'
<1>1. /\ call'[s] = c /\ \A t \in Slots \ {s} : call'[t] = call[t]
      /\ call' = [t \in Slots |-> call'[t]]
  BY DEF CalmInv, CallsOK
<1>2. Active(s)' => CallOK(c)' /\ c.kind = call[s].kind
  BY <1>1 DEF Active, NoCall
<1>3. ASSUME NEW t \in Slots, t # s, Active(t)' PROVE CallOK(call[t])'
  <2>1. PICK d : d = call[t]
    OBVIOUS
  <2>2. Active(t) /\ CallOK(d)
    BY <1>1, <1>3, <2>1 DEF Active, CalmInv, CallsOK
  <2>3. CallOK(d)'
    BY <1>3, <2>1, <2>2, CallStaysOK
  <2>4. call'[t] = d
    BY <1>1, <1>3, <2>1
  <2> QED
    BY <2>3, <2>4 DEF CallOK
<1>4. ASSUME NEW t \in Slots, Active(t)' PROVE CallOK(call[t])'
  <2>1. CASE t = s
    <3>1. CallOK(c)' /\ call'[t] = c
      BY <1>1, <1>2, <1>4, <2>1
    <3> QED
      BY <3>1 DEF CallOK
  <2> QED
    BY <1>3, <1>4, <2>1
<1>5. Alone'
  <2> SUFFICES ASSUME NEW t \in Slots, NEW u \in Slots, Resetting(t)', Active(u)'
               PROVE  t = u
    BY DEF Alone
  <2>1. ASSUME NEW v \in Slots, Active(v)'
        PROVE  Active(v) /\ call'[v].kind = call[v].kind
    BY <1>1, <1>2, <2>1 DEF Active
  <2>2. Resetting(t) /\ Active(u)
    BY <2>1 DEF Resetting
  <2> QED
    BY <2>2 DEF CalmInv, CallsOK, Alone
<1> QED
  BY <1>1, <1>4, <1>5 DEF CallsOK

\* A statement of a reset inside its transaction takes the connection the
\* transaction is open on.
LEMMA IssueCalm ==
  ASSUME CalmInv, NEW s \in Slots, NEW k \in Conns, Issue(s, k)
  PROVE  CalmInv'
<1>1. PICK c : c = call[s]
  OBVIOUS
<1>2. /\ Active(s) /\ c.conn = NoConn /\ Takes(k) /\ idle' = Popped
      /\ call' = [call EXCEPT ![s].conn = k]
      /\ UNCHANGED <<rows, conn, told>>
      /\ CallOK(c) /\ idle \in Seq(Conns)
  BY <1>1 DEF Issue, CalmInv, CallsOK
<1>3. PICK d : d = [c EXCEPT !.conn = k]
  OBVIOUS
<1>4. /\ call' = [call EXCEPT ![s] = d] /\ CallOK(d)
      /\ d.conn = k /\ d.pc = c.pc /\ d.kind = c.kind
      /\ d.made = c.made /\ d.ended = c.ended
  BY <1>1, <1>2, <1>3 DEF CallOK
<1>5. CallOK(d)'
  BY <1>2, <1>4 DEF CallOK
<1>6. call' = [t \in Slots |-> call'[t]] /\ CallsOK' /\ Alone'
  <2>1. Of(rows, "account") \subseteq rows' /\ rows' \subseteq rows
    BY <1>2 DEF Of
  <2> QED
    BY <1>1, <1>2, <1>4, <1>5, <2>1, GoesOn
<1>7. idle' \in Seq(Conns)
  BY <1>2 DEF Popped
<1>8. /\ call'[s] = d /\ \A t \in Slots \ {s} : call'[t] = call[t]
      /\ \A t \in Slots : Active(t)' = Active(t)
  BY <1>1, <1>4 DEF CalmInv, Active
<1>9. Carried'
  <2>1. CASE c.pc \in Inside
    <3>1. (\A t \in Slots : Active(t) => t = s) /\ \E o \in Conns : OpenOn(c, o)
      BY <1>1, <1>2, <2>1, CalmCases
    <3>2. OpenOn(c, k)
      BY <1>2, <3>1, NoneIsNoConnection DEF OpenOn, Takes
    <3>3. OpenOn(d, k)'
      BY <1>2, <1>4, <3>2 DEF OpenOn
    <3>4. OpenOn(call[s], k)'
      BY <1>8, <3>3 DEF OpenOn
    <3> QED
      BY <1>4, <1>8, <1>2, <2>1, <3>1, <3>4 DEF Carried
  <2>2. CASE c.pc \notin Inside
    <3>1. AllQuiet /\ \A t \in Slots : Active(t) => call[t].pc \notin Inside
      BY <1>1, <1>2, <2>2, CalmCases
    <3>2. \A t \in Slots : Active(t)' => call'[t].pc \notin Inside
      BY <1>4, <1>8, <2>2, <3>1
    <3> QED
      BY <1>2, <3>1, <3>2 DEF Carried, AllQuiet
  <2> QED
    BY <2>1, <2>2
<1> QED
  BY <1>2, <1>6, <1>7, <1>9 DEF CalmInv, RowsOK

\* A refused statement takes the transaction of its connection with it.
LEMMA RefusedCalm ==
  ASSUME CalmInv, NEW s \in Slots, HasConn(s), Refused(s)
  PROVE  CalmInv'
<1>1. PICK c : c = call[s]
  OBVIOUS
<1>2. PICK d : d = IF AfterError(c.pc) = "over" THEN NoCall
                   ELSE [c EXCEPT !.pc = AfterError(c.pc), !.conn = NoConn, !.failed = TRUE]
  OBVIOUS
<1>3. /\ Active(s) /\ c.conn \in Conns /\ CallOK(c)
      /\ conn' = [conn EXCEPT ![c.conn] = Quiet]
      /\ call' = [call EXCEPT ![s] = d]
      /\ UNCHANGED <<rows, idle, told>>
  BY <1>1, <1>2 DEF Refused, HasConn, CalmInv, CallsOK, CallOK
<1>4. d = NoCall \/ (CallOK(d) /\ d.kind = c.kind /\ d.pc = "rollback")
  <2>1. CASE AfterError(c.pc) = "over"
    BY <1>2, <2>1
  <2>2. CASE AfterError(c.pc) # "over"
    <3>1. AfterError(c.pc) = "rollback" /\ c.pc \in Inside
      BY <2>2 DEF AfterError, Inside
    <3>2. c.kind = "confirmReset"
      BY <1>3, <3>1, InsideIsReset DEF CallOK
    <3>3. d = [ kind |-> c.kind, email |-> c.email, target |-> c.target, n |-> c.n,
                pc |-> "rollback", conn |-> NoConn, pw |-> c.pw, made |-> c.made,
                ended |-> c.ended, failed |-> TRUE ]
      BY <1>2, <1>3, <2>2, <3>1 DEF CallOK
    <3> QED
      BY <1>3, <3>2, <3>3 DEF CallOK, StepsOf, Inside
  <2> QED
    BY <2>1, <2>2
<1>5. call' = [t \in Slots |-> call'[t]] /\ CallsOK' /\ Alone'
  <2>1. Of(rows, "account") \subseteq rows' /\ rows' \subseteq rows
    BY <1>3 DEF Of
  <2>2. d = NoCall \/ (CallOK(d)' /\ d.kind = call[s].kind)
    BY <1>1, <1>3, <1>4 DEF CallOK
  <2> QED
    BY <1>3, <2>1, <2>2, GoesOn
<1>6. /\ call'[s] = d /\ \A t \in Slots \ {s} : call'[t] = call[t]
  BY <1>3 DEF CalmInv
<1>7. AllQuiet'
  <2>1. CASE c.pc \in Inside
    <3>1. PICK k \in Conns : OpenOn(c, k)
      BY <1>1, <1>3, <2>1, CalmCases
    <3>2. k = c.conn
      <4>1. c.conn # NoConn
        BY <1>1 DEF HasConn
      <4> QED
        BY <3>1, <4>1 DEF OpenOn
    <3> QED
      BY <1>3, <3>1, <3>2 DEF OpenOn, AllQuiet
  <2>2. CASE c.pc \notin Inside
    <3>1. AllQuiet
      BY <1>1, <1>3, <2>2, CalmCases
    <3> QED
      BY <1>3, <3>1 DEF AllQuiet
  <2> QED
    BY <2>1, <2>2
<1>8. \A t \in Slots : Active(t)' => call'[t].pc \notin Inside
  <2> SUFFICES ASSUME NEW t \in Slots, Active(t)' PROVE call'[t].pc \notin Inside
    OBVIOUS
  <2>1. CASE t = s
    <3>1. d # NoCall
      BY <1>6, <2>1 DEF Active, NoCall
    <3> QED
      BY <1>4, <1>6, <2>1, <3>1 DEF Inside
  <2>2. CASE t # s
    <3>1. Active(t) /\ call'[t] = call[t]
      BY <1>6, <2>2 DEF Active
    <3> QED
      BY <1>3, <2>2, <3>1, CalmCases
  <2> QED
    BY <2>1, <2>2
<1>9. Carried'
  <2>1. ~ \E t \in Slots : Active(t)' /\ call'[t].pc \in Inside
    BY <1>8
  <2> QED
    BY <1>7, <2>1 DEF Carried
<1> QED
  BY <1>3, <1>5, <1>9 DEF CalmInv, RowsOK

\* The pool closes no connection under a reset inside its transaction, which
\* waits for nobody.
LEMMA IdleTimeoutCalm ==
  ASSUME CalmInv, NEW k \in Conns, IdleTimeout(k)
  PROVE  CalmInv'
<1>1. /\ Unused(k) /\ conn' = [conn EXCEPT ![k] = Quiet] /\ idle' = Tail(idle)
      /\ UNCHANGED <<rows, call, told>> /\ idle \in Seq(Conns) /\ idle # << >>
  BY DEF IdleTimeout, Unused, CalmInv
<1>2. ASSUME NEW s \in Slots, Active(s) PROVE call[s].pc \notin Inside
  <2> SUFFICES ASSUME call[s].pc \in Inside PROVE FALSE
    OBVIOUS
  <2>1. PICK o \in Conns : OpenOn(call[s], o)
    BY <1>2, CalmCases
  <2>2. ASSUME call[s].conn # NoConn PROVE LockedFor(call[s].conn) = {}
    <3>1. \A p \in Conns \ {o} : conn[p].minus \cup conn[p].plus = {}
      BY <2>1 DEF OpenOn, Quiet
    <3>2. call[s].conn = o
      BY <2>1, <2>2 DEF OpenOn
    <3>3. Keys({}) = {}
      BY DEF Keys
    <3>4. \A p \in Conns \ {o} : Keys(conn[p].minus \cup conn[p].plus) = {}
      BY <3>1, <3>3
    <3> QED
      BY <3>2, <3>4 DEF LockedFor
  <2>3. ~Waits(s)
    BY <2>2 DEF Waits
  <2>4. Resetting(s) /\ call[s].pc # "select"
    BY <1>2, InsideIsReset DEF Resetting, CalmInv, CallsOK, CallOK, Inside
  <2> QED
    BY <1>1, <2>3, <2>4 DEF Unused, AmidTransaction
<1>3. AllQuiet /\ conn' = conn
  <2>1. AllQuiet
    BY <1>2 DEF CalmInv, Carried
  <2> QED
    BY <1>1, <2>1 DEF AllQuiet
<1>4. Carried'
  BY <1>1, <1>2, <1>3 DEF Carried, AllQuiet, Active
<1>5. CallsOK' /\ Alone'
  BY <1>1 DEF CalmInv, CallsOK, CallOK, Alone, Active, Resetting
<1>6. idle' \in Seq(Conns)
  BY <1>1
<1> QED
  BY <1>1, <1>4, <1>5, <1>6 DEF CalmInv, RowsOK

\* What expires is forgotten by clients too, and is no account.
LEMMA ExpireCalm ==
  ASSUME CalmInv, NEW r \in rows, Expire(r)
  PROVE  CalmInv'
<1>1. /\ r.table \in {"session", "token", "rate"}
      /\ rows' = rows \ {r} /\ told' = told \ {r}
      /\ UNCHANGED <<conn, idle, call>>
  BY DEF Expire
<1>2. Of(rows, "account") \subseteq rows' /\ rows' \subseteq rows
  BY <1>1 DEF Of
<1>3. ASSUME NEW s \in Slots, Active(s)' PROVE CallOK(call[s])'
  <2>1. PICK c : c = call[s]
    OBVIOUS
  <2>2. CallOK(c)
    BY <1>1, <1>3, <2>1 DEF CalmInv, CallsOK, Active
  <2>3. CallOK(c)'
    BY <1>2, <2>2, CallStaysOK
  <2> QED
    BY <1>1, <2>1, <2>3 DEF CallOK
<1>4. RowsOK'
  <2>1. ASSUME NEW q \in Of(rows', "session") PROVE Account(q.email, q.pw) \in rows'
    <3>1. q \in Of(rows, "session")
      BY <1>1, <2>1 DEF Of
    <3>2. Account(q.email, q.pw) \in Of(rows, "account")
      BY <3>1 DEF CalmInv, RowsOK, Of, Account
    <3> QED
      BY <1>2, <3>2
  <2> QED
    BY <1>1, <2>1 DEF CalmInv, RowsOK, AccountsShaped
<1>5. Carried' /\ Alone'
  BY <1>1 DEF CalmInv, Carried, OpenOn, AllQuiet, Alone, Active, Resetting
<1> QED
  BY <1>1, <1>3, <1>4, <1>5 DEF CalmInv, CallsOK

---------------------------------------------------------------------------
\* The statements.  Outside its transaction: what is written is sessions,
\* tokens, addresses and counters, only the last statement of a call takes away
\* anything but counters, and a session goes with the account's password.
LEMMA PlainOutcomes ==
  ASSUME NEW c, CallOK(c), RowsOK, c.pc \notin Inside \cup {"begin", "rollback"},
         NEW out \in Outcomes(c, rows)
  PROVE  /\ \A r \in out.minus : r.table # "account"
         /\ out.next # "over" => \A r \in out.minus : r.table = "rate"
         /\ AccountsShaped(out.plus)
         /\ \A r \in Of(out.plus, "session") : Account(r.email, r.pw) \in rows
         /\ out.next # "over" =>
              /\ out.next \in StepsOf(c.kind) \ (Inside \cup {"rollback"})
              /\ out.next = "session" =>
                   \/ /\ c.pc = "insert" /\ Account(c.email, c.n) \in out.plus
                      /\ \A r \in out.plus : r.table = "account"
                   \/ /\ c.pc = "find" /\ c.kind = "signIn" /\ out.plus = {}
                      /\ For(rows, "account", c.email) # {}
              /\ out.next # "session" => Kept(out.plus) = {}
<1> DEFINE Goal ==
         /\ \A r \in out.minus : r.table # "account"
         /\ out.next # "over" => \A r \in out.minus : r.table = "rate"
         /\ AccountsShaped(out.plus)
         /\ \A r \in Of(out.plus, "session") : Account(r.email, r.pw) \in rows
         /\ out.next # "over" =>
              /\ out.next \in StepsOf(c.kind) \ (Inside \cup {"rollback"})
              /\ out.next = "session" =>
                   \/ /\ c.pc = "insert" /\ Account(c.email, c.n) \in out.plus
                      /\ \A r \in out.plus : r.table = "account"
                   \/ /\ c.pc = "find" /\ c.kind = "signIn" /\ out.plus = {}
                      /\ For(rows, "account", c.email) # {}
              /\ out.next # "session" => Kept(out.plus) = {}
<1>0. /\ \A next : Then(next).minus = {} /\ Then(next).plus = {} /\ Then(next).next = next
      /\ \A minus, plus, next : /\ Writes(minus, plus, next).minus = minus
                                /\ Writes(minus, plus, next).plus = plus
                                /\ Writes(minus, plus, next).next = next
  BY DEF Then, Writes
<1>1. c.kind \in Kinds /\ c.pc \in StepsOf(c.kind)
  BY DEF CallOK
<1>2. CASE c.pc = "rate"
  <2>1. PICK n : out = Writes(For(rows, "rate", c.kind), {Rate(c.kind, n)},
                              IF n > RateMax THEN "over" ELSE "find")
    BY <1>2 DEF Outcomes, CountCall
  <2>2. /\ out.minus = For(rows, "rate", c.kind) /\ out.plus = {Rate(c.kind, n)}
        /\ out.next \in {"over", "find"}
    BY <1>0, <2>1
  <2>3. \A r \in out.minus \cup out.plus : r.table = "rate"
    BY <2>2 DEF For, Of, Rate
  <2>4. "find" \in StepsOf(c.kind)
    BY <1>1, <1>2 DEF StepsOf, Kinds
  <2>5. Kept(out.plus) = {} /\ Of(out.plus, "session") = {} /\ AccountsShaped(out.plus)
    BY <2>3 DEF Kept, Of, AccountsShaped
  <2> QED
    BY <2>2, <2>3, <2>4, <2>5 DEF Inside
<1>3. CASE c.pc = "find"
  <2>1. \/ out = Then("over")
        \/ out = Then("insert") /\ c.kind = "register"
        \/ out = Then("token") /\ c.kind = "requestReset"
        \/ /\ out = Then("session") /\ c.kind \notin {"register", "requestReset"}
           /\ For(rows, "account", c.email) # {}
    BY <1>3 DEF Outcomes, FindByEmail
  <2>2. c.kind \in {"register", "signIn", "requestReset"}
    BY <1>1, <1>3 DEF StepsOf, Kinds
  <2>3. out.minus = {} /\ out.plus = {} /\ Kept({}) = {} /\ Of({}, "session") = {}
    BY <1>0, <2>1 DEF Kept, Of
  <2>4. /\ out.next \in {"over", "insert", "token", "session"}
        /\ out.next = "insert" => c.kind = "register"
        /\ out.next = "token" => c.kind = "requestReset"
        /\ out.next = "session" => c.kind = "signIn" /\ For(rows, "account", c.email) # {}
    BY <1>0, <2>1, <2>2
  <2> QED
    BY <1>3, <2>3, <2>4 DEF AccountsShaped, StepsOf, Inside
<1>4. CASE c.pc = "insert"
  <2>1. out = Writes({}, {Account(c.email, c.n)}, "session")
    BY <1>4 DEF Outcomes
  <2>2. out.minus = {} /\ out.plus = {Account(c.email, c.n)} /\ out.next = "session"
    BY <1>0, <2>1
  <2>3. c.kind = "register"
    BY <1>1, <1>4 DEF StepsOf, Kinds
  <2>4. LET a == Account(c.email, c.n)
        IN  a.table = "account" /\ a = Account(a.email, a.pw)
    BY DEF Account
  <2> QED
    BY <1>4, <2>2, <2>3, <2>4 DEF AccountsShaped, Of, StepsOf, Inside
<1>5. CASE c.pc = "session"
  <2>1. out = Writes({}, {Session(c.email, c.n, c.pw)}, "over")
    BY <1>5 DEF Outcomes
  <2>2. out.minus = {} /\ out.plus = {Session(c.email, c.n, c.pw)} /\ out.next = "over"
    BY <1>0, <2>1
  <2>3. LET q == Session(c.email, c.n, c.pw)
        IN  q.table = "session" /\ q.email = c.email /\ q.pw = c.pw
    BY DEF Session
  <2>4. Account(c.email, c.pw) \in rows
    BY <1>5 DEF CallOK
  <2> QED
    BY <2>2, <2>3, <2>4 DEF AccountsShaped, Of
<1>6. CASE c.pc \in {"token", "addAddress"}
  <2>1. PICK row : /\ row \in {Token(c.email, c.n, FALSE), Address(c.email, c.n)}
                   /\ out = Writes({}, {row}, "over")
    BY <1>6 DEF Outcomes
  <2>2. out.minus = {} /\ out.next = "over" /\ out.plus = {row}
    BY <1>0, <2>1
  <2>3. row.table \in {"token", "address"}
    BY <2>1 DEF Token, Address
  <2> QED
    BY <2>2, <2>3 DEF AccountsShaped, Of
<1>7. CASE c.pc = "select"
  <2>1. out \in {Then("begin"), Then("over")}
    BY <1>7 DEF Outcomes
  <2>2. out.minus = {} /\ out.plus = {} /\ out.next \in {"begin", "over"}
    BY <1>0, <2>1
  <2>3. c.kind = "confirmReset"
    BY <1>1, <1>7 DEF StepsOf, Kinds
  <2> QED
    BY <2>2, <2>3 DEF AccountsShaped, Of, Kept, StepsOf, Inside
<1>8. CASE c.pc \in {"endSession", "deleteAddress"}
  <2>1. PICK gone : /\ \A r \in gone : r.table \in {"session", "address"}
                    /\ out = Writes(gone, {}, "over")
    <3>1. CASE c.pc = "endSession"
      <4>1. PICK gone : gone = {r \in For(rows, "session", c.email) : r.id = c.target}
        OBVIOUS
      <4>2. out = Writes(gone, {}, "over")
        BY <3>1, <4>1 DEF Outcomes
      <4>3. \A r \in gone : r.table = "session"
        BY <4>1 DEF For, Of
      <4> QED
        BY <4>2, <4>3
    <3>2. CASE c.pc = "deleteAddress"
      <4>1. PICK r \in For(rows, "address", c.email) : out = Writes({r}, {}, "over")
        BY <3>2 DEF Outcomes
      <4>2. \A q \in {r} : q.table = "address"
        BY DEF For, Of
      <4> QED
        BY <4>1, <4>2
    <3> QED
      BY <1>8, <3>1, <3>2
  <2>2. out.plus = {} /\ out.next = "over" /\ out.minus = gone
    BY <1>0, <2>1
  <2> QED
    BY <2>1, <2>2 DEF AccountsShaped, Of
<1>9. CASE c.pc = "whoami"
  <2>1. out \in {Then(c.kind), Then("over")}
    BY <1>9 DEF Outcomes
  <2>2. out.minus = {} /\ out.plus = {} /\ out.next \in {c.kind, "over"}
    BY <1>0, <2>1
  <2>3. c.kind \in {"addAddress", "deleteAddress"}
    BY <1>1, <1>9 DEF StepsOf, Kinds
  <2> QED
    BY <2>2, <2>3 DEF AccountsShaped, Of, Kept, StepsOf, Inside
<1>10. c.pc \in {"rate", "find", "insert", "session", "token", "addAddress", "select",
                "endSession", "deleteAddress", "whoami"}
  BY <1>1 DEF StepsOf, Kinds, Inside
<1> HIDE DEF Goal
<1>11. Goal
  BY <1>2, <1>3, <1>4, <1>5, <1>6, <1>7, <1>8, <1>9, <1>10 DEF Goal
<1> QED
  BY <1>11 DEF Goal

\* Inside: a reset writes rows of its own account only, and its last write ends
\* every session of it.
LEMMA InsideOutcomes ==
  ASSUME NEW c, NEW view, c.pc \in Inside, NEW out \in Outcomes(c, view)
  PROVE  /\ \A r \in out.minus : r.email = c.email /\ r.table # "rate"
         /\ \A r \in out.plus : r.email = c.email /\ r.table \in {"account", "token"}
         /\ AccountsShaped(out.plus)
         /\ c.pc = "password" => out.next = "use"
         /\ c.pc = "use" => out.next = "purge"
         /\ c.pc = "purge" => /\ out.next = "commit" /\ out.plus = {}
                              /\ out.minus = For(view, "session", c.email)
         /\ c.pc = "commit" => out.minus = {} /\ out.plus = {} /\ out.next = "over"
<1>0. /\ \A next : Then(next).minus = {} /\ Then(next).plus = {} /\ Then(next).next = next
      /\ \A minus, plus, next : /\ Writes(minus, plus, next).minus = minus
                                /\ Writes(minus, plus, next).plus = plus
                                /\ Writes(minus, plus, next).next = next
  BY DEF Then, Writes
<1>1. CASE c.pc = "password"
  <2>1. PICK old, plus : /\ old = For(view, "account", c.email)
                         /\ plus = IF old = {} THEN {} ELSE {Account(c.email, c.n)}
    OBVIOUS
  <2>2. out = Writes(old, plus, "use")
    BY <1>1, <2>1 DEF Outcomes
  <2>3. \A r \in plus : /\ r.email = c.email /\ r.table = "account"
                        /\ r = Account(r.email, r.pw)
    BY <2>1 DEF Account
  <2>4. \A r \in old : r.email = c.email /\ r.table = "account"
    BY <2>1 DEF For, Of
  <2> QED
    BY <1>0, <1>1, <2>2, <2>3, <2>4 DEF AccountsShaped
<1>2. CASE c.pc = "use"
  <2>1. PICK old, plus :
          /\ old = {r \in For(view, "token", c.email) : r.id = c.target}
          /\ plus = IF old = {} THEN {} ELSE {Token(c.email, c.target, TRUE)}
    OBVIOUS
  <2>2. out = Writes(old, plus, "purge")
    BY <1>2, <2>1 DEF Outcomes
  <2>3. \A r \in plus : r.email = c.email /\ r.table = "token"
    BY <2>1 DEF Token
  <2>4. \A r \in old : r.email = c.email /\ r.table = "token"
    BY <2>1 DEF For, Of
  <2> QED
    BY <1>0, <1>2, <2>2, <2>3, <2>4 DEF AccountsShaped
<1>3. CASE c.pc = "purge"
  <2>1. PICK old : old = For(view, "session", c.email)
    OBVIOUS
  <2>2. out = Writes(old, {}, "commit")
    BY <1>3, <2>1 DEF Outcomes, SessionsToEnd, AfterPurge
  <2>3. \A r \in old : r.email = c.email /\ r.table = "session"
    BY <2>1 DEF For, Of
  <2> QED
    BY <1>0, <1>3, <2>1, <2>2, <2>3 DEF AccountsShaped
<1>4. CASE c.pc = "commit"
  <2>1. out = Then("over")
    BY <1>4 DEF Outcomes
  <2> QED
    BY <1>0, <1>4, <2>1 DEF AccountsShaped
<1> QED
  BY <1>1, <1>2, <1>3, <1>4 DEF Inside

\* Inside its transaction a reset takes the next step on the connection the
\* transaction is open on, and puts it where it is taken from next.
LEMMA RunWithin ==
  ASSUME CalmInv, NEW s \in Slots, HasConn(s), call[s].pc \in Inside \ {"commit"},
         NEW out \in Outcomes(call[s], View(call[s].conn)), Run(s, out)
  PROVE  CalmInv'
<1>1. PICK c, k : c = call[s] /\ k = c.conn
  OBVIOUS
<1>2. /\ Active(s) /\ CallOK(c) /\ k \in Conns /\ k # NoConn
      /\ c.pc \in {"password", "use", "purge"} /\ c.pc \in Inside
  BY <1>1 DEF HasConn, CalmInv, CallsOK, CallOK, Inside
<1>3. (\A t \in Slots : Active(t) => t = s) /\ OpenOn(c, k)
  <2>1. (\A t \in Slots : Active(t) => t = s) /\ \E o \in Conns : OpenOn(c, o)
    BY <1>1, <1>2, CalmCases
  <2> QED
    BY <1>1, <1>2, <2>1 DEF OpenOn
<1>4. /\ \A r \in out.minus : r.email = c.email /\ r.table # "rate"
      /\ \A r \in out.plus : r.email = c.email /\ r.table \in {"account", "token"}
      /\ AccountsShaped(out.plus)
      /\ out.next \in {"use", "purge", "commit"}
      /\ out.next = "commit" => /\ out.plus = {}
                                /\ out.minus = For(View(k), "session", c.email)
  BY <1>1, <1>2, InsideOutcomes
<1>5. Kept(out.minus) = out.minus /\ Kept(out.plus) = out.plus
  BY <1>4 DEF Kept
<1>6. PICK made, ended : /\ made = (c.made \ out.minus) \cup out.plus
                         /\ ended = c.ended \cup out.minus
  OBVIOUS
<1>7. /\ conn[k] = [open |-> TRUE, minus |-> c.ended, plus |-> c.made]
      /\ conn = [o \in Conns |-> IF o = k THEN conn[k] ELSE Quiet]
  BY <1>2, <1>3 DEF OpenOn
<1>8. /\ Applied(k, c.pc, out) /\ idle' = Append(idle, k)
      /\ call' = [call EXCEPT ![s] = [c EXCEPT !.pc = out.next, !.conn = NoConn,
                                               !.made = made, !.ended = ended]]
      /\ told' = told
  BY <1>1, <1>2, <1>4, <1>5, <1>6 DEF Run, CallOK
<1>9. rows' = rows
  BY <1>2, <1>7, <1>8 DEF Applied
<1>10. conn' = [o \in Conns |->
                  IF o = k THEN [open |-> TRUE, minus |-> ended, plus |-> made] ELSE Quiet]
  <2>1. c.pc # "begin" /\ c.pc # "commit" /\ c.pc # "rollback" /\ conn[k].open
    BY <1>2, <1>7
  <2>2. conn' = [conn EXCEPT ![k].minus = conn[k].minus \cup out.minus,
                             ![k].plus = (conn[k].plus \ out.minus) \cup out.plus]
    BY <1>8, <2>1, Zenon DEF Applied
  <2>3. PICK held : held = conn[k]
    OBVIOUS
  <2>4. /\ held = [open |-> held.open, minus |-> held.minus, plus |-> held.plus]
        /\ held.open = TRUE /\ held.minus = c.ended /\ held.plus = c.made
        /\ conn = [o \in Conns |-> IF o = k THEN held ELSE Quiet]
    <3>1. held = [open |-> TRUE, minus |-> c.ended, plus |-> c.made]
      BY <1>7, <2>3
    <3>2. held.open = TRUE /\ held.minus = c.ended /\ held.plus = c.made
      BY <3>1
    <3> QED
      BY <1>7, <2>3, <3>1, <3>2
  <2>5. conn' = [conn EXCEPT ![k].minus = ended, ![k].plus = made]
    BY <1>6, <2>2, <2>3, <2>4, Zenon
  <2>6. conn' = [o \in Conns |-> IF o = k THEN [open |-> held.open, minus |-> ended,
                                                plus |-> made] ELSE Quiet]
    <3>1. conn[k] = held
      BY <2>3
    <3>2. PICK m : m = [held EXCEPT !.minus = ended]
      OBVIOUS
    <3>3. m = [open |-> held.open, minus |-> ended, plus |-> held.plus]
      BY <2>4, <3>2
    <3>4. m = [open |-> m.open, minus |-> m.minus, plus |-> m.plus]
      BY <3>3
    <3>5. PICK p : p = [m EXCEPT !.plus = made]
      OBVIOUS
    <3>6. p = [open |-> m.open, minus |-> m.minus, plus |-> made]
      BY <3>4, <3>5
    <3>7. PICK mid : mid = [conn EXCEPT ![k] = m]
      OBVIOUS
    <3>8. mid[k] = m
      BY <1>2, <2>4, <3>7
    <3>9. conn' = [mid EXCEPT ![k] = p]
      BY <2>5, <3>1, <3>2, <3>5, <3>7, <3>8
    <3>10. conn' = [o \in Conns |-> IF o = k THEN p ELSE Quiet]
      BY <2>4, <3>7, <3>9
    <3> QED
      BY <3>3, <3>6, <3>10
  <2> QED
    BY <2>4, <2>6
<1>11. PICK d : d = [c EXCEPT !.pc = out.next, !.conn = NoConn, !.made = made,
                              !.ended = ended]
  OBVIOUS
<1>12. /\ call' = [call EXCEPT ![s] = d]
       /\ d = [ kind |-> c.kind, email |-> c.email, target |-> c.target, n |-> c.n,
                pc |-> out.next, conn |-> NoConn, pw |-> c.pw, made |-> made,
                ended |-> ended, failed |-> c.failed ]
  <2>1. c = [ kind |-> c.kind, email |-> c.email, target |-> c.target, n |-> c.n,
              pc |-> c.pc, conn |-> c.conn, pw |-> c.pw, made |-> c.made,
              ended |-> c.ended, failed |-> c.failed ]
    BY <1>2 DEF CallOK
  <2> QED
    BY <1>8, <1>11, <2>1
<1>13. CallOK(d)
  <2>1. c.kind = "confirmReset"
    BY <1>2, InsideIsReset DEF CallOK
  <2>2. d.pc \in StepsOf("confirmReset") /\ d.pc \in Inside
    BY <1>4, <1>12 DEF StepsOf, Inside
  <2>3. d.failed = FALSE /\ d.pc # "rollback" /\ d.pc # "session"
    BY <1>2, <1>4, <1>12 DEF CallOK
  <2>4. /\ \A r \in made : r.table \in {"account", "token"} /\ r.email = c.email
        /\ \A r \in ended : r.table # "rate" /\ r.email = c.email
        /\ AccountsShaped(made)
    BY <1>2, <1>4, <1>6 DEF CallOK, AccountsShaped
  <2>5. ASSUME out.next = "commit"
        PROVE  For((rows \ ended) \cup made, "session", c.email) = {}
    <3>1. View(k) = (rows \ c.ended) \cup c.made
      BY <1>7 DEF View
    <3>2. /\ out.minus = For((rows \ c.ended) \cup c.made, "session", c.email)
          /\ out.plus = {}
      BY <1>4, <2>5, <3>1
    <3> QED
      BY <1>6, <3>2 DEF For, Of
  <2> QED
    BY <1>2, <1>12, <2>1, <2>2, <2>3, <2>4, <2>5 DEF CallOK
<1>14. CallOK(d)'
  BY <1>9, <1>13 DEF CallOK
<1>15. call' = [t \in Slots |-> call'[t]] /\ CallsOK' /\ Alone'
  <2>1. Of(rows, "account") \subseteq rows' /\ rows' \subseteq rows
    BY <1>9 DEF Of
  <2> QED
    BY <1>1, <1>2, <1>12, <1>12, <1>14, <2>1, GoesOn
<1>16. /\ idle' \in Seq(Conns) /\ idle' # << >> /\ idle'[Len(idle')] = k
  BY <1>2, <1>8 DEF CalmInv
<1>17. call'[s] = d /\ \A t \in Slots \ {s} : call'[t] = call[t]
  BY <1>12 DEF CalmInv
<1>18. OpenOn(call[s], k)'
  <2>1. call'[s].conn = NoConn /\ call'[s].ended = ended /\ call'[s].made = made
    BY <1>12, <1>17
  <2> QED
    BY <1>10, <1>16, <2>1 DEF OpenOn
<1>19. Carried'
  <2>1. \A t \in Slots : Active(t)' => t = s
    BY <1>3, <1>17 DEF Active
  <2>2. Active(s)' /\ call'[s].pc \in Inside
    BY <1>4, <1>12, <1>17 DEF Active, Inside
  <2> QED
    BY <1>2, <1>18, <2>1, <2>2 DEF Carried
<1> QED
  BY <1>8, <1>9, <1>15, <1>16, <1>19 DEF CalmInv, RowsOK

\* The commit of a reset: everything it wrote at once, and nobody else is there.
LEMMA CommitCalm ==
  ASSUME CalmInv, NEW s \in Slots, HasConn(s), call[s].pc = "commit",
         NEW out \in Outcomes(call[s], View(call[s].conn)), Run(s, out)
  PROVE  CalmInv'
<1>1. PICK c, k : c = call[s] /\ k = c.conn
  OBVIOUS
<1>2. /\ Active(s) /\ CallOK(c) /\ k \in Conns /\ k # NoConn
      /\ c.pc = "commit" /\ c.pc \in Inside /\ ~c.failed
  BY <1>1 DEF HasConn, CalmInv, CallsOK, CallOK, Inside
<1>3. (\A t \in Slots : Active(t) => t = s) /\ OpenOn(c, k)
  <2>1. (\A t \in Slots : Active(t) => t = s) /\ \E o \in Conns : OpenOn(c, o)
    BY <1>1, <1>2, CalmCases
  <2> QED
    BY <1>1, <1>2, <2>1 DEF OpenOn
<1>4. out.minus = {} /\ out.plus = {} /\ out.next = "over" /\ Kept({}) = {}
  BY <1>1, <1>2, InsideOutcomes DEF Kept
<1>5. /\ Applied(k, c.pc, out) /\ idle' = Append(idle, k)
      /\ call' = [call EXCEPT ![s] = NoCall]
      /\ told' = (told \ c.ended) \cup c.made
  BY <1>1, <1>2, <1>4 DEF Run
<1>6. rows' = (rows \ c.ended) \cup c.made /\ AllQuiet'
  <2>1. conn' = [conn EXCEPT ![k] = Quiet] /\ rows' = View(k)
    BY <1>2, <1>5 DEF Applied
  <2>2. conn[k] = [open |-> TRUE, minus |-> c.ended, plus |-> c.made]
    BY <1>2, <1>3 DEF OpenOn
  <2>3. AllQuiet'
    BY <1>2, <1>3, <2>1 DEF OpenOn, AllQuiet
  <2> QED
    BY <2>1, <2>2, <2>3 DEF View
<1>7. /\ call' = [t \in Slots |-> call'[t]] /\ idle' \in Seq(Conns)
      /\ \A t \in Slots : ~Active(t)'
  BY <1>2, <1>3, <1>5 DEF CalmInv, Active, NoCall
<1>8. RowsOK'
  <2>1. ASSUME NEW q \in Of(rows', "session") PROVE Account(q.email, q.pw) \in rows'
    <3>1. q.email # c.email
      BY <1>2, <1>6, <2>1 DEF CallOK, For, Of
    <3>2. q \in Of(rows, "session")
      BY <1>2, <1>6, <2>1, <3>1 DEF CallOK, Of
    <3>3. Account(q.email, q.pw) \in rows
      BY <3>2 DEF CalmInv, RowsOK
    <3>4. Account(q.email, q.pw) \notin c.ended
      BY <1>2, <3>1 DEF CallOK, Account
    <3> QED
      BY <1>6, <3>3, <3>4
  <2>2. \A r \in c.made : r.table # "rate"
    BY <1>2 DEF CallOK
  <2>3. AccountsShaped(rows')
    BY <1>2, <1>6 DEF CalmInv, RowsOK, CallOK, AccountsShaped
  <2> QED
    BY <1>5, <1>6, <2>1, <2>2, <2>3 DEF CalmInv, RowsOK
<1> QED
  BY <1>6, <1>7, <1>8 DEF CalmInv, CallsOK, Carried, Alone, Resetting

\* The record of a call that goes on.
LEMMA NextRecord ==
  ASSUME NEW s \in Slots, CallOK(call[s]), NEW out, Run(s, out), out.next # "over"
  PROVE  LET c == call[s]
         IN  \E d, pw :
               /\ call' = [call EXCEPT ![s] = d]
               /\ d = [ kind |-> c.kind, email |-> c.email, target |-> c.target, n |-> c.n,
                        pc |-> out.next, conn |-> NoConn, pw |-> pw,
                        made |-> (c.made \ out.minus) \cup Kept(out.plus),
                        ended |-> c.ended \cup Kept(out.minus), failed |-> c.failed ]
               /\ c.pc = "insert" => pw = c.n
               /\ c.pc = "find" /\ c.kind = "signIn" =>
                    pw = (CHOOSE a \in For(View(c.conn), "account", c.email) : TRUE).pw
<1>1. PICK c, k : c = call[s] /\ k = c.conn
  OBVIOUS
<1> DEFINE pw == IF c.pc = "find" /\ c.kind = "signIn"
                 THEN (CHOOSE a \in For(View(k), "account", c.email) : TRUE).pw
                 ELSE IF c.pc = "insert" THEN c.n ELSE c.pw
<1>2. PICK made, ended : /\ made = (c.made \ out.minus) \cup Kept(out.plus)
                         /\ ended = c.ended \cup Kept(out.minus)
  OBVIOUS
<1>3. call' = [call EXCEPT ![s] = [c EXCEPT !.pc = out.next, !.conn = NoConn,
                                   !.made = made, !.ended = ended, !.pw = pw]]
  BY <1>1, <1>2 DEF Run
<1>4. /\ c.pc = "insert" => pw = c.n
      /\ c.pc = "find" /\ c.kind = "signIn" =>
           pw = (CHOOSE a \in For(View(k), "account", c.email) : TRUE).pw
  OBVIOUS
<1> HIDE DEF pw
<1>5. PICK d : d = [c EXCEPT !.pc = out.next, !.conn = NoConn, !.made = made,
                             !.ended = ended, !.pw = pw]
  OBVIOUS
<1>6. d = [ kind |-> c.kind, email |-> c.email, target |-> c.target, n |-> c.n,
            pc |-> out.next, conn |-> NoConn, pw |-> pw, made |-> made,
            ended |-> ended, failed |-> c.failed ]
  <2>1. c = [ kind |-> c.kind, email |-> c.email, target |-> c.target, n |-> c.n,
              pc |-> c.pc, conn |-> c.conn, pw |-> c.pw, made |-> c.made,
              ended |-> c.ended, failed |-> c.failed ]
    BY <1>1 DEF CallOK
  <2> QED
    BY <1>5, <2>1
<1> QED
  BY <1>1, <1>2, <1>3, <1>5, <1>6, <1>4

\* BEGIN: the connection it went to is the one used last.
LEMMA BeginCalm ==
  ASSUME CalmInv, NEW s \in Slots, HasConn(s), call[s].pc = "begin",
         NEW out \in Outcomes(call[s], View(call[s].conn)), Run(s, out)
  PROVE  CalmInv'
<1>1. PICK c, k : c = call[s] /\ k = c.conn
  OBVIOUS
<1>2. /\ Active(s) /\ CallOK(c) /\ k \in Conns /\ k # NoConn
      /\ c.pc = "begin" /\ c.pc \notin Inside /\ ~c.failed /\ c.made = {} /\ c.ended = {}
  BY <1>1 DEF HasConn, CalmInv, CallsOK, CallOK, Inside
<1>3. AllQuiet /\ \A t \in Slots : Active(t) => t = s
  <2>1. c.kind = "confirmReset"
    BY <1>2 DEF CallOK, StepsOf, Kinds
  <2> QED
    BY <1>1, <1>2, <2>1, CalmCases DEF CalmInv, Alone, Resetting
<1>4. out.minus = {} /\ out.plus = {} /\ out.next = "password" /\ Kept({}) = {}
  <2>1. out = Then("password")
    BY <1>1, <1>2 DEF Outcomes
  <2> QED
    BY <2>1 DEF Then, Kept
<1>5. PICK d, pw :
        /\ call' = [call EXCEPT ![s] = d]
        /\ d = [ kind |-> c.kind, email |-> c.email, target |-> c.target, n |-> c.n,
                 pc |-> "password", conn |-> NoConn, pw |-> pw, made |-> {},
                 ended |-> {}, failed |-> c.failed ]
  <2>1. PICK d, pw :
          /\ call' = [call EXCEPT ![s] = d]
          /\ d = [ kind |-> c.kind, email |-> c.email, target |-> c.target, n |-> c.n,
                   pc |-> out.next, conn |-> NoConn, pw |-> pw,
                   made |-> (c.made \ out.minus) \cup Kept(out.plus),
                   ended |-> c.ended \cup Kept(out.minus), failed |-> c.failed ]
    <3>1. out.next # "over" /\ CallOK(call[s])
      BY <1>1, <1>2, <1>4
    <3> QED
      BY <1>1, <3>1, NextRecord
  <2>2. (c.made \ out.minus) \cup Kept(out.plus) = {} /\ c.ended \cup Kept(out.minus) = {}
    BY <1>2, <1>4
  <2> QED
    BY <1>4, <2>1, <2>2
<1>6. Applied(k, "begin", out) /\ idle' = Append(idle, k) /\ told' = told
  BY <1>1, <1>2, <1>4 DEF Run
<1>8. rows' = rows /\ conn' = [o \in Conns |->
        IF o = k THEN [open |-> TRUE, minus |-> {}, plus |-> {}] ELSE Quiet]
  <2>1. rows' = rows /\ conn' = [conn EXCEPT ![k].open = TRUE]
    BY <1>6 DEF Applied
  <2>2. PICK x : x = [conn[k] EXCEPT !.open = TRUE]
    OBVIOUS
  <2>3. x = [open |-> TRUE, minus |-> {}, plus |-> {}]
    <3>1. PICK q : q = conn[k]
      OBVIOUS
    <3>2. q = [open |-> q.open, minus |-> q.minus, plus |-> q.plus] /\ q.minus = {} /\ q.plus = {}
      BY <1>2, <1>3, <3>1 DEF AllQuiet, Quiet
    <3> QED
      BY <2>2, <3>1, <3>2
  <2>4. conn' = [conn EXCEPT ![k] = x]
    BY <2>1, <2>2
  <2> QED
    BY <1>2, <1>3, <2>1, <2>3, <2>4 DEF AllQuiet
<1>9. CallOK(d)
  <2>1. c.kind = "confirmReset" /\ c.kind \in Kinds
    BY <1>2 DEF CallOK, StepsOf, Kinds
  <2>2. AccountsShaped({})
    BY DEF AccountsShaped
  <2> QED
    BY <1>2, <1>5, <2>1, <2>2 DEF CallOK, StepsOf, Inside
<1>10. CallOK(d)'
  BY <1>8, <1>9 DEF CallOK
<1>11. call' = [t \in Slots |-> call'[t]] /\ CallsOK' /\ Alone'
  <2>1. Of(rows, "account") \subseteq rows' /\ rows' \subseteq rows
    BY <1>8 DEF Of
  <2> QED
    BY <1>1, <1>2, <1>5, <1>10, <2>1, GoesOn
<1>12. /\ idle' \in Seq(Conns) /\ idle' # << >> /\ idle'[Len(idle')] = k
  BY <1>2, <1>6 DEF CalmInv
<1>13. call'[s] = d /\ \A t \in Slots \ {s} : call'[t] = call[t]
  BY <1>5 DEF CalmInv
<1>14. OpenOn(call[s], k)'
  <2>1. call'[s].conn = NoConn /\ call'[s].ended = {} /\ call'[s].made = {}
    BY <1>5, <1>13
  <2> QED
    BY <1>8, <1>12, <2>1 DEF OpenOn
<1>15. Carried'
  <2>1. \A t \in Slots : Active(t)' => t = s
    BY <1>3, <1>13 DEF Active
  <2>2. Active(s)' /\ call'[s].pc \in Inside
    BY <1>5, <1>13 DEF Active, Inside
  <2> QED
    BY <1>2, <1>14, <2>1, <2>2 DEF Carried
<1> QED
  BY <1>6, <1>8, <1>11, <1>12, <1>15 DEF CalmInv, RowsOK

\* ROLLBACK, on a connection which is none of the transaction's any more.
LEMMA RollbackCalm ==
  ASSUME CalmInv, NEW s \in Slots, HasConn(s), call[s].pc = "rollback",
         NEW out \in Outcomes(call[s], View(call[s].conn)), Run(s, out)
  PROVE  CalmInv'
<1>1. PICK c, k : c = call[s] /\ k = c.conn
  OBVIOUS
<1>2. /\ Active(s) /\ CallOK(c) /\ k \in Conns
      /\ c.pc = "rollback" /\ c.pc \notin Inside /\ c.failed
  BY <1>1 DEF HasConn, CalmInv, CallsOK, CallOK, Inside
<1>3. AllQuiet /\ \A t \in Slots : Active(t) => call[t].pc \notin Inside
  BY <1>1, <1>2, CalmCases
<1>4. out.next = "over"
  <2>1. out = Then("over")
    BY <1>1, <1>2 DEF Outcomes
  <2> QED
    BY <2>1 DEF Then
<1>5. /\ Applied(k, "rollback", out) /\ idle' = Append(idle, k)
      /\ call' = [call EXCEPT ![s] = NoCall] /\ told' = told
  BY <1>1, <1>2, <1>4 DEF Run
<1>6. rows' = rows /\ AllQuiet'
  BY <1>2, <1>3, <1>5 DEF Applied, AllQuiet
<1>7. call' = [t \in Slots |-> call'[t]] /\ CallsOK' /\ Alone'
  <2>1. Of(rows, "account") \subseteq rows' /\ rows' \subseteq rows
    BY <1>6 DEF Of
  <2> QED
    BY <1>2, <1>5, <2>1, GoesOn
<1>8. \A t \in Slots : Active(t)' => call'[t].pc \notin Inside
  BY <1>3, <1>5 DEF CalmInv, Active, NoCall
<1>9. Carried'
  <2>1. ~ \E t \in Slots : Active(t)' /\ call'[t].pc \in Inside
    BY <1>8
  <2> QED
    BY <1>6, <2>1 DEF Carried
<1>10. idle' \in Seq(Conns)
  BY <1>2, <1>5 DEF CalmInv
<1> QED
  BY <1>5, <1>6, <1>7, <1>9, <1>10 DEF CalmInv, RowsOK

\* Every other statement is a transaction of its own.
LEMMA PlainCalm ==
  ASSUME CalmInv, NEW s \in Slots, HasConn(s),
         call[s].pc \notin Inside \cup {"begin", "rollback"},
         NEW out \in Outcomes(call[s], View(call[s].conn)), Run(s, out)
  PROVE  CalmInv'
<1>1. PICK c, k : c = call[s] /\ k = c.conn
  OBVIOUS
<1>2. /\ Active(s) /\ CallOK(c) /\ k \in Conns /\ ~c.failed /\ RowsOK
      /\ c.pc \notin Inside \cup {"begin", "rollback"} /\ c.ended = {}
      /\ c.made = {} \/ (c.pc = "session" /\ c.made \subseteq Of(rows, "account"))
  BY <1>1 DEF HasConn, CalmInv, CallsOK, CallOK, Inside
<1>3. AllQuiet /\ \A t \in Slots : Active(t) => call[t].pc \notin Inside
  BY <1>1, <1>2, CalmCases
<1>4. View(k) = rows /\ conn[k] = Quiet /\ out \in Outcomes(c, rows)
  BY <1>1, <1>2, <1>3, QuietViews
<1>5. /\ \A r \in out.minus : r.table # "account"
      /\ out.next # "over" => \A r \in out.minus : r.table = "rate"
      /\ AccountsShaped(out.plus)
      /\ \A r \in Of(out.plus, "session") : Account(r.email, r.pw) \in rows
  BY <1>2, <1>4, PlainOutcomes
<1>6. ASSUME out.next # "over"
      PROVE  /\ out.next \in StepsOf(c.kind) \ (Inside \cup {"rollback"})
             /\ out.next = "session" =>
                  \/ /\ c.pc = "insert" /\ Account(c.email, c.n) \in out.plus
                     /\ \A r \in out.plus : r.table = "account"
                  \/ /\ c.pc = "find" /\ c.kind = "signIn" /\ out.plus = {}
                     /\ For(rows, "account", c.email) # {}
             /\ out.next # "session" => Kept(out.plus) = {}
  BY <1>2, <1>4, <1>6, PlainOutcomes
<1>7. PICK made, ended : /\ made = (c.made \ out.minus) \cup Kept(out.plus)
                         /\ ended = Kept(out.minus)
  OBVIOUS
<1>8. /\ Applied(k, c.pc, out) /\ idle' = Append(idle, k)
      /\ IF out.next = "over" THEN /\ call' = [call EXCEPT ![s] = NoCall]
                                   /\ told' = (told \ ended) \cup made
         ELSE told' = told
  BY <1>1, <1>2, <1>7 DEF Run
<1>9. rows' = (rows \ out.minus) \cup out.plus /\ conn' = conn
  <2>1. c.pc # "commit" /\ c.pc # "begin" /\ c.pc # "rollback" /\ ~conn[k].open
    BY <1>2, <1>4 DEF Inside, Quiet
  <2> QED
    BY <1>8, <2>1 DEF Applied
<1>10. Of(rows, "account") \subseteq rows'
  BY <1>5, <1>9 DEF Of
<1>11. RowsOK'
  <2>1. told' \subseteq rows'
    <3>1. made \subseteq rows'
      BY <1>2, <1>7, <1>9 DEF Of, Kept
    <3>2. told \ ended \subseteq rows'
      BY <1>2, <1>7, <1>9 DEF RowsOK, Kept
    <3>3. ASSUME out.next # "over" PROVE told \subseteq rows'
      BY <1>2, <1>5, <1>9, <3>3 DEF RowsOK
    <3> QED
      BY <1>8, <3>1, <3>2, <3>3
  <2>2. \A r \in told' : r.table # "rate"
    <3>1. \A r \in made : r.table # "rate"
      BY <1>2, <1>7 DEF Of, Kept
    <3> QED
      BY <1>2, <1>8, <3>1 DEF RowsOK
  <2>3. AccountsShaped(rows')
    BY <1>2, <1>5, <1>9 DEF RowsOK, AccountsShaped
  <2>4. ASSUME NEW q \in Of(rows', "session") PROVE Account(q.email, q.pw) \in rows'
    <3>1. q \in Of(rows, "session") \/ q \in Of(out.plus, "session")
      BY <1>9, <2>4 DEF Of
    <3>2. Account(q.email, q.pw) \in rows
      BY <1>2, <1>5, <3>1 DEF RowsOK
    <3>3. Account(q.email, q.pw).table = "account"
      BY DEF Account
    <3> QED
      BY <1>10, <3>2, <3>3 DEF Of
  <2> QED
    BY <2>1, <2>2, <2>3, <2>4 DEF RowsOK
<1>12. ASSUME out.next # "over"
       PROVE  \E d : /\ call' = [call EXCEPT ![s] = d] /\ d.pc = out.next
                     /\ CallOK(d)' /\ d.kind = c.kind
  <2>1. PICK d, pw :
          /\ call' = [call EXCEPT ![s] = d]
          /\ d = [ kind |-> c.kind, email |-> c.email, target |-> c.target, n |-> c.n,
                   pc |-> out.next, conn |-> NoConn, pw |-> pw,
                   made |-> (c.made \ out.minus) \cup Kept(out.plus),
                   ended |-> c.ended \cup Kept(out.minus), failed |-> c.failed ]
          /\ c.pc = "insert" => pw = c.n
          /\ c.pc = "find" /\ c.kind = "signIn" =>
               pw = (CHOOSE a \in For(View(k), "account", c.email) : TRUE).pw
    <3>1. out.next # "over" /\ CallOK(call[s])
      BY <1>1, <1>2, <1>12
    <3> QED
      BY <1>1, <3>1, NextRecord
  <2>2. c.ended \cup Kept(out.minus) = {}
    BY <1>2, <1>5, <1>12 DEF Kept
  <2>3. c.made = {}
    <3>1. ASSUME c.pc = "session" PROVE out.next = "over"
      <4>1. out = Writes({}, {Session(c.email, c.n, c.pw)}, "over")
        BY <1>4, <3>1 DEF Outcomes
      <4> QED
        BY <4>1 DEF Writes
    <3> QED
      BY <1>2, <1>12, <3>1
  <2>4. d = [ kind |-> c.kind, email |-> c.email, target |-> c.target, n |-> c.n,
              pc |-> out.next, conn |-> NoConn, pw |-> pw, made |-> Kept(out.plus),
              ended |-> {}, failed |-> FALSE ]
    <3>1. (c.made \ out.minus) \cup Kept(out.plus) = Kept(out.plus) /\ c.failed = FALSE
      BY <1>2, <2>3 DEF CallOK
    <3> QED
      BY <2>1, <2>2, <3>1
  <2>5. ASSUME out.next = "session"
        PROVE  /\ Kept(out.plus) \subseteq Of(rows', "account")
               /\ Account(c.email, pw) \in rows'
    <3>1. CASE c.pc = "insert" /\ Account(c.email, c.n) \in out.plus
               /\ \A r \in out.plus : r.table = "account"
      <4>1. Kept(out.plus) \subseteq Of(rows', "account")
        BY <1>9, <3>1 DEF Kept, Of
      <4>2. pw = c.n
        BY <2>1, <3>1
      <4> QED
        BY <1>9, <3>1, <4>1, <4>2
    <3>2. CASE c.pc = "find" /\ c.kind = "signIn" /\ out.plus = {}
               /\ For(rows, "account", c.email) # {}
      <4>1. PICK a : a = CHOOSE r \in For(rows, "account", c.email) : TRUE
        OBVIOUS
      <4>2. a \in For(rows, "account", c.email)
        BY <3>2, <4>1
      <4>3. pw = a.pw
        BY <1>4, <2>1, <3>2, <4>1
      <4>4. a = Account(c.email, pw) /\ a \in Of(rows, "account")
        BY <1>2, <4>2, <4>3 DEF RowsOK, AccountsShaped, For, Of
      <4> QED
        BY <1>10, <3>2, <4>4 DEF Kept
    <3> QED
      BY <1>6, <1>12, <2>5, <3>1, <3>2
  <2>6. CallOK(d)'
    <3>1. c.kind \in Kinds
      BY <1>2 DEF CallOK
    <3> QED
      BY <1>6, <1>12, <2>4, <2>5, <3>1 DEF CallOK, Inside
  <2>7. d.pc = out.next /\ d.kind = c.kind
    BY <2>4
  <2> QED
    BY <2>1, <2>6, <2>7
<1>13. PICK d : /\ call' = [call EXCEPT ![s] = d] /\ d.pc \notin Inside
                /\ d = NoCall \/ (CallOK(d)' /\ d.kind = c.kind)
  <2>1. CASE out.next = "over"
    <3>1. NoCall.pc \notin Inside
      BY DEF NoCall, Inside
    <3> QED
      BY <1>8, <2>1, <3>1
  <2>2. CASE out.next # "over"
    BY <1>6, <1>12, <2>2
  <2> QED
    BY <2>1, <2>2
<1>14. call' = [t \in Slots |-> call'[t]] /\ CallsOK' /\ Alone'
  <2>1. \A t \in Slots \ {s} : Active(t) => call[t].pc # "commit"
    BY <1>3 DEF Inside
  <2> QED
    BY <1>1, <1>2, <1>10, <1>13, <2>1, GoesOn
<1>15. \A t \in Slots : Active(t)' => call'[t].pc \notin Inside
  BY <1>3, <1>13 DEF CalmInv, Active
<1>16. Carried'
  <2>1. ~ \E t \in Slots : Active(t)' /\ call'[t].pc \in Inside
    BY <1>15
  <2>2. AllQuiet'
    BY <1>3, <1>9 DEF AllQuiet
  <2> QED
    BY <2>1, <2>2 DEF Carried
<1>17. idle' \in Seq(Conns)
  BY <1>2, <1>8 DEF CalmInv
<1> QED
  BY <1>11, <1>14, <1>16, <1>17 DEF CalmInv

---------------------------------------------------------------------------
\* Before the first call.
LEMMA InitCalm == Init => CalmInv
<1> SUFFICES ASSUME Init PROVE CalmInv
  OBVIOUS
<1>1. /\ \A s \in Slots : ~Active(s)
      /\ call = [s \in Slots |-> call[s]] /\ idle \in Seq(Conns)
  BY DEF Init, Active, NoCall
<1>2. AllQuiet /\ told = rows /\ rows \in {{}, Before}
  BY DEF Init, AllQuiet
<1>3. \A r \in Before :
        \E e \in Emails : r \in {Account(e, 0), Session(e, 0, 0), Token(e, 0, FALSE)}
  BY DEF Before
<1>4. ASSUME NEW r \in Before
      PROVE  /\ r.table # "rate"
             /\ r.table = "account" => r = Account(r.email, r.pw)
             /\ r.table = "session" => Account(r.email, r.pw) \in Before
  <2>1. PICK e \in Emails : r \in {Account(e, 0), Session(e, 0, 0), Token(e, 0, FALSE)}
    BY <1>3
  <2>2. Account(e, 0) \in Before
    <3>1. PICK three : three = {Account(e, 0), Session(e, 0, 0), Token(e, 0, FALSE)}
      OBVIOUS
    <3>2. Account(e, 0) \in three
      BY <3>1
    <3> QED
      BY <3>1, <3>2 DEF Before
  <2> QED
    BY <2>1, <2>2 DEF Account, Session, Token
<1>5. RowsOK
  BY <1>2, <1>4 DEF RowsOK, AccountsShaped, Of
<1> QED
  BY <1>1, <1>2, <1>5 DEF CalmInv, CallsOK, Carried, Alone, Resetting

\* As long as it stays calm every step keeps the invariant.
LEMMA NextCalm == (calm => CalmInv) /\ [Next]_vars => (calm => CalmInv)'
<1> SUFFICES ASSUME calm => CalmInv, [Next]_vars, calm'
             PROVE  CalmInv'
  OBVIOUS
<1>1. CASE UNCHANGED vars
  <2>1. CalmInv /\ UNCHANGED <<rows, conn, idle, call, told>>
    BY <1>1 DEF vars
  <2>2. CallsOK'
    BY <2>1 DEF CalmInv, CallsOK, CallOK, Active
  <2>3. RowsOK' /\ Alone'
    BY <2>1 DEF CalmInv, RowsOK, Alone, Active, Resetting
  <2>4. Carried'
    BY <2>1 DEF CalmInv, Carried, OpenOn, AllQuiet, Active
  <2> QED
    BY <2>1, <2>2, <2>3, <2>4 DEF CalmInv
<1>2. ASSUME NEW s \in Slots, NEW kind \in Kinds, NEW email \in Emails,
             NEW target \in 0..load.calls, Start(s, kind, email, target)
      PROVE  CalmInv'
  <2>1. calm
    BY <1>2 DEF Start
  <2> QED
    BY <1>2, <2>1, StartCalm
<1>3. ASSUME NEW s \in Slots, NEW k \in Conns, Issue(s, k) PROVE CalmInv'
  <2>1. calm
    BY <1>3 DEF Issue
  <2> QED
    BY <1>3, <2>1, IssueCalm
<1>4. ASSUME NEW s \in Slots, HasConn(s),
             NEW out \in Outcomes(call[s], View(call[s].conn)), Run(s, out)
      PROVE  CalmInv'
  <2>1. calm
    BY <1>4 DEF Run
  <2> QED
    BY <1>4, <2>1, RunWithin, CommitCalm, BeginCalm, RollbackCalm, PlainCalm
<1>5. ASSUME NEW s \in Slots, Violation(s) \/ DeadlockVictim(s) \/ StatementFails(s)
      PROVE  CalmInv'
  <2>1. HasConn(s) /\ Refused(s)
    BY <1>5 DEF Violation, DeadlockVictim, StatementFails, Waits, HasConn
  <2>2. calm
    BY <2>1 DEF Refused
  <2> QED
    BY <2>1, <2>2, RefusedCalm
<1>6. ASSUME NEW k \in Conns, IdleTimeout(k) PROVE CalmInv'
  <2>1. calm
    BY <1>6 DEF IdleTimeout
  <2> QED
    BY <1>6, <2>1, IdleTimeoutCalm
<1>7. ASSUME NEW r \in rows, Expire(r) PROVE CalmInv'
  <2>1. calm
    BY <1>7 DEF Expire
  <2> QED
    BY <1>7, <2>1, ExpireCalm
<1> QED
  BY <1>1, <1>2, <1>3, <1>4, <1>5, <1>6, <1>7 DEF Next, Execute

LEMMA CalmAlways == Spec => [](calm => CalmInv)
<1>1. Init => (calm => CalmInv)
  BY InitCalm
<1> QED
  BY <1>1, NextCalm, PTL DEF Spec

---------------------------------------------------------------------------
\* As long as no reset has run at the same time as another call, what a client
\* has been answered is in the database, and of a reset all or nothing
\* (confirmPasswordReset).
THEOREM AnswersStayDurable == Spec => []AnswersAreDurable
<1>1. (calm => CalmInv) => AnswersAreDurable
  BY DEF CalmInv, RowsOK, AnswersAreDurable
<1> QED
  BY <1>1, CalmAlways, PTL

\* As long as no reset has run at the same time as another call, a session is
\* one of the password its account has now: a reset ends those of before.
THEOREM ResetsEndEverySession == Spec => []ResetEndsEverySession
<1>1. (calm => CalmInv) => ResetEndsEverySession
  BY DEF CalmInv, RowsOK, ResetEndsEverySession
<1> QED
  BY <1>1, CalmAlways, PTL
=============================================================================
