------------------------------- MODULE Identity ----------------------------
(***************************************************************************)
(* Accounts, sessions and password resets (libs/services/identity/src/     *)
(* identity-service.ts, apps/api/src/auth-routes.ts, session.ts), down to  *)
(* the connection each statement runs on.                                  *)
(*                                                                         *)
(* Every statement goes through pool.query, which takes the idle           *)
(* connection used last, or opens one, and gives it back when the answer   *)
(* is there.  confirmPasswordReset sends BEGIN and COMMIT that way too, so *)
(* its transaction belongs to a connection, not to the call: the           *)
(* statements of other calls may run inside it, and its own outside.       *)
(*                                                                         *)
(* A row is a record; a password, a session or a token is known by the     *)
(* number of the call that made it.  Of a pool of ten, MC opens fewer.     *)
(***************************************************************************)
EXTENDS Naturals, Sequences, FiniteSets

CONSTANTS
    Slots,      \* bound: calls under way at once
    Emails,     \* addresses, up to case
    Conns,      \* bound: connections of the pool
    RateMax,    \* authRateLimitMax, per action and client address (one here)
    Loads       \* bounds: which calls, how many, and how many statements fail

VARIABLES
    load,     \* the bounds of the behaviour, one of Loads
    rows,     \* what is committed, in all tables
    conn,     \* per connection: is a transaction open, and what it holds back
    idle,     \* the pool's idle connections, the one used last at the end
    call,     \* per slot: the call under way
    calls,    \* calls started so far
    told,     \* history: the rows clients have been answered for
    calm,     \* history: no reset has overlapped with another call yet
    faults

vars == <<load, rows, conn, idle, call, calls, told, calm, faults>>

Kinds == { "register", "signIn", "requestReset", "confirmReset", "signOut",
           "addAddress", "deleteAddress" }

ASSUME LoadsAreBounds ==
    /\ RateMax \in Nat
    /\ Loads \subseteq [kinds : SUBSET Kinds, calls : Nat, faults : Nat]

NoCall == [pc |-> "over"]
NoConn == "none"

ASSUME NoneIsNoConnection == NoConn \notin Conns

Quiet == [open |-> FALSE, minus |-> {}, plus |-> {}]

Of(set, table) == {r \in set : r.table = table}
For(set, table, email) == {r \in Of(set, table) : r.email = email}

Account(email, n) == [table |-> "account", email |-> email, pw |-> n]
Session(email, n, pw) == [table |-> "session", email |-> email, id |-> n, pw |-> pw]
Token(email, n, used) == [table |-> "token", email |-> email, id |-> n, used |-> used]
Address(email, n) == [table |-> "address", email |-> email, id |-> n]
Rate(kind, count) == [table |-> "rate", email |-> kind, count |-> count]

\* What a row's lock is on.
Key(r) == [table |-> r.table, email |-> r.email,
           id |-> IF r.table \in {"account", "rate"} THEN 0 ELSE r.id]
Keys(set) == {Key(r) : r \in set}

---------------------------------------------------------------------------
(* Connections.                                                            *)

\* What a statement on connection k reads: READ COMMITTED.
View(k) == (rows \ conn[k].minus) \cup conn[k].plus

\* The rows the transactions of other connections hold locked.
LockedFor(k) ==
    UNION {Keys(conn[o].minus \cup conn[o].plus) : o \in Conns \ {k}}

InUse == {call[s].conn : s \in {t \in Slots : call[t].pc # "over"}} \ {NoConn}
Range(seq) == {seq[i] : i \in DOMAIN seq}
Closed == (Conns \ InUse) \ Range(idle)

\* The connection pool.query takes: the idle one used last, else a new one;
\* which of the closed ones that is makes no difference.
Takes(k) ==
    IF idle # << >> THEN k = idle[Len(idle)]
    ELSE Closed # {} /\ k = CHOOSE o \in Closed : TRUE

Popped == IF idle # << >> THEN SubSeq(idle, 1, Len(idle) - 1) ELSE idle

---------------------------------------------------------------------------
(* What the statement a call is at does.                                   *)

First(kind) ==
    CASE kind \in {"register", "signIn", "requestReset"} -> "rate"
      [] kind = "confirmReset" -> "select"
      [] kind = "signOut" -> "endSession"
      [] OTHER -> "whoami"

\* A statement: what it takes away and adds, and where the call goes next.
Then(next) == [minus |-> {}, plus |-> {}, next |-> next]
Writes(minus, plus, next) == [minus |-> minus, plus |-> plus, next |-> next]

\* enforceRateLimit counts in one statement.
CountCall(c, view) ==
    LET seen == For(view, "rate", c.kind)
        n == IF seen = {} THEN 1 ELSE 1 + (CHOOSE r \in seen : TRUE).count
    IN {Writes(seen, {Rate(c.kind, n)}, IF n > RateMax THEN "over" ELSE "find")}

\* findByEmail, and for a sign-in the password that is then compared.
FindByEmail(c, view) ==
    LET found == For(view, "account", c.email) # {}
    IN IF c.kind = "register" THEN {Then(IF found THEN "over" ELSE "insert")}
       ELSE IF ~found THEN {Then("over")}
       ELSE IF c.kind = "requestReset" THEN {Then("token")}
       ELSE {Then("session"), Then("over")}

\* Mutation: the sessions of the account are left alone.
NoSessions(c, view) == {}

\* DELETE FROM identity.sessions WHERE account_id.
SessionsToEnd(c, view) == For(view, "session", c.email)

\* Mutation: nothing commits.
OverAfterPurge == "over"

AfterPurge == "commit"

\* The outcomes of the statement, none when it violates the unique index.
Outcomes(c, view) ==
    CASE c.pc = "rate" -> CountCall(c, view)
      [] c.pc = "find" -> FindByEmail(c, view)
      [] c.pc = "insert" ->
            IF For(view, "account", c.email) # {} THEN {}
            ELSE {Writes({}, {Account(c.email, c.n)}, "session")}
      [] c.pc = "session" ->
            IF For(view, "account", c.email) = {} THEN {}
            ELSE {Writes({}, {Session(c.email, c.n, c.pw)}, "over")}
      [] c.pc = "token" -> {Writes({}, {Token(c.email, c.n, FALSE)}, "over")}
      [] c.pc = "select" ->
            {Then(IF Token(c.email, c.target, FALSE) \in view THEN "begin" ELSE "over")}
      [] c.pc = "begin" -> {Then("password")}
      [] c.pc = "password" ->
            LET old == For(view, "account", c.email)
            IN {Writes(old, IF old = {} THEN {} ELSE {Account(c.email, c.n)}, "use")}
      [] c.pc = "use" ->
            LET old == {r \in For(view, "token", c.email) : r.id = c.target}
            IN {Writes(old, IF old = {} THEN {} ELSE {Token(c.email, c.target, TRUE)}, "purge")}
      [] c.pc = "purge" -> {Writes(SessionsToEnd(c, view), {}, AfterPurge)}
      [] c.pc \in {"commit", "rollback"} -> {Then("over")}
      [] c.pc = "endSession" ->
            {Writes({r \in For(view, "session", c.email) : r.id = c.target}, {}, "over")}
      [] c.pc = "whoami" ->
            {Then(IF \E r \in For(view, "session", c.email) : r.id = c.target
                  THEN c.kind ELSE "over")}
      [] c.pc = "addAddress" -> {Writes({}, {Address(c.email, c.n)}, "over")}
      [] c.pc = "deleteAddress" ->
            {Writes({r}, {}, "over") : r \in For(view, "address", c.email)}

\* Where a call goes whose statement has failed: the catch of
\* confirmPasswordReset rolls back, every other call answers an error.
AfterError(pc) ==
    IF pc \in {"password", "use", "purge", "commit"} THEN "rollback" ELSE "over"

---------------------------------------------------------------------------
\* Before the first call nothing is stored, or an account of every address,
\* with a session it has opened and a reset it has asked for.
Before ==
    UNION {{Account(e, 0), Session(e, 0, 0), Token(e, 0, FALSE)} : e \in Emails}

Init ==
    /\ load \in Loads
    /\ rows \in {{}, Before}
    /\ conn = [k \in Conns |-> Quiet]
    /\ idle = << >>
    /\ call = [s \in Slots |-> NoCall]
    /\ calls = 0
    /\ told = rows
    /\ calm = TRUE
    /\ faults = 0

Active(s) == call[s].pc # "over"
Resetting(s) == Active(s) /\ call[s].kind = "confirmReset"

\* A request comes in.  target is the token or session the client holds.
Start(s, kind, email, target) ==
    /\ ~Active(s)
    /\ calls < load.calls
    /\ kind \in load.kinds
    /\ kind \in {"register", "signIn", "requestReset"} => target = 0
    /\ kind = "confirmReset" => \E r \in For(told, "token", email) : r.id = target
    /\ kind \in {"signOut", "addAddress", "deleteAddress"} =>
            \E r \in For(told, "session", email) : r.id = target
    /\ calls' = calls + 1
    /\ call' = [call EXCEPT ![s] =
           [ kind |-> kind, email |-> email, target |-> target, n |-> calls + 1,
             pc |-> First(kind), conn |-> NoConn, pw |-> 0,
             made |-> {}, ended |-> {}, failed |-> FALSE ]]
    /\ calm' = (calm /\ ~\E t \in Slots \ {s} :
                          Active(t) /\ (Resetting(t) \/ kind = "confirmReset"))
    /\ UNCHANGED <<load, rows, conn, idle, told, faults>>

\* pool.query hands the statement to a connection.
Issue(s, k) ==
    /\ Active(s)
    /\ call[s].conn = NoConn
    /\ Takes(k)
    /\ idle' = Popped
    /\ call' = [call EXCEPT ![s].conn = k]
    /\ UNCHANGED <<load, rows, conn, calls, told, calm, faults>>

\* The statement waits for a row that another connection's transaction holds.
Waits(s) ==
    /\ Active(s)
    /\ call[s].conn # NoConn
    /\ \E out \in Outcomes(call[s], View(call[s].conn)) :
           Keys(out.minus \cup out.plus) \cap LockedFor(call[s].conn) # {}

Kept(set) == {r \in set : r.table # "rate"}

\* What the connection and the tables are after the statement.
Applied(k, pc, out) ==
    IF pc = "begin" THEN /\ conn' = [conn EXCEPT ![k].open = TRUE]
                         /\ UNCHANGED rows
    ELSE IF pc = "commit" THEN /\ conn' = [conn EXCEPT ![k] = Quiet]
                               /\ rows' = View(k)
    ELSE IF pc = "rollback" THEN /\ conn' = [conn EXCEPT ![k] = Quiet]
                                 /\ UNCHANGED rows
    ELSE IF conn[k].open
    THEN /\ conn' = [conn EXCEPT ![k].minus = @ \cup out.minus,
                                 ![k].plus = (@ \ out.minus) \cup out.plus]
         /\ UNCHANGED rows
    ELSE /\ rows' = (rows \ out.minus) \cup out.plus
         /\ UNCHANGED conn

\* The statement runs, and the connection goes back to the pool.  A call that
\* is over without an error has answered for what it wrote.
Run(s, out) ==
    LET c == call[s]
        k == c.conn
        made == (c.made \ out.minus) \cup Kept(out.plus)
        ended == c.ended \cup Kept(out.minus)
    IN /\ ~Waits(s)
       /\ Applied(k, c.pc, out)
       /\ idle' = Append(idle, k)
       /\ IF out.next = "over"
          THEN /\ call' = [call EXCEPT ![s] = NoCall]
               /\ told' = IF c.failed THEN told ELSE (told \ ended) \cup made
          ELSE /\ call' = [call EXCEPT ![s] =
                      [ c EXCEPT !.pc = out.next, !.conn = NoConn, !.made = made,
                                 !.ended = ended,
                                 !.pw = IF c.pc = "find" /\ c.kind = "signIn"
                                        THEN (CHOOSE a \in For(View(k), "account", c.email) :
                                                  TRUE).pw
                                        ELSE IF c.pc = "insert" THEN c.n ELSE @ ]]
               /\ UNCHANGED told
       /\ UNCHANGED <<load, calls, calm, faults>>

\* The statement is refused.  pool.query closes a connection that has answered
\* an error, and what its transaction had written is gone.
Refused(s) ==
    LET c == call[s]
    IN /\ conn' = [conn EXCEPT ![c.conn] = Quiet]
       /\ call' = [call EXCEPT ![s] =
              IF AfterError(c.pc) = "over" THEN NoCall
              ELSE [c EXCEPT !.pc = AfterError(c.pc), !.conn = NoConn, !.failed = TRUE]]
       /\ UNCHANGED <<load, rows, idle, calls, told, calm>>

HasConn(s) == Active(s) /\ call[s].conn # NoConn

\* The unique index of accounts, a foreign key, or nothing to delete.
Violation(s) ==
    /\ HasConn(s)
    /\ Outcomes(call[s], View(call[s].conn)) = {}
    /\ Refused(s)
    /\ UNCHANGED faults

\* Any other error of the database.
StatementFails(s) ==
    /\ HasConn(s)
    /\ faults < load.faults
    /\ faults' = faults + 1
    /\ Refused(s)

\* Two statements wait for each other; the database gives one of them up.
DeadlockVictim(s) ==
    /\ Waits(s)
    /\ \E t \in Slots \ {s} : Waits(t)
    /\ Refused(s)
    /\ UNCHANGED faults

Execute(s) ==
    \/ HasConn(s) /\ \E out \in Outcomes(call[s], View(call[s].conn)) : Run(s, out)
    \/ Violation(s)
    \/ DeadlockVictim(s)

\* The statements of a transaction follow each other at once.
AmidTransaction ==
    \E s \in Slots : Resetting(s) /\ call[s].pc # "select" /\ ~Waits(s)

\* Mutation: idleTimeoutMillis is 0, and idle connections stay.
NeverClosed(k) == FALSE

\* Ten seconds unused: the one that has been idle longest.
Unused(k) == idle # << >> /\ k = Head(idle) /\ ~AmidTransaction

\* The pool closes a connection that has been idle for too long; a transaction
\* left open on it is rolled back.
IdleTimeout(k) ==
    /\ Unused(k)
    /\ conn' = [conn EXCEPT ![k] = Quiet]
    /\ idle' = Tail(idle)
    /\ UNCHANGED <<load, rows, call, calls, told, calm, faults>>

\* A session or a token expires, or the window of a rate limit ends.
Expire(r) ==
    /\ r.table \in {"session", "token", "rate"}
    /\ \A k \in Conns : Key(r) \notin Keys(conn[k].minus \cup conn[k].plus)
    /\ rows' = rows \ {r}
    /\ told' = told \ {r}
    /\ UNCHANGED <<load, conn, idle, call, calls, calm, faults>>

---------------------------------------------------------------------------
Next ==
    \/ \E s \in Slots :
        \/ \E kind \in Kinds, email \in Emails, target \in 0..load.calls :
               Start(s, kind, email, target)
        \/ \E k \in Conns : Issue(s, k)
        \/ Execute(s)
        \/ StatementFails(s)
    \/ \E k \in Conns : IdleTimeout(k)
    \/ \E r \in rows : Expire(r)

Spec == Init /\ [][Next]_vars

\* A statement that can run does, and an idle connection is closed in time.
FairSpec ==
    /\ Spec
    /\ \A s \in Slots :
           /\ WF_vars(\E k \in Conns : Issue(s, k))
           /\ WF_vars(Execute(s))
    /\ \A k \in Conns : WF_vars(IdleTimeout(k))

---------------------------------------------------------------------------
(* Properties.                                                             *)

TypeOK ==
    /\ \A k \in Conns : ~conn[k].open => conn[k].minus = {} /\ conn[k].plus = {}
    /\ Range(idle) \subseteq Conns /\ Cardinality(Range(idle)) = Len(idle)
    /\ \A s \in Slots : HasConn(s) => call[s].conn \notin Range(idle)
    /\ calls \in 0..load.calls /\ calm \in BOOLEAN /\ faults \in 0..load.faults

\* As long as no reset has run at the same time as another call, what a
\* client has been answered is in the database: the account it registered,
\* its sessions and addresses, and of a reset all or nothing, though a
\* statement of it failed half way (confirmPasswordReset).
AnswersAreDurable == calm => told \subseteq rows

\* As long as no reset has run at the same time as another call, every
\* session was opened with the password the account has now: a reset ends the
\* sessions of before (CUS-004).
ResetEndsEverySession ==
    calm => \A s \in Of(rows, "session") : Account(s.email, s.pw) \in rows

\* Every call is answered, also one that waits for a row which a transaction
\* left open on an idle connection has locked.
EveryCallIsAnswered == \A s \in Slots : []<>(~Active(s))
=============================================================================
