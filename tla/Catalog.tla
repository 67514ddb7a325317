------------------------------- MODULE Catalog -----------------------------
(***************************************************************************)
(* One provider's way to customers: the vetting packet and the decisions   *)
(* on it, the go-live gate, suspension, and the reviews with the rating    *)
(* they add up to (libs/services/provider-catalog/src/catalog-service.ts,  *)
(* apps/api/src/catalog-routes.ts, go-live.ts, the OPS-004 routes of       *)
(* admin-routes.ts and the review route of booking-routes.ts).  Providers  *)
(* do not interact, so one is enough.                                      *)
(*                                                                         *)
(* Submissions, decisions, go-live calls and reviews read the provider's   *)
(* row, decide, and write without a lock; each read and each write is a    *)
(* step.  Documents, services and weekly rules are counted, not described. *)
(***************************************************************************)
EXTENDS Naturals, FiniteSets, FiniteSetsExt

CONSTANTS
    Calls,         \* bound: such calls under way at once
    Bookings,      \* the provider's COMPLETED bookings
    Ratings,       \* the ratings customers give
    PortfolioMin   \* photographs a packet needs (5)

ASSUME RatingsArePositive == Ratings \subseteq Nat \ {0}
ASSUME PacketNeedsPhotographs == PortfolioMin \in Nat \ {0}

VARIABLES
    row,        \* catalog.providers: status, listed, rating_sum, rating_count
    docs,       \* catalog.vetting_documents, how many of each kind
    services,   \* catalog.services: is there any
    weekly,     \* availability.weekly_rules: is there any
    connect,    \* payments.connect_accounts.status
    reviews,    \* catalog.reviews: the rating of each booking, or 0
    replied,    \* the bookings whose review has the provider's reply
    announced,  \* catalog.outbox has ProviderApproved
    relisted,   \* history: an admin has listed the provider
    call        \* per slot: the call under way

vars == <<row, docs, services, weekly, connect, reviews, replied, announced, relisted, call>>

Statuses == {"draft", "pending_review", "interview_scheduled", "approved", "rejected"}
DocKinds == {"government_id", "credential", "portfolio"}
Decisions == {"interview", "approve", "reject", "request_more"}

NoCall == [op |-> "none"]

---------------------------------------------------------------------------
(* What the code decides.                                                  *)

\* Mutation: five photographs are not asked for.
PapersOnly == docs["government_id"] > 0 /\ docs["credential"] > 0

\* missingItems finds nothing missing.
PacketComplete ==
    /\ docs["government_id"] > 0
    /\ docs["credential"] > 0
    /\ docs["portfolio"] >= PortfolioMin

MaySubmit(status) == status \in {"draft", "rejected"}

InReview == {"pending_review", "interview_scheduled"}

\* Mutation: approval does not wait for the interview.
NextStatusNoInterview(status, action) ==
    CASE action = "interview" /\ status = "pending_review" -> {"interview_scheduled"}
      [] action = "approve" /\ status \in InReview -> {"approved"}
      [] action = "reject" /\ status \in InReview -> {"rejected"}
      [] action = "request_more" /\ status \in InReview -> {"draft"}
      [] OTHER -> {}

\* nextStatus; no status when the decision is refused.
NextStatus(status, action) ==
    CASE action = "interview" /\ status = "pending_review" -> {"interview_scheduled"}
      [] action = "approve" /\ status = "interview_scheduled" -> {"approved"}
      [] action = "reject" /\ status \in InReview -> {"rejected"}
      [] action = "request_more" /\ status \in InReview -> {"draft"}
      [] OTHER -> {}

\* requirePublic.
Public(r) == r.listed /\ r.status = "approved"

---------------------------------------------------------------------------
Init ==
    /\ row = [status |-> "draft", listed |-> FALSE, sum |-> 0, count |-> 0]
    /\ docs = [k \in DocKinds |-> 0]
    /\ services = FALSE
    /\ weekly = FALSE
    /\ connect = "not_started"
    /\ reviews = [b \in Bookings |-> 0]
    /\ replied = {}
    /\ announced = FALSE
    /\ relisted = FALSE
    /\ call = [c \in Calls |-> NoCall]

Over(c) == call' = [call EXCEPT ![c] = NoCall]

\* A call has read the provider's row (ensureDraft, getById), and keeps what it
\* needs of it.
Begins(c, new) ==
    /\ call[c] = NoCall
    /\ call' = [call EXCEPT ![c] = new]
    /\ UNCHANGED <<row, docs, services, weekly, connect, reviews, replied, announced, relisted>>

Reads(c, op, arg, pc) == Begins(c, [op |-> op, arg |-> arg, pc |-> pc, row |-> row])

At(c, op, pc) == call[c] # NoCall /\ call[c].op = op /\ call[c].pc = pc

SetStatus(status) == row' = [row EXCEPT !.status = status]
SetListed(listed) == row' = [row EXCEPT !.listed = listed]

\* submit: the row, then the documents, then the status.
Submit(c) == MaySubmit(row.status) /\ Reads(c, "submit", "none", "check")

CheckPacket(c) ==
    /\ At(c, "submit", "check")
    /\ IF PacketComplete THEN call' = [call EXCEPT ![c].pc = "write"] ELSE Over(c)
    /\ UNCHANGED <<row, docs, services, weekly, connect, reviews, replied, announced, relisted>>

WriteSubmission(c) ==
    /\ At(c, "submit", "write")
    /\ SetStatus("pending_review")
    /\ Over(c)
    /\ UNCHANGED <<docs, services, weekly, connect, reviews, replied, announced, relisted>>

\* decide, on the status read; an approval is announced with it.
Decide(c, action) ==
    /\ NextStatus(row.status, action) # {}
    /\ Reads(c, "decide", action, "write")

WriteDecision(c) ==
    /\ At(c, "decide", "write")
    /\ \E next \in NextStatus(call[c].row.status, call[c].arg) : SetStatus(next)
    /\ announced' = (announced \/ call[c].arg = "approve")
    /\ Over(c)
    /\ UNCHANGED <<docs, services, weekly, connect, reviews, replied, relisted>>

\* GET and POST /catalog/me/go-live: the row, then the gate's other three parts
\* one after the other, then listed.
GoLive(c, want) ==
    Begins(c, [op |-> "goLive", pc |-> "connect", want |-> want,
               ready |-> row.status = "approved", listed |-> row.listed])

\* One part of the gate is read.
ReadsPart(c, part, read, next) ==
    /\ At(c, "goLive", part)
    /\ call' = [call EXCEPT ![c].ready = @ /\ read, ![c].pc = next]
    /\ UNCHANGED <<row, docs, services, weekly, connect, reviews, replied, announced, relisted>>

ReadConnect(c) == ReadsPart(c, "connect", connect = "complete", "services")
ReadServices(c) == ReadsPart(c, "services", services, "weekly")

\* The last part, and what follows from the four (evaluateGoLive).
EvaluateGoLive(c) ==
    /\ At(c, "goLive", "weekly")
    /\ LET ready == call[c].ready /\ weekly
           want == call[c].want
           writes == \/ want = "off"
                     \/ want = "on" /\ ready
                     \/ want = "look" /\ ~ready /\ call[c].listed
       IN IF writes THEN call' = [call EXCEPT ![c].pc = "write"] ELSE Over(c)
    /\ UNCHANGED <<row, docs, services, weekly, connect, reviews, replied, announced, relisted>>

WriteListed(c) ==
    /\ At(c, "goLive", "write")
    /\ SetListed(call[c].want = "on")
    /\ Over(c)
    /\ UNCHANGED <<docs, services, weekly, connect, reviews, replied, announced, relisted>>

\* addReview of a COMPLETED booking whose provider is public.
Review(c, b, rating) ==
    /\ Public(row)
    /\ Reads(c, "review", [booking |-> b, rating |-> rating], "write")

\* Mutation: the sum that was read is written back.
SumRead(c) == call[c].row.sum + call[c].arg.rating

RatingSum(c) == row.sum + call[c].arg.rating

\* The review and the rating in one transaction; a second review of a booking
\* violates the unique index and undoes both.
WriteReview(c) ==
    /\ At(c, "review", "write")
    /\ LET b == call[c].arg.booking
       IN IF reviews[b] = 0
          THEN /\ reviews' = [reviews EXCEPT ![b] = call[c].arg.rating]
               /\ row' = [row EXCEPT !.sum = RatingSum(c), !.count = @ + 1]
          ELSE UNCHANGED <<reviews, row>>
    /\ Over(c)
    /\ UNCHANGED <<docs, services, weekly, connect, replied, announced, relisted>>

\* The process dies with the call.
Crash(c) ==
    /\ call[c] # NoCall
    /\ Over(c)
    /\ UNCHANGED <<row, docs, services, weekly, connect, reviews, replied, announced, relisted>>

---------------------------------------------------------------------------
(* Calls of one statement or one transaction.                              *)

\* Documents and services are only ever added; more of a kind than the packet
\* needs makes no difference.
AddDocument(k) ==
    /\ docs[k] < (IF k = "portfolio" THEN PortfolioMin ELSE 1)
    /\ docs' = [docs EXCEPT ![k] = @ + 1]
    /\ UNCHANGED <<row, services, weekly, connect, reviews, replied, announced, relisted, call>>

AddService ==
    /\ services' = TRUE
    /\ UNCHANGED <<row, docs, weekly, connect, reviews, replied, announced, relisted, call>>

\* replyToReview, of the provider's own reviews; listed or not, and again to
\* replace what was said.
Reply(b) ==
    /\ reviews[b] # 0
    /\ replied' = replied \cup {b}
    /\ UNCHANGED <<row, docs, services, weekly, connect, reviews, announced, relisted, call>>

ReplaceWeekly(any) ==
    /\ weekly' = any
    /\ UNCHANGED <<row, docs, services, connect, reviews, replied, announced, relisted, call>>

\* startOnboarding puts a completed account back to pending, too.
StartOnboarding ==
    /\ connect' = "pending"
    /\ UNCHANGED <<row, docs, services, weekly, reviews, replied, announced, relisted, call>>

CompleteStub ==
    /\ connect' = "complete"
    /\ UNCHANGED <<row, docs, services, weekly, reviews, replied, announced, relisted, call>>

\* adminSetListed asks nothing of the provider.
Suspend ==
    /\ SetListed(FALSE)
    /\ UNCHANGED <<docs, services, weekly, connect, reviews, replied, announced, relisted, call>>

Relist ==
    /\ SetListed(TRUE)
    /\ relisted' = TRUE
    /\ UNCHANGED <<docs, services, weekly, connect, reviews, replied, announced, call>>

Next ==
    \/ \E c \in Calls :
        \/ Submit(c) \/ CheckPacket(c) \/ WriteSubmission(c)
        \/ (\E action \in Decisions : Decide(c, action)) \/ WriteDecision(c)
        \/ (\E want \in {"look", "on", "off"} : GoLive(c, want))
        \/ ReadConnect(c) \/ ReadServices(c)
        \/ EvaluateGoLive(c) \/ WriteListed(c)
        \/ (\E b \in Bookings, rating \in Ratings : Review(c, b, rating))
        \/ WriteReview(c)
        \/ Crash(c)
    \/ \E k \in DocKinds : AddDocument(k)
    \/ AddService
    \/ \E b \in Bookings : Reply(b)
    \/ \E any \in BOOLEAN : ReplaceWeekly(any)
    \/ StartOnboarding \/ CompleteStub
    \/ Suspend \/ Relist

Spec == Init /\ [][Next]_vars

---------------------------------------------------------------------------
(* Properties.                                                             *)

TypeOK ==
    /\ row \in [status : Statuses, listed : BOOLEAN, sum : Nat, count : Nat]
    /\ docs \in [DocKinds -> 0..PortfolioMin]
    /\ services \in BOOLEAN /\ weekly \in BOOLEAN
    /\ connect \in {"not_started", "pending", "complete"}
    /\ reviews \in [Bookings -> Ratings \cup {0}]
    /\ replied \subseteq Bookings
    /\ announced \in BOOLEAN /\ relisted \in BOOLEAN

\* PRV-002, PRV-003: the moves of the vetting flow.
Flow ==
    { <<"draft", "pending_review">>, <<"rejected", "pending_review">>,
      <<"pending_review", "interview_scheduled">>,
      <<"interview_scheduled", "approved">> }
    \cup (InReview \X {"rejected", "draft"})

\* A call whose row has changed since it read it.
Stale(c) ==
    /\ call[c] # NoCall
    /\ call[c].op \in {"submit", "decide"}
    /\ call[c].row.status # row.status

\* The status moves as the vetting flow says, or a submission or a decision
\* that was made on an older status overwrites it: an approval cannot be
\* reached or undone in any other way (decide, submit).
OnlyStaleDecisionsLeaveTheFlow ==
    [][ row'.status # row.status =>
          \/ <<row.status, row'.status>> \in Flow
          \/ \E c \in Calls : Stale(c) /\ call'[c] = NoCall ]_vars

\* Whatever overtakes whatever, a provider customers can see has a complete
\* packet and an announced approval, and something to offer unless an admin
\* has listed it by hand (PRV-002, PRV-005).
PublicIsVetted ==
    Public(row) =>
      /\ \A k \in DocKinds : docs[k] > 0
      /\ docs["portfolio"] >= PortfolioMin
      /\ announced
      /\ services \/ relisted

\* The stored aggregate is that of the reviews, though reviews of different
\* bookings, and two of one booking, are written at the same time (RAT-002); and
\* a provider has replied to none that does not exist (RAT-003).
RatingIsThatOfTheReviews ==
    LET rated == {b \in Bookings : reviews[b] # 0}
    IN /\ row.count = Cardinality(rated)
       /\ row.sum = MapThenSumSet(LAMBDA b : reviews[b], rated)
       /\ replied \subseteq rated
=============================================================================
