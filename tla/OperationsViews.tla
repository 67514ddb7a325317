--------------------------- MODULE OperationsViews ---------------------------
(***************************************************************************)
(* What the operators' pages say of the bookings: the standing page        *)
(* (OPS-004) and the bookings' half of the funnel (OPS-006), computed from *)
(* the rows that requests, the poller and the effects have left behind     *)
(* (BookingService.standingStats, funnelStats and the routes of            *)
(* apps/api/src/admin-routes.ts).  The pages are queries: they are         *)
(* operators on the state of BookingLifecycle, and add no variable to it.  *)
(* The funnel is taken over a window that holds every row.                 *)
(***************************************************************************)
EXTENDS BookingLifecycle, FiniteSetsExt

CONSTANT CancellationThreshold   \* standingCancellationThreshold

ASSUME ThresholdIsPositive == CancellationThreshold \in Nat \ {0}

BookingsAt(p) == {b \in Bookings : ProviderOf[b] = p /\ state[b] # "NONE"}

\* count(*) of the standing events of a kind, over a provider's bookings.
Events(p, kind) ==
    MapThenSumSet(LAMBDA b : Cardinality({i \in DOMAIN standing[b] : standing[b][i] = kind}),
                  BookingsAt(p))

StandingStats(p) ==
    [ cancellationCount |-> Events(p, "provider_cancel"),
      noShowCount |-> Events(p, "provider_no_show"),
      responseMissCount |-> Events(p, "response_miss"),
      totalBookings |-> Cardinality(BookingsAt(p)),
      completedCount |-> Cardinality({b \in BookingsAt(p) : state[b] = "COMPLETED"}) ]

\* GET /admin/standing marks a provider who cancels too often.
Flagged(p) == StandingStats(p).cancellationCount >= CancellationThreshold

\* The bookings with a state_transitions row to a state: the audit rows, and the
\* rows a failed effect or a failed attempt of the poller leaves.
Reached(to) ==
    {b \in Bookings : \/ \E i \in DOMAIN audit[b] : audit[b][i].to = to
                      \/ \E i \in DOMAIN alarms[b] : alarms[b][i].state = to}

FunnelStats ==
    [ created |-> Cardinality({b \in Bookings : state[b] # "NONE"}),
      confirmed |-> Cardinality(Reached("CONFIRMED")),
      completed |-> Cardinality(Reached("COMPLETED")),
      declined |-> Cardinality(Reached("DECLINED")),
      expired |-> Cardinality(Reached("EXPIRED")) ]

---------------------------------------------------------------------------
(* Properties.                                                             *)

\* How often the bookings at a provider have really come to a state.
Deserved(p, to) ==
    MapThenSumSet(LAMBDA b : Cardinality(TransitionsTo(b, {to})), BookingsAt(p))

\* OPS-004, OPS-006: no crash, failed effect or second poller makes a page say
\* more than has happened.  Every event counted against a provider has a
\* transition of its own that deserves it, so that nobody is flagged whose
\* cancellations do not add up to the threshold; a missed deadline, a
\* cancellation and a no-show are never confused; and the funnel narrows.
PagesAreDeserved ==
    /\ \A b \in Bookings :
         LET p == ProviderOf[b]
             stats == StandingStats(p)
         IN  /\ stats.responseMissCount <= Deserved(p, "EXPIRED")
             /\ stats.noShowCount <= Deserved(p, "NO_SHOW_PROVIDER")
             /\ stats.cancellationCount <= Deserved(p, "CANCELLED_BY_PROVIDER")
             /\ Flagged(p) => Deserved(p, "CANCELLED_BY_PROVIDER") >= CancellationThreshold
    /\ FunnelStats.completed <= FunnelStats.confirmed
    /\ FunnelStats.confirmed <= FunnelStats.created
    /\ FunnelStats.declined <= FunnelStats.created
    /\ FunnelStats.expired <= FunnelStats.created
=============================================================================
