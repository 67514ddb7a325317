--------------------------- MODULE BookingMachine ---------------------------
(***************************************************************************)
(* The pure booking state machine of                                       *)
(* libs/domain/booking-state-machine/src/index.ts: which event is taken in *)
(* which state, by whom and when, where it leads, and the effects it asks  *)
(* the booking service to execute.  It has no variables.                   *)
(*                                                                         *)
(* Times are whole hours.  An effect list is a record: `run` is the list   *)
(* of the effects executeEffects acts on, in order; `releasesHold` and     *)
(* `notify` stand for ReleaseHold and Notify, which the list also names    *)
(* and executeEffects skips.                                               *)
(***************************************************************************)
EXTENDS Integers, Sequences

Holding == {"PENDING", "CONFIRMED"}

Terminal ==
    {"DECLINED", "EXPIRED", "COMPLETED", "CANCELLED_BY_CUSTOMER",
     "CANCELLED_BY_PROVIDER", "NO_SHOW_CUSTOMER", "NO_SHOW_PROVIDER"}

BookingState == Holding \cup Terminal

\* The events each non-terminal state takes; every other pair is rejected.
PendingEvents ==
    {"ProviderAccepts", "ProviderDeclines", "ResponseDeadlinePassed",
     "CustomerCancels"}

ConfirmedEvents ==
    {"CustomerCancels", "ProviderCancels", "ProviderCompletes",
     "AutoCompleteElapsed", "ProviderReportsCustomerNoShow",
     "CustomerReportsProviderNoShow"}

BookingEvent == PendingEvents \cup ConfirmedEvents

SystemEvents == {"ResponseDeadlinePassed", "AutoCompleteElapsed"}
CustomerEvents == {"CustomerCancels", "CustomerReportsProviderNoShow"}

Actors == {"customer", "provider", "system"}

\* The actor the machine requires for an event.
RequiredActor(event) ==
    CASE event \in SystemEvents -> "system"
      [] event \in CustomerEvents -> "customer"
      [] OTHER -> "provider"

\* context.responseDeadline left undefined by the caller.
NoDeadline == -1

\* min(createdAt + window, slotStart): never after the slot itself starts.
ComputeResponseDeadline(createdAt, slotStart, window) ==
    IF createdAt + window <= slotStart THEN createdAt + window ELSE slotStart

\* Mutation: the comparison with the deadline the wrong way round.
ResponseDeadlineAhead(ctx) ==
    ctx.responseDeadline # NoDeadline /\ ctx.clock <= ctx.responseDeadline

ResponseDeadlinePassed(ctx) ==
    ctx.responseDeadline # NoDeadline /\ ctx.clock >= ctx.responseDeadline

\* Mutation: the slot-start guards dropped.
GuardWithoutSlotStart(event, ctx) ==
    event = "ResponseDeadlinePassed" => ResponseDeadlinePassed(ctx)

\* What the machine checks beyond state and actor.  Accepting, declining,
\* cancelling and auto-completing have no time guard here.
Guard(event, ctx) ==
    CASE event = "ResponseDeadlinePassed" -> ResponseDeadlinePassed(ctx)
      [] event \in {"ProviderCompletes", "ProviderReportsCustomerNoShow",
                    "CustomerReportsProviderNoShow"} ->
            ctx.clock >= ctx.slotStart
      [] OTHER -> TRUE

EventsTakenIn(s) ==
    CASE s = "PENDING" -> PendingEvents
      [] s = "CONFIRMED" -> ConfirmedEvents
      [] OTHER -> {}

\* transition()'s outcome: "OK", or the code of the TransitionError it throws.
Verdict(s, event, ctx) ==
    IF s \in Terminal THEN "TERMINAL_STATE"
    ELSE IF event \notin EventsTakenIn(s) THEN "NO_SUCH_TRANSITION"
    ELSE IF ctx.actor # RequiredActor(event) THEN "UNAUTHORIZED_ACTOR"
    ELSE IF ~Guard(event, ctx) THEN "GUARD_FAILED"
    ELSE "OK"

\* Mutation: only the guard is looked at, the current state is not.
PermitsInAnyState(s, event, ctx) == Guard(event, ctx)

Permits(s, event, ctx) == Verdict(s, event, ctx) = "OK"

\* An event leads to one state, from whichever state it is taken.
NextState(event) ==
    CASE event = "ProviderAccepts" -> "CONFIRMED"
      [] event = "ProviderDeclines" -> "DECLINED"
      [] event = "ResponseDeadlinePassed" -> "EXPIRED"
      [] event = "CustomerCancels" -> "CANCELLED_BY_CUSTOMER"
      [] event = "ProviderCancels" -> "CANCELLED_BY_PROVIDER"
      [] event = "ProviderReportsCustomerNoShow" -> "NO_SHOW_CUSTOMER"
      [] event = "CustomerReportsProviderNoShow" -> "NO_SHOW_PROVIDER"
      [] OTHER -> "COMPLETED"

\* Mutation: off by one at the boundary, exactly cancelFullRefundHours out is refunded.
LateCancelStrict(ctx) == ctx.slotStart - ctx.clock < ctx.cancelFullRefundHours

\* The full refund needs strictly more than cancelFullRefundHours.
LateCancel(ctx) == ctx.slotStart - ctx.clock <= ctx.cancelFullRefundHours

Effect ==
    {"ReleaseAuth", "Capture100", "Capture50", "Refund100", "Refund50",
     "Split", "RecordStanding"}

\* Give the customer everything back: release the hold, or refund a capture.
FullReturn(ctx) == IF ctx.alreadyCaptured THEN "Refund100" ELSE "ReleaseAuth"

\* The effects executeEffects acts on, in the order the machine lists them.
RunEffects(s, event, ctx) ==
    CASE event = "ProviderAccepts" -> << >>
      [] event = "ProviderDeclines" -> <<"ReleaseAuth">>
      [] event = "ResponseDeadlinePassed" -> <<"ReleaseAuth", "RecordStanding">>
      [] event = "CustomerCancels" ->
            IF s = "CONFIRMED" /\ LateCancel(ctx)
              THEN IF ctx.alreadyCaptured THEN <<"Refund50", "Split">>
                                          ELSE <<"Capture50", "Split">>
              ELSE IF s = "CONFIRMED" THEN <<FullReturn(ctx)>>
                                      ELSE <<"ReleaseAuth">>
      [] event \in {"ProviderCancels", "CustomerReportsProviderNoShow"} ->
            <<FullReturn(ctx), "RecordStanding">>
      [] OTHER -> <<"Capture100", "Split">>

\* Who the Notify effect of an event names.
Recipients(event) ==
    CASE event \in {"ProviderDeclines", "ProviderCancels",
                    "ProviderReportsCustomerNoShow"} -> {"customer"}
      [] event \in CustomerEvents -> {"provider"}
      [] OTHER -> {"customer", "provider"}

\* The effects transition() returns.
Effects(s, event, ctx) ==
    [ run |-> RunEffects(s, event, ctx),
      releasesHold |-> event \in {"ProviderDeclines", "ResponseDeadlinePassed",
                                  "CustomerCancels", "ProviderCancels"},
      notify |-> Recipients(event) ]

\* The kind of the standing event a RecordStanding effect carries.
StandingKind(event) ==
    CASE event = "ResponseDeadlinePassed" -> "response_miss"
      [] event = "ProviderCancels" -> "provider_cancel"
      [] OTHER -> "provider_no_show"

StandingKinds == {"response_miss", "provider_cancel", "provider_no_show"}
=============================================================================
