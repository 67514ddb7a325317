---------------------------- MODULE DesignTable ----------------------------
(***************************************************************************)
(* The transition table of docs/mvp/03-design.md section 7.4, row by row,  *)
(* as the reference the machine is compared with: the design calls the     *)
(* table the oracle and says the machine rejects every pair not listed.    *)
(*                                                                         *)
(* The one variable is a question put to the machine (a state, an event    *)
(* and a context); every question is an initial state, and Advance lets    *)
(* its clock run.                                                          *)
(***************************************************************************)
EXTENDS BookingMachine

CONSTANTS Clocks,       \* the times a question may be asked at
          SlotOpens,    \* the start of the slot
          CancelWindow, \* cancelFullRefundHours
          Deadlines     \* response deadlines, NoDeadline among them

ASSUME TimesAreIntegers ==
    /\ Clocks \subseteq Int
    /\ Deadlines \subseteq Int
    /\ SlotOpens \in Int
    /\ CancelWindow \in Int

VARIABLE question

Contexts ==
    [ clock : Clocks, slotStart : {SlotOpens}, actor : Actors,
      responseDeadline : Deadlines, cancelFullRefundHours : {CancelWindow},
      alreadyCaptured : BOOLEAN ]

Questions == [state : BookingState, event : BookingEvent, ctx : Contexts]

\* A question may also be about something else (Oracles).
AboutBooking == "state" \in DOMAIN question

Ask == question \in Questions

\* Time passes between two questions about the same booking.
Advance ==
    /\ AboutBooking
    /\ question.ctx.clock + 1 \in Clocks
    /\ question' = [question EXCEPT !.ctx.clock = @ + 1]

---------------------------------------------------------------------------
\* The table.

Line(from, event, actor, to, run, hold, notify) ==
    [ from |-> from, event |-> event, actor |-> actor, to |-> to, run |-> run,
      hold |-> hold, notify |-> notify ]

Both == {"customer", "provider"}

\* The rows whose guard holds of a context.  The design's guard on
\* AutoCompleteElapsed (now >= slot_end + window) is not the machine's to check,
\* its context has no slot end: the poller's claim applies it (BookingLifecycle).
Rows(ctx) ==
    LET back == IF ctx.alreadyCaptured THEN "Refund100" ELSE "ReleaseAuth"
        half == IF ctx.alreadyCaptured THEN "Refund50" ELSE "Capture50"
        hoursOut == ctx.slotStart - ctx.clock
        started == ctx.clock >= ctx.slotStart
        When(guard, row) == IF guard THEN {row} ELSE {}
    IN  { Line("PENDING", "ProviderAccepts", "provider", "CONFIRMED",
              << >>, FALSE, Both),
          Line("PENDING", "ProviderDeclines", "provider", "DECLINED",
              <<"ReleaseAuth">>, TRUE, {"customer"}),
          Line("PENDING", "CustomerCancels", "customer", "CANCELLED_BY_CUSTOMER",
              <<"ReleaseAuth">>, TRUE, {"provider"}),
          Line("CONFIRMED", "ProviderCancels", "provider", "CANCELLED_BY_PROVIDER",
              <<back, "RecordStanding">>, TRUE, {"customer"}),
          Line("CONFIRMED", "AutoCompleteElapsed", "system", "COMPLETED",
              <<"Capture100", "Split">>, FALSE, Both) }
        \cup When(ctx.responseDeadline # NoDeadline /\ ctx.clock >= ctx.responseDeadline,
              Line("PENDING", "ResponseDeadlinePassed", "system", "EXPIRED",
                  <<"ReleaseAuth", "RecordStanding">>, TRUE, Both))
        \cup When(hoursOut > ctx.cancelFullRefundHours,
              Line("CONFIRMED", "CustomerCancels", "customer",
                  "CANCELLED_BY_CUSTOMER", <<back>>, TRUE, {"provider"}))
        \cup When(hoursOut <= ctx.cancelFullRefundHours,
              Line("CONFIRMED", "CustomerCancels", "customer",
                  "CANCELLED_BY_CUSTOMER", <<half, "Split">>, TRUE, {"provider"}))
        \cup When(started,
              Line("CONFIRMED", "ProviderCompletes", "provider", "COMPLETED",
                  <<"Capture100", "Split">>, FALSE, Both))
        \cup When(started,
              Line("CONFIRMED", "ProviderReportsCustomerNoShow", "provider",
                  "NO_SHOW_CUSTOMER", <<"Capture100", "Split">>, FALSE, {"customer"}))
        \cup When(started,
              Line("CONFIRMED", "CustomerReportsProviderNoShow", "customer",
                  "NO_SHOW_PROVIDER", <<back, "RecordStanding">>, FALSE, {"provider"}))

\* The row a question falls under, if the table lists one: a set of at most one.
RowsFor(q) ==
    { r \in Rows(q.ctx) : /\ r.from = q.state
                          /\ r.event = q.event
                          /\ r.actor = q.ctx.actor }

---------------------------------------------------------------------------
\* The machine takes exactly the (state, event, actor, guard) combinations the
\* design lists and answers each with the listed state and effects.  A row
\* missing on either side, a boundary off by one hour or two effects in the
\* other order is a violation.
MachineMatchesDesign ==
    AboutBooking =>
    LET eff == Effects(question.state, question.event, question.ctx)
        answer == Line(question.state, question.event, question.ctx.actor,
                      NextState(question.event), eff.run, eff.releasesHold,
                      eff.notify)
    IN  RowsFor(question) =
          IF Permits(question.state, question.event, question.ctx)
            THEN {answer} ELSE {}

\* Time opens doors and closes none, and what a caller was told an hour ago is
\* still the answer now, but for one row: cancelling a CONFIRMED booking turns
\* from giving everything back to settling half, and never the other way.  This
\* is what lets a handler use an answer it computed before it waited for a lock.
OnlyDearerStep ==
    Permits(question.state, question.event, question.ctx)
      => /\ Permits(question.state, question.event, question'.ctx)
         /\ \/ Effects(question.state, question.event, question'.ctx)
                  = Effects(question.state, question.event, question.ctx)
            \/ /\ question.state = "CONFIRMED"
               /\ question.event = "CustomerCancels"
               /\ ~LateCancel(question.ctx)
               /\ LateCancel(question'.ctx)

\* The same of every step, as a property of the behaviour: what the machine has once
\* answered, it takes back for the price of a cancellation only.
TimeOnlyMakesCancellingDearer == [][AboutBooking => OnlyDearerStep]_question
=============================================================================
