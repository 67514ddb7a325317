------------------------------ MODULE SlotSale ------------------------------
(***************************************************************************)
(* What POST /bookings promises the customers who compete for one slot     *)
(* (BOK-002), whatever happens to payments and processes underneath: the   *)
(* slot is sold to one customer at a time, "booked" is told only to one    *)
(* it was sold to, and "just taken" only to one who found it held by       *)
(* another sale.  CreateSaga implements it.                                *)
(***************************************************************************)
CONSTANT Calls

VARIABLES held,     \* the calls whose booking holds the slot
          stage     \* how far each call is, and what it was told

Stages == {"asking", "sold", "lost", "booked", "taken", "dropped"}

Init ==
    /\ held = {}
    /\ stage = [c \in Calls |-> "asking"]

Sell(c) ==
    /\ stage[c] = "asking"
    /\ held = {}
    /\ held' = {c}
    /\ stage' = [stage EXCEPT ![c] = "sold"]

Lose(c) ==
    /\ stage[c] = "asking"
    /\ held # {}
    /\ stage' = [stage EXCEPT ![c] = "lost"]
    /\ UNCHANGED held

TellBooked(c) ==
    /\ stage[c] = "sold"
    /\ stage' = [stage EXCEPT ![c] = "booked"]
    /\ UNCHANGED held

TellTaken(c) ==
    /\ stage[c] = "lost"
    /\ stage' = [stage EXCEPT ![c] = "taken"]
    /\ UNCHANGED held

\* An error, or a process that died before it could answer.
Drop(c) ==
    /\ stage[c] \in {"asking", "sold", "lost"}
    /\ stage' = [stage EXCEPT ![c] = "dropped"]
    /\ UNCHANGED held

\* A decline, a cancellation or an expiry frees the slot.
GiveBack(c) ==
    /\ c \in held
    /\ held' = held \ {c}
    /\ UNCHANGED stage

Next ==
    \E c \in Calls :
        \/ Sell(c) \/ Lose(c) \/ TellBooked(c) \/ TellTaken(c) \/ Drop(c)
        \/ GiveBack(c)

Spec == Init /\ [][Next]_<<held, stage>>
=============================================================================
