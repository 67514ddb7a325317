----------------------------- MODULE MCPayouts ------------------------------
(* One provider with one booking, which may be settled twice; half a unit of *)
(* the commission is rounded up.                                             *)
EXTENDS Payouts, TLC

CONSTANTS b1, p1

MCOwnerOf == [b \in Bookings |-> p1]
=============================================================================
