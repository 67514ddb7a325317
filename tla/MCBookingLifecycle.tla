------------------------ MODULE MCBookingLifecycle ------------------------
(***************************************************************************)
(* Small instances of BookingLifecycle.  Hours are scaled down: b1's slot  *)
(* starts at 3, and the windows are chosen so that a booking made at 0 is  *)
(* only set up, and one made later is held; a deadline may fall before the *)
(* slot or be cut off by it; an accept may or may not leave time for a     *)
(* reminder; a cancel may be early or late.                                *)
(***************************************************************************)
EXTENDS OperationsViews, TLC

CONSTANTS b1, b2, anna

\* b2 starts while b1 lasts, at the same provider.
MCProviderOf == [b \in Bookings |-> anna]
MCSlotStart == [b \in Bookings |-> IF b = b1 THEN 3 ELSE 4]
MCSlotEnd == [b \in Bookings |-> IF b = b1 THEN 5 ELSE 6]

MCEarlySlotStart == [b \in Bookings |-> 2]
MCEarlySlotEnd == [b \in Bookings |-> 3]

RequestSymmetry == Permutations(Requests)
=============================================================================
