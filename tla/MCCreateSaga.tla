---------------------------- MODULE MCCreateSaga ----------------------------
(* Small instances of CreateSaga: the slot starts at 2, so that a call at 0 *)
(* sets the card up and one at 1 holds it.                                  *)
EXTENDS CreateSaga, TLC

CONSTANTS c1, c2, c3, a1, a2

\* c1 and c2 are one customer's call and its retry, and alike; c3 is somebody else.
CallAndRetry == [c \in Calls |-> IF c = c3 THEN a2 ELSE a1]

RetriesAlike == Permutations({c1, c2})
=============================================================================
