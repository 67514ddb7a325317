----------------------------- MODULE MoneyBook ------------------------------
(***************************************************************************)
(* What the operators who correct the payments of one booking are promised *)
(* (OPS-002, OPS-003, PAY-002), whatever the calls that move its money run *)
(* into: an operation moves money once; nobody puts it down before it is   *)
(* on file as done or as an exception, and it stays on file; on file as    *)
(* done is exactly what was moved; and what is attested has been done.     *)
(* Payments implements it.                                                 *)
(***************************************************************************)
EXTENDS Naturals, Sequences

CONSTANTS
    Calls,     \* who works on operations
    Keys,      \* the operations
    Capture,   \* the one that charges the card
    Reversal,  \* the one that gives a charge back
    Amounts,
    Free       \* no operation

VARIABLES
    moved,     \* by operation: what it has moved
    file,      \* by operation: what the books say of it
    hand,      \* by call: the operation it has in hand, if it died with it too
    trail      \* the corrections attested

Blank == [says |-> "nothing", amount |-> 0]
Done(amount) == [says |-> "done", amount |-> amount]
Exception == [says |-> "exception", amount |-> 0]

Init ==
    /\ moved = [k \in Keys |-> 0]
    /\ file = [k \in Keys |-> Blank]
    /\ hand = [c \in Calls |-> Free]
    /\ trail = << >>

PickUp(c, k) ==
    /\ hand[c] = Free
    /\ hand' = [hand EXCEPT ![c] = k]
    /\ UNCHANGED <<moved, file, trail>>

\* Once, and of a charge that is given back the whole.
Move(c, k, amount) ==
    /\ hand[c] = k
    /\ moved[k] = 0
    /\ k = Reversal => amount = moved[Capture]
    /\ moved' = [moved EXCEPT ![k] = amount]
    /\ UNCHANGED <<file, hand, trail>>

Settle(c, k) ==
    /\ hand[c] = k
    /\ moved[k] > 0
    /\ file' = [file EXCEPT ![k] = Done(moved[k])]
    /\ UNCHANGED <<moved, hand, trail>>

\* What failed, or may have, goes to the operators.
Refer(c, k) ==
    /\ hand[c] = k
    /\ file' = [file EXCEPT ![k] = Exception]
    /\ hand' = [hand EXCEPT ![c] = Free]
    /\ UNCHANGED <<moved, trail>>

\* Nothing that has moved money is put down unseen.
PutDown(c, k) ==
    /\ hand[c] = k
    /\ file[k] # Blank
    /\ hand' = [hand EXCEPT ![c] = Free]
    /\ UNCHANGED <<moved, file, trail>>

Attest(c, k, amount) ==
    /\ hand[c] = k
    /\ moved[k] > 0
    /\ file[k] # Blank
    /\ k # Capture
    /\ k = Reversal => amount = moved[Capture]
    /\ trail' = Append(trail, [key |-> k, amount |-> amount])
    /\ hand' = [hand EXCEPT ![c] = Free]
    /\ UNCHANGED <<moved, file>>

Next ==
    \E c \in Calls, k \in Keys :
        \/ PickUp(c, k) \/ Settle(c, k) \/ Refer(c, k) \/ PutDown(c, k)
        \/ \E amount \in Amounts : Move(c, k, amount) \/ Attest(c, k, amount)

Spec == Init /\ [][Next]_<<moved, file, hand, trail>>
=============================================================================
