----------------------------- MODULE MCPayments -----------------------------
(* Three or four calls on one booking whose card was held for two units: a  *)
(* late cancellation captures one, a completion two.                        *)
EXTENDS Payments, TLC

CallSymmetry == Permutations(Calls)
=============================================================================
