------------------------------ MODULE MCIdentity ----------------------------
(* One account's calls, two at a time, over a pool of two connections: any  *)
(* two calls and an error, or any three resets and sign-outs, which is what *)
(* it takes for two statements to wait for each other.                      *)
EXTENDS Identity, TLC

MCLoads ==
    { [kinds |-> Kinds, calls |-> 2, faults |-> 1],
      [kinds |-> {"confirmReset", "signOut"}, calls |-> 3, faults |-> 0] }
=============================================================================
