-------------------------- MODULE MCMppSettlement --------------------------
(***************************************************************************)
(* Small instances of MppSettlement: one channel, one or two calls, and    *)
(* attempts of each kind racing to settle what they spent.                 *)
(***************************************************************************)
EXTENDS MppSettlement

CONSTANTS c1, c2, o1, k1, k2, hash1, payer1, server1, sweep1

OwnKeyOf == [c \in Calls |-> IF c = c1 THEN k1 ELSE k2]
OwnBodyOf == [c \in Calls |-> hash1]
UnitPriceOf == [c \in Calls |-> 1]
=============================================================================
