---------------------------- MODULE MCMppSession ----------------------------
(***************************************************************************)
(* Small instances of MppSession: budgets and deposits of a few micros,    *)
(* chosen so that the budget is met exactly by some orders of calls and    *)
(* exceeded by others, and the deposit may be smaller than the budget.     *)
(***************************************************************************)
EXTENDS MppSession, TLC

CONSTANTS c1, c2, c3, c4, o1, o2, k1, k2, hash1, hash2

\* A call, its retry, and a different and dearer request share a key; a
\* fourth call has its own.
SharedKeyOf == [c \in Calls |-> IF c = c4 THEN k2 ELSE k1]
SharedBodyOf == [c \in Calls |-> IF c = c3 THEN hash2 ELSE hash1]
SharedPriceOf == [c \in Calls |-> IF c = c3 THEN 2 ELSE 1]

SessionSymmetry == Permutations({c1, c2}) \cup Permutations({o1, o2})
=============================================================================
