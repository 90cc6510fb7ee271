---------------------------- MODULE MCLiveAuthority ----------------------------
(* Two runs that together exceed one of the ceilings, and two receipts. *)
EXTENDS LiveAuthority, TLC

CONSTANTS r1, r2, c1, c2

ReserveOf == [r \in Runs |-> IF r = r1 THEN 2 ELSE 1]
CapOf     == [c \in Receipts |-> IF c = c1 THEN 3 ELSE 2]
ExpiryOf  == [c \in Receipts |-> IF c = c1 THEN 2 ELSE 4]

WorkerSymmetry == Permutations(Workers)
=============================================================================
