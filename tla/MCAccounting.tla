---------------------------- MODULE MCAccounting ----------------------------
(***************************************************************************)
(* Two consumers with one order each, of which the second has a negative   *)
(* total, and gRPC calls that move the amounts of MCAmounts.               *)
(***************************************************************************)
EXTENDS Accounting, TLC

CONSTANTS o1, o2, c1, c2, r1, rpc1, rpc2

MCConsumerOf == [o \in Orders |-> IF o = o1 THEN c1 ELSE c2]
MCRestaurantOf == [o \in Orders |-> r1]
MCTotal == [o \in Orders |-> IF o = o1 THEN 1 ELSE -1]
MCAmounts == {-1, 1}

\* The gRPC calls do the same things.
MCSymmetry == Permutations({rpc1, rpc2})
=============================================================================
