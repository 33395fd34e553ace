---------------------------- MODULE MCApiGateway ----------------------------
(***************************************************************************)
(* One consumer's order of one restaurant, all owned by one user.          *)
(***************************************************************************)
EXTENDS ApiGateway

CONSTANTS o1, k1, r1

MCConsumerOf == [o \in Orders |-> k1]
MCRestaurantOf == [o \in Orders |-> r1]
=============================================================================
