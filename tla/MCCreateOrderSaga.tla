-------------------------- MODULE MCCreateOrderSaga --------------------------
(***************************************************************************)
(* Small instances of the saga: up to two orders of one consumer at one    *)
(* restaurant, each costing one unit of money.                             *)
(***************************************************************************)
EXTENDS CreateOrderSaga

CONSTANTS o1, o2, c1, c2, r1

MCSharedConsumer == [o \in Orders |-> c1]
MCRestaurantOf == [o \in Orders |-> r1]
MCTotal == [o \in Orders |-> 1]
=============================================================================
