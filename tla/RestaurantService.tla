-------------------------- MODULE RestaurantService --------------------------
(***************************************************************************)
(* The restaurant service: restaurants are created, and each one is        *)
(* announced by a RestaurantCreated event in the same transaction.  The    *)
(* event reaches every service that keeps a replica, some time later.      *)
(* Menus are data that no property looks at.                               *)
(***************************************************************************)
EXTENDS SagaMessages

VARIABLE restaurants   \* the restaurants table, and so the events sent

restaurantVars == <<restaurants>>

RestaurantInit == restaurants = {}

CreateRestaurant(r) ==
    /\ r \notin restaurants
    /\ restaurants' = restaurants \cup {r}
=============================================================================
