------------------------------ MODULE ApiGateway ------------------------------
(***************************************************************************)
(* From sign-up to drop-off: the API gateway and the services behind it.   *)
(* A user registers a consumer, a restaurant or a courier through the      *)
(* gateway, which has the owning service create it and then the auth       *)
(* service grant it to the user; what is granted lets the user order, cook *)
(* or drive.  An accepted ticket reaches the delivery service, which finds *)
(* a courier for it.                                                       *)
(*                                                                         *)
(* The gateway keeps nothing between the two calls of a registration, so   *)
(* an error of the second leaves the entity without an owner.  An access   *)
(* check and the call it lets through are one step, for grants stay.  The  *)
(* saga from CreateOrder to ConfirmTicket is one step too; it is modelled  *)
(* by CreateOrderSaga.                                                     *)
(***************************************************************************)
EXTENDS AuthService, ConsumerService, RestaurantService, KitchenService,
        DeliveryService, Functions

CONSTANTS
    HttpCalls,           \* registrations in flight
    MaxTicketEvents,     \* bound: what the kitchen publishes about a ticket
    MaxGatewayFailures,  \* bound: registrations that end between the two calls
    NoRequest

VARIABLES
    requests,            \* registration -> the user and what has been created
    gatewayFailures

gatewayVars == <<requests, gatewayFailures>>

vars == <<authVars, messageVars, consumerVars, restaurantVars, kitchenVars,
          deliveryVars, gatewayVars>>

Entities == Consumers \cup Restaurants \cup Couriers

Requests == [user : Users, entity : Entities]

ASSUME GatewayConstants ==
    /\ NoRequest \notin Requests
    /\ MaxGatewayFailures \in Nat
    /\ MaxTicketEvents \in Nat
    /\ Consumers \cap Restaurants = {}
    /\ Couriers \cap (Consumers \cup Restaurants) = {}

Init ==
    /\ AuthInit
    /\ MessagesInit
    /\ ConsumerInit
    /\ RestaurantInit
    /\ KitchenInit
    /\ DeliveryInit
    /\ requests = [h \in HttpCalls |-> NoRequest]
    /\ gatewayFailures = 0

-----------------------------------------------------------------------------
(* Registration. *)

SignUp(u) ==
    /\ CreateUser(u)
    /\ UNCHANGED <<messageVars, consumerVars, restaurantVars, kitchenVars,
                   deliveryVars, gatewayVars>>

\* The owning service has created e for u, its answer is on the way.
Registering(h, u, e) ==
    /\ requests[h] = NoRequest
    /\ HasToken(u)
    /\ requests' = [requests EXCEPT ![h] = [user |-> u, entity |-> e]]
    /\ UNCHANGED <<gatewayFailures, authVars>>

RegisterConsumer(h, u, c) ==
    /\ Registering(h, u, c)
    /\ CreateConsumer(c)
    /\ UNCHANGED <<restaurantVars, kitchenVars, deliveryVars>>

RegisterRestaurant(h, u, r) ==
    /\ Registering(h, u, r)
    /\ CreateRestaurant(r)
    /\ UNCHANGED <<messageVars, consumerVars, kitchenVars, deliveryVars>>

RegisterCourier(h, u, c) ==
    /\ Registering(h, u, c)
    /\ CreateCourier(c)
    /\ UNCHANGED <<messageVars, consumerVars, restaurantVars, kitchenVars>>

RequestEnds(h) ==
    /\ requests' = [requests EXCEPT ![h] = NoRequest]
    /\ UNCHANGED <<messageVars, consumerVars, restaurantVars, kitchenVars,
                   deliveryVars>>

\* Mutant: the answer goes out without the grant.
AnswersWithoutGrant(request) == UNCHANGED authVars

GrantsTo(request) == Grant(request.user, request.entity)

\* The grant, then the answer to the user.
RegistrationEnds(h) ==
    /\ requests[h] # NoRequest
    /\ GrantsTo(requests[h])
    /\ RequestEnds(h)
    /\ UNCHANGED gatewayFailures

\* The grant is refused or not reached, or the gateway stops: 503 at best.
RegistrationFails(h) ==
    /\ requests[h] # NoRequest
    /\ gatewayFailures < MaxGatewayFailures
    /\ gatewayFailures' = gatewayFailures + 1
    /\ RequestEnds(h)
    /\ UNCHANGED authVars

-----------------------------------------------------------------------------
(* What the grants are for. *)

HasAccess(u, e) == HasToken(u) /\ e \in GrantsOf(u)

Forwarded == UNCHANGED <<authVars, gatewayVars>>

(***************************************************************************)
(* The order is placed by one who has the consumer, and the saga has it    *)
(* confirmed by the kitchen, which knows the restaurant.                   *)
(***************************************************************************)
PlaceOrder(u, o) ==
    /\ HasAccess(u, ConsumerOf[o])
    /\ tickets[o] = "None"
    /\ KnownRestaurant(o)
    /\ SetTicket(o, "AwaitingAcceptance")
    /\ ticketNumber' = [ticketNumber EXCEPT ![o] = NextNumber(o)]
    /\ Publish(o, "AwaitingAcceptance")
    /\ Forwarded
    /\ UNCHANGED <<messageVars, consumerVars, restaurantVars, deliveryVars,
                   kitchenRestaurants, kitchenCalls, kitchenUp>>

\* What has been published about o and what calls under way will publish.
MayCook(o) ==
    LET underWay == {k \in KitchenRpcs :
                        kitchenCalls[k] # NoCall /\ kitchenCalls[k].ticket = o}
    IN  Len(kitchenEvents[o]) + Cardinality(underWay) < MaxTicketEvents

\* accept, preparing, ready: r is the restaurant of the path, which nothing
\* compares with the ticket's.
CookReads(u, r, k, o) ==
    /\ HasAccess(u, r)
    /\ MayCook(o)
    /\ CallReads(k, o)
    /\ Forwarded
    /\ UNCHANGED <<consumerVars, restaurantVars, deliveryVars>>

\* The kitchen writes; TicketAccepted reaches the topic in the order of the
\* acceptances.
CookCommits(k) ==
    /\ CallWrites(k)
    /\ accepted' = IF kitchenCalls[k].target = "Accepted"
                   THEN Append(accepted, kitchenCalls[k].ticket)
                   ELSE accepted
    /\ Forwarded
    /\ UNCHANGED <<consumerVars, restaurantVars, couriers, deliveryRestaurants,
                   deliveryRows, plans, deliveryEvents, deliveryCalls, batchVars,
                   deliveryFailures>>

OnlyDelivery ==
    UNCHANGED <<authVars, gatewayVars, messageVars, consumerVars,
                restaurantVars, kitchenVars>>

UpdateAvailability(u, c, availability) ==
    /\ HasAccess(u, c)
    /\ SetAvailability(c, availability)
    /\ OnlyDelivery

\* Any user who has a token may report a pickup ...
ReportPickup(u, k, o) ==
    /\ HasToken(u)
    /\ PickupAsks(k, o, tickets[o])
    /\ OnlyDelivery

\* ... or a dropoff.
ReportDropoff(u, k, o) ==
    /\ HasToken(u)
    /\ DropoffReads(k, o)
    /\ OnlyDelivery

-----------------------------------------------------------------------------
(* Events that get to those who keep a replica. *)

KitchenHears(r) ==
    /\ r \in restaurants
    /\ KitchenLearnsRestaurant(r)
    /\ Forwarded
    /\ UNCHANGED <<consumerVars, restaurantVars, deliveryVars>>

DeliveryHears(r) ==
    /\ r \in restaurants
    /\ DeliveryLearnsRestaurant(r)
    /\ OnlyDelivery

Scheduling == SchedulerNext /\ OnlyDelivery

-----------------------------------------------------------------------------
GatewayNext ==
    \/ \E u \in Users :
          \/ SignUp(u)
          \/ \E h \in HttpCalls :
                \/ \E c \in Consumers : RegisterConsumer(h, u, c)
                \/ \E r \in Restaurants : RegisterRestaurant(h, u, r)
                \/ \E c \in Couriers : RegisterCourier(h, u, c)
          \/ \E o \in Orders : PlaceOrder(u, o)
          \/ \E r \in Restaurants, k \in KitchenRpcs, o \in Orders :
                CookReads(u, r, k, o)
          \/ \E c \in Couriers, availability \in {"off", "on"} :
                UpdateAvailability(u, c, availability)
          \/ \E k \in DeliveryRpcs, o \in Orders :
                ReportPickup(u, k, o) \/ ReportDropoff(u, k, o)
    \/ \E h \in HttpCalls : RegistrationEnds(h) \/ RegistrationFails(h)

ServicesNext ==
    \/ \E r \in Restaurants : KitchenHears(r) \/ DeliveryHears(r)
    \/ \E k \in KitchenRpcs : CookCommits(k)
    \/ Scheduling
    \/ \E k \in DeliveryRpcs : (PickupCommits(k) \/ DropoffCommits(k)) /\ OnlyDelivery
    \/ ConsumerCrashes /\ OnlyDelivery
    \/ AcceptedRepeats /\ OnlyDelivery
    \/ \E o \in Orders : DeliveryAppears(o) /\ OnlyDelivery

Next == GatewayNext \/ ServicesNext

Spec == Init /\ [][Next]_vars

\* The delivery consumer runs and is restarted; users need not do anything.
FairSpec == Spec /\ WF_vars(Scheduling)

TypeOK ==
    /\ users \subseteq Users
    /\ grants \subseteq users \X Entities
    /\ MessagesTypeOK
    /\ ConsumerTypeOK
    /\ restaurants \subseteq Restaurants
    /\ KitchenTypeOK
    /\ DeliveryTypeOK
    /\ requests \in [HttpCalls -> Requests \cup {NoRequest}]
    /\ gatewayFailures \in 0..MaxGatewayFailures

-----------------------------------------------------------------------------
(***************************************************************************)
(* A delivery that shows as scheduled is in the plan of the courier it     *)
(* shows, whose two actions get_delivery_status looks up.  The insert and  *)
(* the update are two transactions, the consumer may die between them, and *)
(* a repeated record may pick another courier (delivery consumer.rs:       *)
(* 116-129).                                                               *)
(***************************************************************************)
ScheduledHasPlan ==
    \A o \in Orders :
        deliveryState[o] = "Scheduled" => assignedCourier[o] \in Range(plans[o])

(***************************************************************************)
(* A delivery is planned once for each record of its acceptance, and once  *)
(* more for each restart that goes back over records already handled:      *)
(* panicking at the first record of a batch, over and over, plans nothing  *)
(* again (delivery consumer.rs:71-129, 149-182).                           *)
(***************************************************************************)
Records(o) == Cardinality({k \in 1..Len(accepted) : accepted[k] = o})

PlansArePaid ==
    \A o \in Orders : Len(plans[o]) <= Records(o) * (1 + deliveryFailures)

(***************************************************************************)
(* Every courier who has been given work belongs to a user, who can ask    *)
(* for the plan: a courier starts off duty, and only its owner can change  *)
(* that, though a registration may end before the grant (delivery rpc.rs:  *)
(* 281-299, gateway delivery.rs:145-180, 251-279).                         *)
(***************************************************************************)
OnlyOwnedCouriersPlanned ==
    \A o \in Orders : \A c \in Range(plans[o]) :
        \E u \in Users : <<u, c>> \in grants

(***************************************************************************)
(* What has been created and is nobody's is either being registered or the *)
(* remains of a registration that failed: at most one for each failure     *)
(* (gateway consumer.rs:40-73, restaurant.rs:44-91, delivery.rs:145-180).  *)
(***************************************************************************)
Created == consumers \cup restaurants \cup {c \in Couriers : couriers[c] # "None"}

Owned == UNION {GrantsOf(u) : u \in users}

InProgress == {requests[h].entity : h \in {i \in HttpCalls : requests[i] # NoRequest}}

OrphansArePaid == Cardinality(Created \ (Owned \cup InProgress)) <= gatewayFailures

(***************************************************************************)
(* What is picked up has been reported ready, and is ready still unless    *)
(* calls of the restaurant that overlapped have published an event of the  *)
(* ticket a second time and thrown it back.  The kitchen is asked before   *)
(* the transaction that relies on its answer (delivery rpc.rs:154-191),    *)
(* and itself reads unlocked and writes by id (kitchen rpc.rs:181-204).    *)
(***************************************************************************)
ReportedReady(o) == "TicketPreparingCompleted" \in Range(kitchenEvents[o])

ThrownBack(o) == ~IsInjective(kitchenEvents[o])

ReadyUnlessThrownBack(o) ==
    ReportedReady(o) /\ (tickets[o] = "ReadyForPickup" \/ ThrownBack(o))

PickedUpWhenReady == \A o \in pickedUp : ReadyUnlessThrownBack(o)

(***************************************************************************)
(* A dropoff is announced at most as often as there are calls at the same  *)
(* time: the row is read unlocked, so calls that overlap all succeed, but  *)
(* none that starts after the first has ended (delivery rpc.rs:234-258).   *)
(***************************************************************************)
DropoffsPerCall == \A o \in Orders : dropoffs[o] <= Cardinality(DeliveryRpcs)

(***************************************************************************)
(* If from some time on somebody is available, and every record carries a  *)
(* ready_by and names a delivery there is, then whatever is accepted gets  *)
(* scheduled.  A single record that does not stops all that follow it      *)
(* (delivery consumer.rs:76-133, 165-182).                                 *)
(***************************************************************************)
EveryAcceptedScheduled ==
    <>[](Candidates # {} /\ \A k \in 1..Len(accepted) : Schedulable(accepted[k]))
    => \A o \in Orders :
           o \in Range(accepted) ~> deliveryState[o] = "Scheduled"
=============================================================================
