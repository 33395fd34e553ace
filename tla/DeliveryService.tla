--------------------------- MODULE DeliveryService ---------------------------
(***************************************************************************)
(* The delivery service: couriers and whether they are available, the      *)
(* deliveries with their courier and times, the actions planned for the    *)
(* couriers, the Kafka consumer that schedules a delivery when its ticket  *)
(* is accepted, and the gRPC calls that report pickup and dropoff.         *)
(*                                                                         *)
(* The consumer works without a transaction: it reads the couriers that    *)
(* are available, inserts the actions of the one it picks, and updates the *)
(* delivery, each statement a commit of its own.  It panics when a record  *)
(* cannot be handled, and starts again at the last committed offset.       *)
(*                                                                         *)
(* Nothing in the repository inserts deliveries: DeliveryAppears stands    *)
(* for whoever does.  Both the row's pickup_time and the record's ready_by *)
(* are optional; which orders have them are constants.  The kitchen as it  *)
(* is sends no ready_by at all, which is WithReadyBy = {}.                 *)
(***************************************************************************)
EXTENDS SagaMessages, Sequences

CONSTANTS
    Couriers,
    DeliveryRpcs,        \* gRPC calls of the delivery service in flight
    WithReadyBy,         \* the orders whose TicketAccepted carries ready_by
    WithPickupTime,      \* the orders whose delivery may come with a pickup_time
    MaxRepeats,          \* bound: records that are in the topic once too often
    MaxDeliveryFailures, \* bound: crashes, and panics in the middle of a batch
    NoCourier,
    NoDeliveryCall

DeliveryCalls == [delivery : Orders, type : {"Pickup", "Dropoff"}]

ASSUME DeliveryConstants ==
    /\ NoCourier \notin Couriers
    /\ NoDeliveryCall \notin DeliveryCalls
    /\ IsFiniteSet(DeliveryRpcs)
    /\ MaxRepeats \in Nat
    /\ MaxDeliveryFailures \in Nat

VARIABLES
    couriers,             \* courier -> "None" if no row, "off" or "on"
    deliveryRestaurants,  \* the replica of the restaurants
    deliveryState,        \* delivery (the order's id) -> state, "None" if no row
    assignedCourier,      \* delivery -> assigned_courier_id
    pickupTime,           \* delivery -> "None", "Planned", or "Performed" by a pickup
    deliveryTime,         \* delivery -> whether delivery_time is set
    plans,                \* delivery -> the couriers given its two actions, in order
    pickedUp,             \* deliveries a DeliveryPickedUp event went out for
    dropoffs,             \* delivery -> how many DeliveryDropoff events went out
    deliveryCalls,        \* gRPC call -> what it has read and will write
    \* The consumer:
    accepted,             \* the TicketAccepted records of the kitchen's topic
    offset,               \* the committed offset
    position,             \* the records handled since the last start or before it
    polled,               \* the end of the batch
    chosen,               \* the courier picked for the record at hand
    planned,              \* whether that courier's actions have been inserted
    deliveryFailures

deliveryRows == <<deliveryState, assignedCourier, pickupTime, deliveryTime>>
batchVars == <<offset, position, polled, chosen, planned>>
consumerLoop == <<accepted, batchVars, deliveryFailures>>
deliveryEvents == <<pickedUp, dropoffs>>

deliveryVars == <<couriers, deliveryRestaurants, deliveryRows, plans,
                  deliveryEvents, deliveryCalls, consumerLoop>>

DeliveryInit ==
    /\ couriers = [c \in Couriers |-> "None"]
    /\ deliveryRestaurants = {}
    /\ deliveryState = [o \in Orders |-> "None"]
    /\ assignedCourier = [o \in Orders |-> NoCourier]
    /\ pickupTime = [o \in Orders |-> "None"]
    /\ deliveryTime = [o \in Orders |-> FALSE]
    /\ plans = [o \in Orders |-> <<>>]
    /\ pickedUp = {}
    /\ dropoffs = [o \in Orders |-> 0]
    /\ deliveryCalls = [k \in DeliveryRpcs |-> NoDeliveryCall]
    /\ accepted = <<>>
    /\ offset = 0
    /\ position = 0
    /\ polled = 0
    /\ chosen = NoCourier
    /\ planned = FALSE
    /\ deliveryFailures = 0

-----------------------------------------------------------------------------
(* Couriers. *)

\* Mutant: a new courier is on duty at once.
OnDuty == "on"

OffDuty == "off"

\* create_conrier.
CreateCourier(c) ==
    /\ couriers[c] = "None"
    /\ couriers' = [couriers EXCEPT ![c] = OffDuty]
    /\ UNCHANGED <<deliveryRestaurants, deliveryRows, plans, deliveryEvents,
                   deliveryCalls, consumerLoop>>

SetAvailability(c, availability) ==
    /\ couriers[c] \notin {"None", availability}
    /\ couriers' = [couriers EXCEPT ![c] = availability]
    /\ UNCHANGED <<deliveryRestaurants, deliveryRows, plans, deliveryEvents,
                   deliveryCalls, consumerLoop>>

Candidates == {c \in Couriers : couriers[c] = "on"}

-----------------------------------------------------------------------------
(* Restaurants and deliveries. *)

\* RestaurantCreated: insert on conflict do nothing.
DeliveryLearnsRestaurant(r) ==
    /\ r \notin deliveryRestaurants
    /\ deliveryRestaurants' = deliveryRestaurants \cup {r}
    /\ UNCHANGED <<couriers, deliveryRows, plans, deliveryEvents,
                   deliveryCalls, consumerLoop>>

\* The row references its restaurant.
DeliveryAppears(o) ==
    /\ deliveryState[o] = "None"
    /\ RestaurantOf[o] \in deliveryRestaurants
    /\ deliveryState' = [deliveryState EXCEPT ![o] = "Pending"]
    /\ \/ UNCHANGED pickupTime
       \/ /\ o \in WithPickupTime
          /\ pickupTime' = [pickupTime EXCEPT ![o] = "Planned"]
    /\ UNCHANGED <<couriers, deliveryRestaurants, assignedCourier, deliveryTime,
                   plans, deliveryEvents, deliveryCalls, consumerLoop>>

-----------------------------------------------------------------------------
(* The consumer. *)

\* Mutant: the offset is committed while the batch is being handled.
MayCommitAtOnce == offset < polled

MayCommit == offset < polled /\ position = polled

\* poll returns some of the records that follow, once the last are committed.
PollAccepted ==
    /\ position = polled
    /\ ~MayCommit
    /\ polled' \in (position + 1)..Len(accepted)
    /\ UNCHANGED <<couriers, deliveryRestaurants, deliveryRows, plans,
                   deliveryEvents, deliveryCalls, accepted, offset, position,
                   chosen, planned, deliveryFailures>>

AtRecord == position < polled /\ chosen = NoCourier

Current == accepted[position + 1]

\* ready_by is there and the delivery is found.
Schedulable(o) == o \in WithReadyBy /\ deliveryState[o] # "None"

\* Any of the couriers that are available when they are read.
ChooseCourier(c) ==
    /\ AtRecord
    /\ Schedulable(Current)
    /\ c \in Candidates
    /\ chosen' = c
    /\ UNCHANGED <<couriers, deliveryRestaurants, deliveryRows, plans,
                   deliveryEvents, deliveryCalls, accepted, offset, position,
                   polled, planned, deliveryFailures>>

\* One INSERT of two rows, Pickup and Dropoff.
InsertActions ==
    /\ chosen # NoCourier
    /\ ~planned
    /\ plans' = [plans EXCEPT ![Current] = Append(@, chosen)]
    /\ planned' = TRUE
    /\ UNCHANGED <<couriers, deliveryRestaurants, deliveryRows, deliveryEvents,
                   deliveryCalls, accepted, offset, position, polled, chosen,
                   deliveryFailures>>

\* Mutant: the delivery is updated before the actions are inserted.
MayUpdateFirst == chosen # NoCourier

MayUpdate == planned

\* The delivery may have been scheduled before; nothing asks.
UpdateDelivery ==
    /\ MayUpdate
    /\ deliveryState' = [deliveryState EXCEPT ![Current] = "Scheduled"]
    /\ assignedCourier' = [assignedCourier EXCEPT ![Current] = chosen]
    /\ chosen' = NoCourier
    /\ planned' = FALSE
    /\ position' = position + 1
    /\ UNCHANGED <<couriers, deliveryRestaurants, pickupTime, deliveryTime,
                   plans, deliveryEvents, deliveryCalls, accepted, offset,
                   polled, deliveryFailures>>

\* commit_consumed, after every record of the batch.
CommitOffset ==
    /\ MayCommit
    /\ offset' = polled
    /\ UNCHANGED <<couriers, deliveryRestaurants, deliveryRows, plans,
                   deliveryEvents, deliveryCalls, accepted, position, polled,
                   chosen, planned, deliveryFailures>>

\* Mutant: what was polled is taken as handled.
RestartAfterBatch == polled

\* Mutant: offsets are not kept, Earliest is all there is to fall back on.
RestartAtEarliest == 0

Restart == offset

StartAgain ==
    /\ position' = Restart
    /\ polled' = Restart
    /\ chosen' = NoCourier
    /\ planned' = FALSE
    /\ UNCHANGED <<couriers, deliveryRestaurants, deliveryRows, plans,
                   deliveryEvents, deliveryCalls, accepted, offset>>

DeliveryFailure ==
    /\ deliveryFailures < MaxDeliveryFailures
    /\ deliveryFailures' = deliveryFailures + 1

(***************************************************************************)
(* No ready_by, no delivery, or nobody available: process returns Err and  *)
(* expect panics.  At the first record of a batch this costs nothing and   *)
(* happens any number of times; at a later one the records before it are   *)
(* handled again.                                                          *)
(***************************************************************************)
RecordPanics ==
    /\ AtRecord
    /\ ~Schedulable(Current) \/ Candidates = {}
    /\ StartAgain
    /\ IF position = offset THEN UNCHANGED deliveryFailures ELSE DeliveryFailure

ConsumerCrashes ==
    /\ offset < polled
    /\ DeliveryFailure
    /\ StartAgain

Repeats == Len(accepted) - Cardinality({accepted[k] : k \in 1..Len(accepted)})

\* The kitchen's relay dies before it deletes the row: a record once more.
AcceptedRepeats ==
    /\ Repeats < MaxRepeats
    /\ \E k \in 1..Len(accepted) : accepted' = Append(accepted, accepted[k])
    /\ UNCHANGED <<couriers, deliveryRestaurants, deliveryRows, plans,
                   deliveryEvents, deliveryCalls, batchVars, deliveryFailures>>

-----------------------------------------------------------------------------
(* The gRPC calls.  One that is sure to be refused is not a step. *)

Calling(k, call) ==
    /\ deliveryCalls[k] = NoDeliveryCall
    /\ deliveryCalls' = [deliveryCalls EXCEPT ![k] = call]
    /\ UNCHANGED <<couriers, deliveryRestaurants, deliveryRows, plans,
                   deliveryEvents, consumerLoop>>

CallEnds(k) == deliveryCalls' = [deliveryCalls EXCEPT ![k] = NoDeliveryCall]

\* Mutant: any ticket will do.
PickupOfAny(ticketState) == ticketState # "None"

PickupOf(ticketState) == ticketState = "ReadyForPickup"

\* pickup_delivery asks the kitchen for the ticket, before its transaction,
\* and looks at the answer inside it.
PickupAsks(k, o, ticketState) ==
    /\ PickupOf(ticketState)
    /\ Calling(k, [delivery |-> o, type |-> "Pickup"])

\* A pickup_time that is None is taken for a pickup that has been performed.
PickupPermitted(o) == pickupTime[o] # "None"

PickupCommits(k) ==
    /\ deliveryCalls[k] # NoDeliveryCall
    /\ LET call == deliveryCalls[k]
       IN  /\ call.type = "Pickup"
           /\ IF PickupPermitted(call.delivery)
              THEN /\ pickupTime' = [pickupTime EXCEPT ![call.delivery] = "Performed"]
                   /\ pickedUp' = pickedUp \cup {call.delivery}
              ELSE UNCHANGED <<pickupTime, pickedUp>>
    /\ CallEnds(k)
    /\ UNCHANGED <<couriers, deliveryRestaurants, deliveryState, assignedCourier,
                   deliveryTime, plans, dropoffs, consumerLoop>>

\* Mutant: whether it has been dropped off is not looked at.
DropoffPermittedAgain(o) == deliveryState[o] # "None"

DropoffPermitted(o) == deliveryState[o] # "None" /\ ~deliveryTime[o]

\* dropoff_delivery reads the row without locking it ...
DropoffReads(k, o) ==
    /\ DropoffPermitted(o)
    /\ Calling(k, [delivery |-> o, type |-> "Dropoff"])

\* ... and updates it by its id alone.
DropoffCommits(k) ==
    /\ deliveryCalls[k] # NoDeliveryCall
    /\ LET call == deliveryCalls[k]
       IN  /\ call.type = "Dropoff"
           /\ deliveryTime' = [deliveryTime EXCEPT ![call.delivery] = TRUE]
           /\ dropoffs' = [dropoffs EXCEPT ![call.delivery] = @ + 1]
    /\ CallEnds(k)
    /\ UNCHANGED <<couriers, deliveryRestaurants, deliveryState, assignedCourier,
                   pickupTime, plans, pickedUp, consumerLoop>>

-----------------------------------------------------------------------------
SchedulerNext ==
    \/ PollAccepted
    \/ \E c \in Couriers : ChooseCourier(c)
    \/ InsertActions
    \/ UpdateDelivery
    \/ CommitOffset
    \/ RecordPanics

DeliveryTypeOK ==
    /\ couriers \in [Couriers -> {"None", "off", "on"}]
    /\ deliveryRestaurants \subseteq Restaurants
    /\ deliveryState \in [Orders -> {"None", "Pending", "Scheduled"}]
    /\ assignedCourier \in [Orders -> Couriers \cup {NoCourier}]
    /\ pickupTime \in [Orders -> {"None", "Planned", "Performed"}]
    /\ deliveryTime \in [Orders -> BOOLEAN]
    /\ plans \in [Orders -> Seq(Couriers)]
    /\ pickedUp \subseteq Orders
    /\ dropoffs \in [Orders -> Nat]
    /\ deliveryCalls \in [DeliveryRpcs -> DeliveryCalls \cup {NoDeliveryCall}]
    /\ accepted \in Seq(Orders)
    /\ offset \in Nat /\ position \in Nat /\ polled \in Nat
    /\ offset <= position /\ position <= polled /\ polled <= Len(accepted)
    /\ chosen \in Couriers \cup {NoCourier}
    /\ planned \in BOOLEAN
    /\ deliveryFailures \in 0..MaxDeliveryFailures
=============================================================================
