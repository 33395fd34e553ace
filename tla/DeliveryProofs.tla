---------------------------- MODULE DeliveryProofs ----------------------------
(***************************************************************************)
(* From sign-up to drop-off, for any number of users, orders, couriers,    *)
(* calls and failures: the types; a delivery that shows as scheduled is in *)
(* its courier's plan; only couriers somebody owns are planned; nothing    *)
(* the consumer's offset has passed is unscheduled; a record is planned    *)
(* again only for a failure; pickups are of tickets reported ready, which  *)
(* only overlapping calls of the kitchen can throw back; a dropoff is      *)
(* announced once per overlapping call; and each failed registration       *)
(* leaves at most one entity without an owner.                             *)
(***************************************************************************)
EXTENDS ApiGateway, KitchenProofs, FiniteSetTheorems

(***************************************************************************)
(* Whatever the consumer's offset has passed is scheduled: neither a crash *)
(* nor a panic in the middle of a batch loses an acceptance (delivery      *)
(* consumer.rs:158-183).                                                   *)
(***************************************************************************)
CommittedIsScheduled ==
    \A k \in 1..offset : deliveryState[accepted[k]] = "Scheduled"

-----------------------------------------------------------------------------
(* The inductive invariant. *)

\* The offset jumps over a batch: each record handled has been scheduled.
HandledIsScheduled ==
    \A k \in 1..position : deliveryState[accepted[k]] = "Scheduled"

\* Whoever is picked is picked for a record, and planned before it is shown.
PickIsPlanned ==
    /\ chosen # NoCourier => position < polled
    /\ planned => chosen # NoCourier /\ chosen \in Range(plans[Current])

HasOwner(c) == \E u \in Users : <<u, c>> \in grants

\* Being on duty, picked or planned needs an owner.
OnDutyIsOwned ==
    /\ \A c \in Couriers : couriers[c] = "on" => HasOwner(c)
    /\ chosen # NoCourier => HasOwner(chosen)
    /\ \A o \in Orders : \A c \in Range(plans[o]) : HasOwner(c)

SchedulerSound ==
    /\ HandledIsScheduled
    /\ PickIsPlanned
    /\ ScheduledHasPlan
    /\ OnDutyIsOwned

\* A pickup under way has been told that the ticket is ready.
PickupsAreReady ==
    /\ PickedUpWhenReady
    /\ \A k \in DeliveryRpcs :
          deliveryCalls[k] # NoDeliveryCall /\ deliveryCalls[k].type = "Pickup"
              => ReadyUnlessThrownBack(deliveryCalls[k].delivery)

Dropping(o) ==
    {k \in DeliveryRpcs : deliveryCalls[k] = [delivery |-> o, type |-> "Dropoff"]}

\* Dropoffs announced and dropoffs under way are bounded together.
DropoffsCounted ==
    \A o \in Orders :
        /\ ~deliveryTime[o] => dropoffs[o] = 0
        /\ dropoffs[o] + Cardinality(Dropping(o)) <= Cardinality(DeliveryRpcs)

CallsSound == PickupsAreReady /\ DropoffsCounted

DeliveryInv == DeliveryTypeOK /\ SchedulerSound /\ CallsSound

GatewayTypeOK ==
    /\ users \subseteq Users
    /\ grants \subseteq users \X Entities
    /\ MessagesTypeOK
    /\ ConsumerTypeOK
    /\ restaurants \subseteq Restaurants
    /\ requests \in [HttpCalls -> Requests \cup {NoRequest}]
    /\ gatewayFailures \in 0..MaxGatewayFailures

Published(o, state) == EventOf[state] \in Range(kitchenEvents[o])

\* A ticket's events come in the order of its lifecycle, the first of each
\* anyway, and an event is published no later than its state is entered.
EventsInOrder ==
    /\ \A o \in Orders :
          /\ Published(o, "Preparing") => Published(o, "Accepted")
          /\ Published(o, "ReadyForPickup") => Published(o, "Preparing")
          /\ \A s \in {"Accepted", "Preparing", "ReadyForPickup"} :
                tickets[o] = s => Published(o, s)
    /\ \A k \in KitchenRpcs :
          kitchenCalls[k] # NoCall =>
              LET call == kitchenCalls[k]
              IN  /\ call.target = "Preparing" => Published(call.ticket, "Accepted")
                  /\ call.target = "ReadyForPickup"
                         => Published(call.ticket, "Preparing")

KitchenSound == KitchenInv /\ EventsInOrder

SystemInv == GatewayTypeOK /\ KitchenSound /\ DeliveryInv

\* A ticket that was ready is ready or thrown back, and nobody loses what is
\* theirs.
NothingTakenBack ==
    /\ grants \subseteq grants'
    /\ \A o \in Orders : ReadyUnlessThrownBack(o) => ReadyUnlessThrownBack(o)'

-----------------------------------------------------------------------------
(* Sequences and small facts. *)

LEMMA AppendRange ==
    ASSUME NEW S, NEW s \in Seq(S), NEW e \in S
    PROVE  /\ Append(s, e) \in Seq(S)
           /\ Range(Append(s, e)) = Range(s) \cup {e}
<1>1. /\ Append(s, e) \in Seq(S)
      /\ DOMAIN Append(s, e) = 1..(Len(s) + 1)
      /\ DOMAIN s = 1..Len(s)
      /\ Len(s) \in Nat
      /\ \A i \in 1..Len(s) : Append(s, e)[i] = s[i]
      /\ Append(s, e)[Len(s) + 1] = e
  OBVIOUS
<1> QED
  BY <1>1 DEF Range

\* While a courier is picked there is a record at hand.
LEMMA CurrentIsOrder ==
    ASSUME DeliveryTypeOK, position < polled
    PROVE  Current \in Orders /\ position + 1 \in 1..Len(accepted)
BY DEF DeliveryTypeOK, Current

LEMMA PlansOwned == DeliveryInv => OnlyOwnedCouriersPlanned
BY DEF DeliveryInv, SchedulerSound, OnDutyIsOwned, HasOwner,
       OnlyOwnedCouriersPlanned

-----------------------------------------------------------------------------
(* What leaves a part of the state alone keeps what is said of it. *)

LEMMA SchedulerStays ==
    ASSUME SchedulerSound, NothingTakenBack,
           UNCHANGED <<couriers, deliveryState, assignedCourier, plans, accepted,
                       batchVars>>
    PROVE  SchedulerSound'
<1>1. HandledIsScheduled' /\ PickIsPlanned' /\ ScheduledHasPlan'
  BY DEF SchedulerSound, HandledIsScheduled, PickIsPlanned, ScheduledHasPlan,
         batchVars, Current
<1>2. \A c : HasOwner(c) => HasOwner(c)'
  BY DEF HasOwner, NothingTakenBack
<1>3. OnDutyIsOwned'
  BY <1>2 DEF SchedulerSound, OnDutyIsOwned, batchVars
<1> QED BY <1>1, <1>3 DEF SchedulerSound

LEMMA CallsStay ==
    ASSUME CallsSound, DeliveryTypeOK, NothingTakenBack,
           UNCHANGED <<deliveryCalls, deliveryTime, pickedUp, dropoffs>>
    PROVE  CallsSound'
<1>1. PickupsAreReady'
  <2>1. ASSUME NEW k \in DeliveryRpcs, deliveryCalls[k] # NoDeliveryCall
        PROVE  deliveryCalls[k].delivery \in Orders
    BY <2>1 DEF DeliveryTypeOK, DeliveryCalls
  <2>2. pickedUp \subseteq Orders
    BY DEF DeliveryTypeOK
  <2> QED BY <2>1, <2>2 DEF CallsSound, PickupsAreReady, PickedUpWhenReady,
                            NothingTakenBack
<1>2. DropoffsCounted'
  BY DEF CallsSound, DropoffsCounted, Dropping
<1> QED BY <1>1, <1>2 DEF CallsSound

\* The steps of the other services.
LEMMA DeliveryStays ==
    ASSUME DeliveryInv, NothingTakenBack, UNCHANGED deliveryVars
    PROVE  DeliveryInv'
<1>1. DeliveryTypeOK'
  BY DEF DeliveryInv, DeliveryTypeOK, deliveryVars, deliveryRows, batchVars,
         consumerLoop, deliveryEvents
<1>2. SchedulerSound'
  BY SchedulerStays DEF DeliveryInv, deliveryVars, deliveryRows, batchVars,
                        consumerLoop
<1>3. CallsSound'
  BY CallsStay DEF DeliveryInv, deliveryVars, deliveryRows, deliveryEvents
<1> QED BY <1>1, <1>2, <1>3 DEF DeliveryInv

\* Steps that leave the kitchen alone.
LEMMA KitchenStays ==
    ASSUME KitchenSound, UNCHANGED kitchenVars
    PROVE  /\ KitchenSound'
           /\ \A o : ReadyUnlessThrownBack(o) => ReadyUnlessThrownBack(o)'
<1> USE DEF kitchenVars
<1>1. KitchenInv'
  BY KitchenStutter DEF KitchenSound
<1>2. EventsInOrder'
  BY DEF KitchenSound, EventsInOrder, Published
<1>3. \A o : ReadyUnlessThrownBack(o) => ReadyUnlessThrownBack(o)'
  BY DEF ReadyUnlessThrownBack, ReportedReady, ThrownBack
<1> QED BY <1>1, <1>2, <1>3 DEF KitchenSound

\* The steps of the delivery service alone.
LEMMA OthersStay ==
    ASSUME SystemInv, OnlyDelivery
    PROVE  GatewayTypeOK' /\ KitchenSound' /\ NothingTakenBack
<1>1. GatewayTypeOK'
  BY DEF SystemInv, GatewayTypeOK, OnlyDelivery, authVars, gatewayVars,
         messageVars, consumerVars, restaurantVars, MessagesTypeOK, ConsumerTypeOK
<1>2. KitchenSound'
  BY KitchenStays DEF SystemInv, OnlyDelivery
<1>3. NothingTakenBack
  BY KitchenStays DEF SystemInv, OnlyDelivery, authVars, NothingTakenBack
<1> QED BY <1>1, <1>2, <1>3

-----------------------------------------------------------------------------
(* The scheduler. *)

LEMMA PollAcceptedInv ==
    ASSUME DeliveryInv, NothingTakenBack, PollAccepted
    PROVE  DeliveryInv'
<1> USE DEF DeliveryInv, PollAccepted, deliveryRows, deliveryEvents
<1>1. DeliveryTypeOK'
  BY DEF DeliveryTypeOK
<1>2. \A c : HasOwner(c) => HasOwner(c)'
  BY DEF HasOwner, NothingTakenBack
<1>3. SchedulerSound'
  <2>1. chosen = NoCourier /\ ~planned
    BY DEF SchedulerSound, PickIsPlanned, DeliveryTypeOK
  <2>2. HandledIsScheduled' /\ PickIsPlanned' /\ ScheduledHasPlan'
    BY <2>1 DEF SchedulerSound, HandledIsScheduled, PickIsPlanned,
                ScheduledHasPlan
  <2> QED BY <1>2, <2>2 DEF SchedulerSound, OnDutyIsOwned
<1>4. CallsSound'
  BY CallsStay
<1> QED BY <1>1, <1>3, <1>4

\* Who is available is on duty, and so owned.
LEMMA ChooseCourierInv ==
    ASSUME DeliveryInv, NothingTakenBack, NEW c \in Couriers, ChooseCourier(c)
    PROVE  DeliveryInv'
<1> USE DEF DeliveryInv, ChooseCourier, deliveryRows, deliveryEvents
<1>1. DeliveryTypeOK'
  BY DEF DeliveryTypeOK
<1>2. \A d : HasOwner(d) => HasOwner(d)'
  BY DEF HasOwner, NothingTakenBack
<1>3. SchedulerSound'
  <2>1. position < polled /\ ~planned
    BY DEF AtRecord, SchedulerSound, PickIsPlanned, DeliveryTypeOK
  <2>2. HandledIsScheduled' /\ PickIsPlanned' /\ ScheduledHasPlan'
    BY <2>1 DEF SchedulerSound, HandledIsScheduled, PickIsPlanned,
                ScheduledHasPlan
  <2>3. HasOwner(c)
    BY DEF Candidates, SchedulerSound, OnDutyIsOwned
  <2> QED BY <1>2, <2>2, <2>3 DEF SchedulerSound, OnDutyIsOwned
<1>4. CallsSound'
  BY CallsStay
<1> QED BY <1>1, <1>3, <1>4

\* The plan grows by the courier picked; all that were in it stay.
LEMMA InsertActionsInv ==
    ASSUME DeliveryInv, NothingTakenBack, InsertActions
    PROVE  DeliveryInv'
<1> USE DEF DeliveryInv, InsertActions, deliveryRows, deliveryEvents
<1>1. position < polled /\ chosen \in Couriers
  BY DEF SchedulerSound, PickIsPlanned, DeliveryTypeOK
<1>2. Current \in Orders /\ Current' = Current
  BY <1>1, CurrentIsOrder DEF Current
<1>3. plans \in [Orders -> Seq(Couriers)]
  BY DEF DeliveryTypeOK
<1>4. /\ Append(plans[Current], chosen) \in Seq(Couriers)
      /\ Range(Append(plans[Current], chosen)) = Range(plans[Current]) \cup {chosen}
  BY <1>1, <1>2, <1>3, AppendRange
<1>5. /\ plans' \in [Orders -> Seq(Couriers)]
      /\ plans'[Current] = Append(plans[Current], chosen)
      /\ \A o \in Orders \ {Current} : plans'[o] = plans[o]
  BY <1>2, <1>3, <1>4
<1>6. \A o \in Orders : Range(plans[o]) \subseteq Range(plans'[o])
  BY <1>4, <1>5
<1>7. DeliveryTypeOK'
  BY <1>5 DEF DeliveryTypeOK
<1>8. \A d : HasOwner(d) => HasOwner(d)'
  BY DEF HasOwner, NothingTakenBack
<1>9. HandledIsScheduled' /\ PickIsPlanned'
  BY <1>1, <1>2, <1>4, <1>5 DEF SchedulerSound, HandledIsScheduled, PickIsPlanned
<1>10. ScheduledHasPlan'
  BY <1>6 DEF SchedulerSound, ScheduledHasPlan
<1>11. OnDutyIsOwned'
  <2>1. \A o \in Orders : \A d \in Range(plans'[o]) : HasOwner(d)
    BY <1>4, <1>5 DEF SchedulerSound, OnDutyIsOwned
  <2> QED BY <1>8, <2>1 DEF SchedulerSound, OnDutyIsOwned
<1>12. CallsSound'
  BY CallsStay
<1> QED BY <1>7, <1>9, <1>10, <1>11, <1>12 DEF SchedulerSound

\* The record at hand is handled now, and the one shown is in the plan.
LEMMA UpdateDeliveryInv ==
    ASSUME DeliveryInv, NothingTakenBack, UpdateDelivery
    PROVE  DeliveryInv'
<1> USE DEF DeliveryInv, UpdateDelivery, deliveryRows, deliveryEvents
<1>1. /\ position < polled /\ chosen \in Couriers
      /\ chosen \in Range(plans[Current])
  BY DEF MayUpdate, SchedulerSound, PickIsPlanned, DeliveryTypeOK
<1>2. Current \in Orders /\ position + 1 \in 1..Len(accepted)
  BY <1>1, CurrentIsOrder
<1>3. DeliveryTypeOK'
  <2>1. /\ deliveryState' \in [Orders -> {"None", "Pending", "Scheduled"}]
        /\ assignedCourier' \in [Orders -> Couriers \cup {NoCourier}]
    BY <1>1, <1>2 DEF DeliveryTypeOK
  <2>2. offset <= position + 1 /\ position + 1 <= polled /\ position + 1 \in Nat
    BY <1>1 DEF DeliveryTypeOK
  <2> QED BY <2>1, <2>2 DEF DeliveryTypeOK
<1>4. \A d : HasOwner(d) => HasOwner(d)'
  BY DEF HasOwner, NothingTakenBack
<1>5. HandledIsScheduled'
  <2> SUFFICES ASSUME NEW k \in 1..(position + 1)
               PROVE  deliveryState'[accepted[k]] = "Scheduled"
    BY DEF HandledIsScheduled
  <2>1. accepted[k] \in Orders
    BY <1>2 DEF DeliveryTypeOK
  <2>2. CASE k = position + 1
    BY <2>1, <2>2 DEF Current, DeliveryTypeOK
  <2>3. CASE k # position + 1
    <3>1. k \in 1..position
      BY <2>3 DEF DeliveryTypeOK
    <3> QED BY <2>1, <3>1 DEF SchedulerSound, HandledIsScheduled, DeliveryTypeOK
  <2> QED BY <2>2, <2>3
<1>6. PickIsPlanned'
  BY DEF PickIsPlanned
<1>7. ScheduledHasPlan'
  BY <1>1, <1>2 DEF SchedulerSound, ScheduledHasPlan, DeliveryTypeOK
<1>8. OnDutyIsOwned'
  BY <1>4 DEF SchedulerSound, OnDutyIsOwned
<1>9. CallsSound'
  BY CallsStay
<1> QED BY <1>3, <1>5, <1>6, <1>7, <1>8, <1>9 DEF SchedulerSound

LEMMA CommitOffsetInv ==
    ASSUME DeliveryInv, NothingTakenBack, CommitOffset
    PROVE  DeliveryInv'
<1> USE DEF DeliveryInv, CommitOffset, deliveryRows, deliveryEvents
<1>1. DeliveryTypeOK'
  BY DEF DeliveryTypeOK, MayCommit
<1>2. \A d : HasOwner(d) => HasOwner(d)'
  BY DEF HasOwner, NothingTakenBack
<1>3. HandledIsScheduled' /\ PickIsPlanned' /\ ScheduledHasPlan' /\ OnDutyIsOwned'
  BY <1>2 DEF SchedulerSound, HandledIsScheduled, PickIsPlanned,
              ScheduledHasPlan, OnDutyIsOwned, Current
<1>4. CallsSound'
  BY CallsStay
<1> QED BY <1>1, <1>3, <1>4 DEF SchedulerSound

\* A restart forgets what was picked and goes back to the offset.
LEMMA StartAgainInv ==
    ASSUME DeliveryInv, NothingTakenBack, StartAgain,
           deliveryFailures' \in 0..MaxDeliveryFailures
    PROVE  DeliveryInv'
<1> USE DEF DeliveryInv, StartAgain, Restart, deliveryRows, deliveryEvents
<1>1. DeliveryTypeOK'
  <2>1. offset \in Nat /\ offset <= offset /\ offset <= Len(accepted)
    BY DEF DeliveryTypeOK
  <2> QED BY <2>1 DEF DeliveryTypeOK
<1>2. \A d : HasOwner(d) => HasOwner(d)'
  BY DEF HasOwner, NothingTakenBack
<1>3. HandledIsScheduled'
  BY DEF SchedulerSound, HandledIsScheduled, DeliveryTypeOK
<1>4. PickIsPlanned' /\ ScheduledHasPlan' /\ OnDutyIsOwned'
  BY <1>2 DEF SchedulerSound, PickIsPlanned, ScheduledHasPlan, OnDutyIsOwned
<1>5. CallsSound'
  BY CallsStay
<1> QED BY <1>1, <1>3, <1>4, <1>5 DEF SchedulerSound

\* The topic grows: a new acceptance, or one that comes again.
LEMMA TopicGrowsInv ==
    ASSUME DeliveryInv, NothingTakenBack, NEW o \in Orders,
           accepted' = Append(accepted, o),
           UNCHANGED <<couriers, deliveryRestaurants, deliveryRows, plans,
                       deliveryEvents, deliveryCalls, batchVars, deliveryFailures>>
    PROVE  DeliveryInv'
<1> USE DEF DeliveryInv, deliveryRows, deliveryEvents, batchVars
<1>1. /\ accepted \in Seq(Orders)
      /\ offset \in Nat /\ position \in Nat /\ polled \in Nat
      /\ offset <= position /\ position <= polled /\ polled <= Len(accepted)
  BY DEF DeliveryTypeOK
<1>2. /\ accepted' \in Seq(Orders)
      /\ Len(accepted') = Len(accepted) + 1
      /\ \A k \in 1..Len(accepted) : accepted'[k] = accepted[k]
  BY <1>1
<1>3. DeliveryTypeOK'
  BY <1>1, <1>2 DEF DeliveryTypeOK
<1>4. \A d : HasOwner(d) => HasOwner(d)'
  BY DEF HasOwner, NothingTakenBack
<1>5. HandledIsScheduled'
  BY <1>1, <1>2 DEF SchedulerSound, HandledIsScheduled
<1>6. PickIsPlanned'
  <2>1. position < polled => Current' = Current
    BY <1>1, <1>2 DEF Current
  <2> QED BY <2>1 DEF SchedulerSound, PickIsPlanned
<1>7. ScheduledHasPlan' /\ OnDutyIsOwned'
  BY <1>4 DEF SchedulerSound, ScheduledHasPlan, OnDutyIsOwned
<1>8. CallsSound'
  BY CallsStay
<1> QED BY <1>3, <1>5, <1>6, <1>7, <1>8 DEF SchedulerSound

\* The consumer, its crashes, and the records that come again.
LEMMA SchedulerStepInv ==
    ASSUME DeliveryInv, NothingTakenBack,
           SchedulerNext \/ ConsumerCrashes \/ AcceptedRepeats
    PROVE  DeliveryInv'
<1>1. CASE PollAccepted
  BY <1>1, PollAcceptedInv
<1>2. ASSUME NEW c \in Couriers, ChooseCourier(c) PROVE DeliveryInv'
  BY <1>2, ChooseCourierInv
<1>3. CASE InsertActions
  BY <1>3, InsertActionsInv
<1>4. CASE UpdateDelivery
  BY <1>4, UpdateDeliveryInv
<1>5. CASE CommitOffset
  BY <1>5, CommitOffsetInv
<1>6. CASE RecordPanics \/ ConsumerCrashes
  <2>1. StartAgain /\ (UNCHANGED deliveryFailures \/ DeliveryFailure)
    BY <1>6 DEF RecordPanics, ConsumerCrashes
  <2>2. deliveryFailures' \in 0..MaxDeliveryFailures
    BY <2>1, DeliveryConstants
    DEF DeliveryFailure, DeliveryInv, DeliveryTypeOK
  <2> QED BY <2>1, <2>2, StartAgainInv
<1>7. CASE AcceptedRepeats
  <2>1. PICK k \in 1..Len(accepted) : accepted' = Append(accepted, accepted[k])
    BY <1>7 DEF AcceptedRepeats
  <2>2. accepted[k] \in Orders
    BY DEF DeliveryInv, DeliveryTypeOK
  <2> QED BY <1>7, <2>1, <2>2, TopicGrowsInv DEF AcceptedRepeats
<1> QED BY <1>1, <1>2, <1>3, <1>4, <1>5, <1>6, <1>7 DEF SchedulerNext

-----------------------------------------------------------------------------
(* Couriers and deliveries. *)

\* A new courier is off duty.
LEMMA CreateCourierInv ==
    ASSUME DeliveryInv, NothingTakenBack, NEW c \in Couriers, CreateCourier(c)
    PROVE  DeliveryInv'
<1> USE DEF DeliveryInv, CreateCourier, deliveryRows, deliveryEvents,
            consumerLoop, batchVars
<1>1. couriers' \in [Couriers -> {"None", "off", "on"}]
  BY DEF DeliveryTypeOK, OffDuty
<1>2. DeliveryTypeOK'
  BY <1>1 DEF DeliveryTypeOK
<1>3. \A d : HasOwner(d) => HasOwner(d)'
  BY DEF HasOwner, NothingTakenBack
<1>4. \A d \in Couriers : couriers'[d] = "on" => couriers[d] = "on"
  BY DEF DeliveryTypeOK, OffDuty
<1>5. HandledIsScheduled' /\ PickIsPlanned' /\ ScheduledHasPlan'
  BY DEF SchedulerSound, HandledIsScheduled, PickIsPlanned, ScheduledHasPlan,
         Current
<1>6. OnDutyIsOwned'
  BY <1>3, <1>4 DEF SchedulerSound, OnDutyIsOwned
<1>7. CallsSound'
  BY CallsStay
<1> QED BY <1>2, <1>5, <1>6, <1>7 DEF SchedulerSound

\* Only an owner changes the availability.
LEMMA SetAvailabilityInv ==
    ASSUME DeliveryInv, NothingTakenBack, NEW c \in Couriers,
           NEW availability \in {"off", "on"}, SetAvailability(c, availability),
           HasOwner(c)
    PROVE  DeliveryInv'
<1> USE DEF DeliveryInv, SetAvailability, deliveryRows, deliveryEvents,
            consumerLoop, batchVars
<1>1. couriers' \in [Couriers -> {"None", "off", "on"}]
  BY DEF DeliveryTypeOK
<1>2. DeliveryTypeOK'
  BY <1>1 DEF DeliveryTypeOK
<1>3. \A d : HasOwner(d) => HasOwner(d)'
  BY DEF HasOwner, NothingTakenBack
<1>4. \A d \in Couriers : couriers'[d] = "on" => couriers[d] = "on" \/ d = c
  BY DEF DeliveryTypeOK
<1>5. HandledIsScheduled' /\ PickIsPlanned' /\ ScheduledHasPlan'
  BY DEF SchedulerSound, HandledIsScheduled, PickIsPlanned, ScheduledHasPlan,
         Current
<1>6. OnDutyIsOwned'
  BY <1>3, <1>4 DEF SchedulerSound, OnDutyIsOwned
<1>7. CallsSound'
  BY CallsStay
<1> QED BY <1>2, <1>5, <1>6, <1>7 DEF SchedulerSound

LEMMA DeliveryLearnsRestaurantInv ==
    ASSUME DeliveryInv, NothingTakenBack, NEW r \in Restaurants,
           DeliveryLearnsRestaurant(r)
    PROVE  DeliveryInv'
<1> USE DEF DeliveryInv, DeliveryLearnsRestaurant, deliveryRows,
            deliveryEvents, consumerLoop
<1>1. DeliveryTypeOK'
  BY DEF DeliveryTypeOK, batchVars
<1>2. SchedulerSound' /\ CallsSound'
  BY SchedulerStays, CallsStay
<1> QED BY <1>1, <1>2

\* The delivery that appears was not scheduled, nor is it now.
LEMMA DeliveryAppearsInv ==
    ASSUME DeliveryInv, NothingTakenBack, NEW o \in Orders, DeliveryAppears(o)
    PROVE  DeliveryInv'
<1> USE DEF DeliveryInv, DeliveryAppears, deliveryEvents, consumerLoop, batchVars
<1>1. /\ deliveryState' \in [Orders -> {"None", "Pending", "Scheduled"}]
      /\ pickupTime' \in [Orders -> {"None", "Planned", "Performed"}]
  BY DEF DeliveryTypeOK
<1>2. DeliveryTypeOK'
  BY <1>1 DEF DeliveryTypeOK
<1>3. \A d : HasOwner(d) => HasOwner(d)'
  BY DEF HasOwner, NothingTakenBack
<1>4. \A p \in Orders : deliveryState'[p] = "Scheduled" <=> deliveryState[p] = "Scheduled"
  BY DEF DeliveryTypeOK
<1>5. \A k \in 1..position : accepted[k] \in Orders
  BY DEF DeliveryTypeOK
<1>6. HandledIsScheduled' /\ PickIsPlanned' /\ ScheduledHasPlan'
  BY <1>4, <1>5 DEF SchedulerSound, HandledIsScheduled, PickIsPlanned,
                    ScheduledHasPlan, Current
<1>7. OnDutyIsOwned'
  BY <1>3 DEF SchedulerSound, OnDutyIsOwned
<1>8. CallsSound'
  BY CallsStay
<1> QED BY <1>2, <1>6, <1>7, <1>8 DEF SchedulerSound

-----------------------------------------------------------------------------
(* The gRPC calls. *)

LEMMA CallsCount ==
    ASSUME NEW S \in SUBSET DeliveryRpcs
    PROVE  /\ IsFiniteSet(S)
           /\ Cardinality(S) \in Nat
           /\ Cardinality(S) <= Cardinality(DeliveryRpcs)
           /\ Cardinality(DeliveryRpcs) \in Nat
<1>1. IsFiniteSet(DeliveryRpcs)
  BY DeliveryConstants
<1>2. IsFiniteSet(S) /\ Cardinality(S) <= Cardinality(DeliveryRpcs)
  BY <1>1, FS_Subset
<1> QED BY <1>1, <1>2, FS_CardinalityType

LEMMA CallIsTyped ==
    ASSUME DeliveryTypeOK, NEW k \in DeliveryRpcs, deliveryCalls[k] # NoDeliveryCall
    PROVE  /\ deliveryCalls[k] \in DeliveryCalls
           /\ deliveryCalls[k].delivery \in Orders
           /\ deliveryCalls[k]
                = [delivery |-> deliveryCalls[k].delivery, type |-> deliveryCalls[k].type]
BY DEF DeliveryTypeOK, DeliveryCalls

\* The kitchen has just said that the ticket is ready.
LEMMA PickupAsksInv ==
    ASSUME DeliveryInv, EventsInOrder, NothingTakenBack, NEW k \in DeliveryRpcs,
           NEW o \in Orders, PickupAsks(k, o, tickets[o])
    PROVE  DeliveryInv'
<1> DEFINE call == [delivery |-> o, type |-> "Pickup"]
<1>1. /\ tickets[o] = "ReadyForPickup"
      /\ deliveryCalls[k] = NoDeliveryCall
      /\ deliveryCalls' = [deliveryCalls EXCEPT ![k] = call]
      /\ UNCHANGED <<couriers, deliveryRestaurants, deliveryRows, plans,
                     deliveryEvents, consumerLoop>>
  BY DEF PickupAsks, PickupOf, Calling
<1>2. call \in DeliveryCalls /\ ReadyUnlessThrownBack(o)'
  <2>1. ReadyUnlessThrownBack(o)
    BY <1>1 DEF EventsInOrder, Published, EventOf, ReadyUnlessThrownBack,
                ReportedReady
  <2> QED BY <2>1 DEF DeliveryCalls, NothingTakenBack
<1>3. /\ deliveryCalls' \in [DeliveryRpcs -> DeliveryCalls \cup {NoDeliveryCall}]
      /\ deliveryCalls'[k] = call
      /\ \A j \in DeliveryRpcs \ {k} : deliveryCalls'[j] = deliveryCalls[j]
  BY <1>1, <1>2 DEF DeliveryInv, DeliveryTypeOK
<1> HIDE DEF call
<1>4. DeliveryTypeOK'
  BY <1>1, <1>3 DEF DeliveryInv, DeliveryTypeOK, deliveryRows, deliveryEvents,
                    consumerLoop, batchVars
<1>5. SchedulerSound'
  BY <1>1, SchedulerStays DEF DeliveryInv, deliveryRows, consumerLoop
<1>6. PickupsAreReady'
  <2>1. PickedUpWhenReady'
    BY <1>1 DEF DeliveryInv, DeliveryTypeOK, CallsSound, PickupsAreReady,
                PickedUpWhenReady, NothingTakenBack, deliveryEvents
  <2>2. ASSUME NEW j \in DeliveryRpcs, deliveryCalls'[j] # NoDeliveryCall,
               deliveryCalls'[j].type = "Pickup"
        PROVE  ReadyUnlessThrownBack(deliveryCalls[j].delivery)'
    <3>1. CASE j = k
      BY <1>2, <1>3, <3>1 DEF call
    <3>2. CASE j # k
      BY <1>3, <2>2, <3>2, CallIsTyped
      DEF DeliveryInv, CallsSound, PickupsAreReady, NothingTakenBack
    <3> QED BY <3>1, <3>2
  <2> QED BY <2>1, <2>2 DEF PickupsAreReady
<1>7. DropoffsCounted'
  <2>1. ASSUME NEW p \in Orders PROVE Dropping(p)' = Dropping(p)
    <3>1. NoDeliveryCall # [delivery |-> p, type |-> "Dropoff"]
      BY DeliveryConstants DEF DeliveryCalls
    <3>2. call # [delivery |-> p, type |-> "Dropoff"]
      BY DEF call
    <3> QED BY <1>1, <1>3, <3>1, <3>2 DEF Dropping
  <2> QED BY <1>1, <2>1 DEF DeliveryInv, CallsSound, DropoffsCounted,
                            deliveryRows, deliveryEvents
<1> QED BY <1>4, <1>5, <1>6, <1>7 DEF DeliveryInv, CallsSound

\* What the pickup announces is a ticket that was ready when the call began.
LEMMA PickupCommitsInv ==
    ASSUME DeliveryInv, NothingTakenBack, NEW k \in DeliveryRpcs, PickupCommits(k)
    PROVE  DeliveryInv'
<1> DEFINE o == deliveryCalls[k].delivery
<1>1. /\ deliveryCalls[k] # NoDeliveryCall
      /\ deliveryCalls[k].type = "Pickup"
      /\ deliveryCalls' = [deliveryCalls EXCEPT ![k] = NoDeliveryCall]
      /\ \/ /\ pickupTime' = [pickupTime EXCEPT ![o] = "Performed"]
            /\ pickedUp' = pickedUp \cup {o}
         \/ UNCHANGED <<pickupTime, pickedUp>>
      /\ UNCHANGED <<couriers, deliveryRestaurants, deliveryState, assignedCourier,
                     deliveryTime, plans, dropoffs, consumerLoop>>
  BY DEF PickupCommits, CallEnds
<1>2. o \in Orders /\ ReadyUnlessThrownBack(o)
  BY <1>1, CallIsTyped DEF DeliveryInv, CallsSound, PickupsAreReady
<1> HIDE DEF o
<1>3. /\ deliveryCalls' \in [DeliveryRpcs -> DeliveryCalls \cup {NoDeliveryCall}]
      /\ deliveryCalls'[k] = NoDeliveryCall
      /\ \A j \in DeliveryRpcs \ {k} : deliveryCalls'[j] = deliveryCalls[j]
  BY <1>1 DEF DeliveryInv, DeliveryTypeOK
<1>4. DeliveryTypeOK'
  <2>1. /\ pickupTime' \in [Orders -> {"None", "Planned", "Performed"}]
        /\ pickedUp' \subseteq Orders
    BY <1>1, <1>2 DEF DeliveryInv, DeliveryTypeOK
  <2> QED BY <1>1, <1>3, <2>1 DEF DeliveryInv, DeliveryTypeOK, consumerLoop,
                                  batchVars
<1>5. SchedulerSound'
  BY <1>1, SchedulerStays DEF DeliveryInv, consumerLoop
<1>6. PickupsAreReady'
  <2>1. \A p \in pickedUp' : p \in pickedUp \/ p = o
    BY <1>1
  <2>2. PickedUpWhenReady'
    BY <1>2, <2>1 DEF DeliveryInv, DeliveryTypeOK, CallsSound, PickupsAreReady,
                      PickedUpWhenReady, NothingTakenBack
  <2>3. ASSUME NEW j \in DeliveryRpcs, deliveryCalls'[j] # NoDeliveryCall,
               deliveryCalls'[j].type = "Pickup"
        PROVE  ReadyUnlessThrownBack(deliveryCalls[j].delivery)'
    BY <1>3, <2>3, CallIsTyped
    DEF DeliveryInv, CallsSound, PickupsAreReady, NothingTakenBack
  <2> QED BY <2>2, <2>3 DEF PickupsAreReady
<1>7. DropoffsCounted'
  <2>1. ASSUME NEW p \in Orders PROVE Dropping(p)' = Dropping(p)
    <3>1. NoDeliveryCall # [delivery |-> p, type |-> "Dropoff"]
      BY DeliveryConstants DEF DeliveryCalls
    <3>2. deliveryCalls[k] # [delivery |-> p, type |-> "Dropoff"]
      BY <1>1
    <3> QED BY <1>3, <3>1, <3>2 DEF Dropping
  <2> QED BY <1>1, <2>1 DEF DeliveryInv, CallsSound, DropoffsCounted
<1> QED BY <1>4, <1>5, <1>6, <1>7 DEF DeliveryInv, CallsSound

\* No dropoff has been announced, and only so many calls are under way.
LEMMA DropoffReadsInv ==
    ASSUME DeliveryInv, NothingTakenBack, NEW k \in DeliveryRpcs, NEW o \in Orders,
           DropoffReads(k, o)
    PROVE  DeliveryInv'
<1> DEFINE call == [delivery |-> o, type |-> "Dropoff"]
<1>1. /\ ~deliveryTime[o]
      /\ deliveryCalls[k] = NoDeliveryCall
      /\ deliveryCalls' = [deliveryCalls EXCEPT ![k] = call]
      /\ UNCHANGED <<couriers, deliveryRestaurants, deliveryRows, plans,
                     deliveryEvents, consumerLoop>>
  BY DEF DropoffReads, DropoffPermitted, Calling
<1>2. call \in DeliveryCalls
  BY DEF DeliveryCalls
<1>3. /\ deliveryCalls' \in [DeliveryRpcs -> DeliveryCalls \cup {NoDeliveryCall}]
      /\ deliveryCalls'[k] = call
      /\ \A j \in DeliveryRpcs \ {k} : deliveryCalls'[j] = deliveryCalls[j]
  BY <1>1, <1>2 DEF DeliveryInv, DeliveryTypeOK
<1>4. call.type = "Dropoff" /\ call.delivery = o
  OBVIOUS
<1>5. \A p \in Orders \ {o} : [delivery |-> p, type |-> "Dropoff"] # call
  OBVIOUS
<1> HIDE DEF call
<1>6. DeliveryTypeOK'
  BY <1>1, <1>3 DEF DeliveryInv, DeliveryTypeOK, deliveryRows, deliveryEvents,
                    consumerLoop, batchVars
<1>7. SchedulerSound'
  BY <1>1, SchedulerStays DEF DeliveryInv, deliveryRows, consumerLoop
<1>8. PickupsAreReady'
  <2>1. PickedUpWhenReady'
    BY <1>1 DEF DeliveryInv, DeliveryTypeOK, CallsSound, PickupsAreReady,
                PickedUpWhenReady, NothingTakenBack, deliveryEvents
  <2>2. ASSUME NEW j \in DeliveryRpcs, deliveryCalls'[j] # NoDeliveryCall,
               deliveryCalls'[j].type = "Pickup"
        PROVE  ReadyUnlessThrownBack(deliveryCalls[j].delivery)'
    BY <1>3, <1>4, <2>2, CallIsTyped
    DEF DeliveryInv, CallsSound, PickupsAreReady, NothingTakenBack
  <2> QED BY <2>1, <2>2 DEF PickupsAreReady
<1>9. DropoffsCounted'
  <2> SUFFICES ASSUME NEW p \in Orders
               PROVE  /\ ~deliveryTime'[p] => dropoffs'[p] = 0
                      /\ dropoffs'[p] + Cardinality(Dropping(p)')
                            <= Cardinality(DeliveryRpcs)
    BY DEF DropoffsCounted
  <2>1. /\ ~deliveryTime[p] => dropoffs[p] = 0
        /\ dropoffs[p] + Cardinality(Dropping(p)) <= Cardinality(DeliveryRpcs)
        /\ UNCHANGED <<deliveryTime, dropoffs>>
    BY <1>1 DEF DeliveryInv, CallsSound, DropoffsCounted, deliveryRows,
                deliveryEvents
  <2>2. CASE p = o
    <3>1. Dropping(o)' \in SUBSET DeliveryRpcs
      BY DEF Dropping
    <3>2. /\ Cardinality(Dropping(o)') <= Cardinality(DeliveryRpcs)
          /\ Cardinality(Dropping(o)') \in Nat
      BY <3>1, CallsCount
    <3> QED BY <1>1, <2>1, <2>2, <3>2
  <2>3. CASE p # o
    <3>1. NoDeliveryCall # [delivery |-> p, type |-> "Dropoff"]
      BY DeliveryConstants DEF DeliveryCalls
    <3>2. Dropping(p)' = Dropping(p)
      BY <1>1, <1>3, <1>5, <2>3, <3>1 DEF Dropping
    <3> QED BY <2>1, <3>2
  <2> QED BY <2>2, <2>3
<1> QED BY <1>6, <1>7, <1>8, <1>9 DEF DeliveryInv, CallsSound

\* One more announced, one fewer under way.
LEMMA DropoffCommitsInv ==
    ASSUME DeliveryInv, NothingTakenBack, NEW k \in DeliveryRpcs, DropoffCommits(k)
    PROVE  DeliveryInv'
<1> DEFINE o == deliveryCalls[k].delivery
<1>1. /\ deliveryCalls[k] # NoDeliveryCall
      /\ deliveryCalls[k].type = "Dropoff"
      /\ deliveryCalls' = [deliveryCalls EXCEPT ![k] = NoDeliveryCall]
      /\ deliveryTime' = [deliveryTime EXCEPT ![o] = TRUE]
      /\ dropoffs' = [dropoffs EXCEPT ![o] = dropoffs[o] + 1]
      /\ UNCHANGED <<couriers, deliveryRestaurants, deliveryState, assignedCourier,
                     pickupTime, plans, pickedUp, consumerLoop>>
  BY DEF DropoffCommits, CallEnds
<1>2. o \in Orders /\ deliveryCalls[k] = [delivery |-> o, type |-> "Dropoff"]
  BY <1>1, CallIsTyped DEF DeliveryInv
<1> HIDE DEF o
<1>3. /\ deliveryCalls' \in [DeliveryRpcs -> DeliveryCalls \cup {NoDeliveryCall}]
      /\ deliveryCalls'[k] = NoDeliveryCall
      /\ \A j \in DeliveryRpcs \ {k} : deliveryCalls'[j] = deliveryCalls[j]
  BY <1>1 DEF DeliveryInv, DeliveryTypeOK
<1>4. DeliveryTypeOK'
  <2>1. /\ deliveryTime' \in [Orders -> BOOLEAN]
        /\ dropoffs' \in [Orders -> Nat]
    BY <1>1, <1>2 DEF DeliveryInv, DeliveryTypeOK
  <2> QED BY <1>1, <1>3, <2>1 DEF DeliveryInv, DeliveryTypeOK, consumerLoop,
                                  batchVars
<1>5. SchedulerSound'
  BY <1>1, SchedulerStays DEF DeliveryInv, consumerLoop
<1>6. PickupsAreReady'
  <2>1. PickedUpWhenReady'
    BY <1>1 DEF DeliveryInv, DeliveryTypeOK, CallsSound, PickupsAreReady,
                PickedUpWhenReady, NothingTakenBack
  <2>2. ASSUME NEW j \in DeliveryRpcs, deliveryCalls'[j] # NoDeliveryCall,
               deliveryCalls'[j].type = "Pickup"
        PROVE  ReadyUnlessThrownBack(deliveryCalls[j].delivery)'
    BY <1>3, <2>2, CallIsTyped
    DEF DeliveryInv, CallsSound, PickupsAreReady, NothingTakenBack
  <2> QED BY <2>1, <2>2 DEF PickupsAreReady
<1>7. DropoffsCounted'
  <2> SUFFICES ASSUME NEW p \in Orders
               PROVE  /\ ~deliveryTime'[p] => dropoffs'[p] = 0
                      /\ dropoffs'[p] + Cardinality(Dropping(p)')
                            <= Cardinality(DeliveryRpcs)
    BY DEF DropoffsCounted
  <2>1. /\ ~deliveryTime[p] => dropoffs[p] = 0
        /\ dropoffs[p] + Cardinality(Dropping(p)) <= Cardinality(DeliveryRpcs)
        /\ dropoffs[p] \in Nat
    BY DEF DeliveryInv, DeliveryTypeOK, CallsSound, DropoffsCounted
  <2>2. Dropping(p) \in SUBSET DeliveryRpcs
    BY DEF Dropping
  <2>3. IsFiniteSet(Dropping(p)) /\ Cardinality(Dropping(p)) \in Nat
    BY <2>2, CallsCount
  <2>4. NoDeliveryCall # [delivery |-> p, type |-> "Dropoff"]
    BY DeliveryConstants DEF DeliveryCalls
  <2>5. Dropping(p)' = Dropping(p) \ {k}
    BY <1>3, <2>4 DEF Dropping
  <2>6. Cardinality(Dropping(p)')
          = IF k \in Dropping(p) THEN Cardinality(Dropping(p)) - 1
                                 ELSE Cardinality(Dropping(p))
    BY <2>3, <2>5, FS_RemoveElement
  <2>7. CASE p = o
    <3>1. k \in Dropping(p)
      BY <1>2, <2>7 DEF Dropping
    <3>2. dropoffs'[p] = dropoffs[p] + 1 /\ deliveryTime'[p]
      BY <1>1, <2>7 DEF DeliveryInv, DeliveryTypeOK
    <3>3. Cardinality(DeliveryRpcs) \in Nat
      BY <2>2, CallsCount
    <3> QED BY <2>1, <2>3, <2>6, <3>1, <3>2, <3>3
  <2>8. CASE p # o
    <3>1. k \notin Dropping(p)
      BY <1>2, <2>8 DEF Dropping
    <3>2. dropoffs'[p] = dropoffs[p] /\ deliveryTime'[p] = deliveryTime[p]
      BY <1>1, <2>8 DEF DeliveryInv, DeliveryTypeOK
    <3> QED BY <2>1, <2>6, <3>1, <3>2
  <2> QED BY <2>7, <2>8
<1> QED BY <1>4, <1>5, <1>6, <1>7 DEF DeliveryInv, CallsSound

-----------------------------------------------------------------------------
(* The system starts and steps. *)

LEMMA InitInv == Init => SystemInv
<1> SUFFICES ASSUME Init PROVE SystemInv
  OBVIOUS
<1> USE DEF Init, DeliveryInit
<1>1. GatewayTypeOK
  BY GatewayConstants, SagaConstants
  DEF AuthInit, MessagesInit, ConsumerInit, RestaurantInit, GatewayTypeOK,
      MessagesTypeOK, ConsumerTypeOK
<1>2. KitchenSound
  <2>1. KitchenInv
    BY KitchenInitInv
  <2>2. EventsInOrder
    BY DEF KitchenInit, EventsInOrder, Published, Range
  <2> QED BY <2>1, <2>2 DEF KitchenSound
<1>3. DeliveryTypeOK
  <2>1. <<>> \in Seq(Couriers) /\ <<>> \in Seq(Orders) /\ Len(<<>>) = 0
    OBVIOUS
  <2>2. /\ plans \in [Orders -> Seq(Couriers)]
        /\ accepted \in Seq(Orders) /\ Len(accepted) = 0
    BY <2>1
  <2>3. /\ offset = 0 /\ position = 0 /\ polled = 0
        /\ deliveryFailures \in 0..MaxDeliveryFailures
    BY DeliveryConstants
  <2>4. /\ couriers \in [Couriers -> {"None", "off", "on"}]
        /\ deliveryState \in [Orders -> {"None", "Pending", "Scheduled"}]
        /\ assignedCourier \in [Orders -> Couriers \cup {NoCourier}]
        /\ pickupTime \in [Orders -> {"None", "Planned", "Performed"}]
        /\ deliveryTime \in [Orders -> BOOLEAN]
        /\ dropoffs \in [Orders -> Nat]
        /\ deliveryCalls \in [DeliveryRpcs -> DeliveryCalls \cup {NoDeliveryCall}]
    OBVIOUS
  <2>5. /\ chosen \in Couriers \cup {NoCourier} /\ planned \in BOOLEAN
        /\ pickedUp \subseteq Orders /\ deliveryRestaurants \subseteq Restaurants
    OBVIOUS
  <2> HIDE DEF Init, DeliveryInit
  <2> QED BY <2>2, <2>3, <2>4, <2>5 DEF DeliveryTypeOK
<1>4. SchedulerSound
  <2>1. HandledIsScheduled /\ PickIsPlanned /\ ScheduledHasPlan
    BY DEF HandledIsScheduled, PickIsPlanned, ScheduledHasPlan
  <2>2. \A o \in Orders : Range(plans[o]) = {}
    BY DEF Range
  <2> QED BY <2>1, <2>2 DEF SchedulerSound, OnDutyIsOwned
<1>5. CallsSound
  <2>1. PickupsAreReady
    BY DEF PickupsAreReady, PickedUpWhenReady
  <2>2. ASSUME NEW o \in Orders
        PROVE  dropoffs[o] + Cardinality(Dropping(o)) <= Cardinality(DeliveryRpcs)
    <3>1. Dropping(o) \in SUBSET DeliveryRpcs
      BY DEF Dropping
    <3> QED BY <3>1, CallsCount
  <2> QED BY <2>1, <2>2 DEF CallsSound, DropoffsCounted
<1> QED BY <1>1, <1>2, <1>3, <1>4, <1>5 DEF SystemInv, DeliveryInv

\* Steps that touch neither tickets nor deliveries.
LEMMA RestStays ==
    ASSUME SystemInv, GatewayTypeOK', grants \subseteq grants',
           UNCHANGED kitchenVars, UNCHANGED deliveryVars
    PROVE  SystemInv'
<1>1. KitchenSound'
  BY KitchenStays DEF SystemInv
<1>2. NothingTakenBack
  BY KitchenStays DEF SystemInv, NothingTakenBack
<1>3. DeliveryInv'
  BY <1>2, DeliveryStays DEF SystemInv
<1> QED BY <1>1, <1>3 DEF SystemInv

LEMMA SignUpInv ==
    ASSUME SystemInv, NEW u \in Users, SignUp(u)
    PROVE  SystemInv'
<1>1. GatewayTypeOK' /\ grants \subseteq grants'
  BY DEF SystemInv, GatewayTypeOK, SignUp, CreateUser, messageVars,
         consumerVars, restaurantVars, gatewayVars, MessagesTypeOK, ConsumerTypeOK
<1> QED BY <1>1, RestStays DEF SignUp

\* A registration begins with the entity, whatever service creates it.
LEMMA RegisteringInv ==
    ASSUME SystemInv, NEW h \in HttpCalls, NEW u \in Users, NEW e \in Entities,
           Registering(h, u, e),
           pending' = pending, redeliveries' = redeliveries,
           consumerEvents' \subseteq Consumers, consumers' \subseteq Consumers,
           restaurants' \subseteq Restaurants
    PROVE  GatewayTypeOK' /\ grants \subseteq grants'
<1>1. requests' \in [HttpCalls -> Requests \cup {NoRequest}]
  BY DEF SystemInv, GatewayTypeOK, Registering, Requests
<1> QED BY <1>1 DEF SystemInv, GatewayTypeOK, Registering, authVars,
                    MessagesTypeOK, ConsumerTypeOK

LEMMA RegisterConsumerInv ==
    ASSUME SystemInv, NEW h \in HttpCalls, NEW u \in Users, NEW c \in Consumers,
           RegisterConsumer(h, u, c)
    PROVE  SystemInv'
<1>1. /\ Registering(h, u, c) /\ c \in Entities
      /\ pending' = pending /\ redeliveries' = redeliveries
      /\ consumers' = consumers \cup {c}
      /\ consumerEvents' = consumerEvents \cup {c}
      /\ UNCHANGED restaurants
  BY DEF RegisterConsumer, CreateConsumer, Entities, restaurantVars
<1>2. GatewayTypeOK' /\ grants \subseteq grants'
  BY <1>1, RegisteringInv
  DEF SystemInv, GatewayTypeOK, MessagesTypeOK, ConsumerTypeOK
<1> QED BY <1>2, RestStays DEF RegisterConsumer

LEMMA RegisterRestaurantInv ==
    ASSUME SystemInv, NEW h \in HttpCalls, NEW u \in Users, NEW r \in Restaurants,
           RegisterRestaurant(h, u, r)
    PROVE  SystemInv'
<1>1. /\ Registering(h, u, r) /\ r \in Entities
      /\ restaurants' = restaurants \cup {r}
      /\ UNCHANGED <<pending, redeliveries, consumerEvents, consumers>>
  BY DEF RegisterRestaurant, CreateRestaurant, Entities, messageVars, consumerVars
<1>2. GatewayTypeOK' /\ grants \subseteq grants'
  BY <1>1, RegisteringInv
  DEF SystemInv, GatewayTypeOK, MessagesTypeOK, ConsumerTypeOK
<1> QED BY <1>2, RestStays DEF RegisterRestaurant

LEMMA RegisterCourierInv ==
    ASSUME SystemInv, NEW h \in HttpCalls, NEW u \in Users, NEW c \in Couriers,
           RegisterCourier(h, u, c)
    PROVE  SystemInv'
<1>1. /\ Registering(h, u, c) /\ c \in Entities
      /\ UNCHANGED <<pending, redeliveries, consumerEvents, consumers, restaurants>>
  BY DEF RegisterCourier, Entities, messageVars, consumerVars, restaurantVars
<1>2. GatewayTypeOK' /\ grants \subseteq grants'
  BY <1>1, RegisteringInv
  DEF SystemInv, GatewayTypeOK, MessagesTypeOK, ConsumerTypeOK
<1>3. KitchenSound'
  BY KitchenStays DEF SystemInv, RegisterCourier
<1>4. NothingTakenBack
  BY <1>2, KitchenStays DEF SystemInv, RegisterCourier, NothingTakenBack
<1>5. DeliveryInv'
  BY <1>4, CreateCourierInv DEF SystemInv, RegisterCourier
<1> QED BY <1>2, <1>3, <1>5 DEF SystemInv

\* It ends with the grant, or without.
LEMMA RegistrationInv ==
    ASSUME SystemInv, NEW h \in HttpCalls,
           RegistrationEnds(h) \/ RegistrationFails(h)
    PROVE  SystemInv'
<1>1. /\ requests[h] # NoRequest
      /\ requests' = [requests EXCEPT ![h] = NoRequest]
      /\ UNCHANGED <<pending, redeliveries, consumerEvents, consumers, restaurants>>
      /\ UNCHANGED kitchenVars /\ UNCHANGED deliveryVars
  BY DEF RegistrationEnds, RegistrationFails, RequestEnds, messageVars,
         consumerVars, restaurantVars
<1>2. requests' \in [HttpCalls -> Requests \cup {NoRequest}]
  BY <1>1 DEF SystemInv, GatewayTypeOK
<1>3. requests[h].entity \in Entities
  BY <1>1 DEF SystemInv, GatewayTypeOK, Requests
<1>4. /\ users' \subseteq Users /\ grants' \subseteq users' \X Entities
      /\ grants \subseteq grants'
  <2>1. CASE RegistrationEnds(h)
    BY <1>3, <2>1 DEF RegistrationEnds, GrantsTo, Grant, SystemInv, GatewayTypeOK
  <2>2. CASE RegistrationFails(h)
    BY <2>2 DEF RegistrationFails, authVars, SystemInv, GatewayTypeOK
  <2> QED BY <2>1, <2>2
<1>5. gatewayFailures' \in 0..MaxGatewayFailures
  BY GatewayConstants
  DEF RegistrationEnds, RegistrationFails, SystemInv, GatewayTypeOK
<1>6. GatewayTypeOK'
  BY <1>1, <1>2, <1>4, <1>5
  DEF SystemInv, GatewayTypeOK, MessagesTypeOK, ConsumerTypeOK
<1> QED BY <1>1, <1>4, <1>6, RestStays

\* What is published about a confirmed ticket is one of the kitchen's events.
LEMMA PublishType ==
    ASSUME KitchenTypeOK, NEW o \in Orders, NEW state \in ConfirmedStates,
           Publish(o, state)
    PROVE  kitchenEvents' \in [Orders -> Seq({EventOf[s] : s \in ConfirmedStates})]
<1> DEFINE E == {EventOf[s] : s \in ConfirmedStates}
<1>1. EventOf[state] \in E
  BY EventOfType
<1> HIDE DEF E
<1>2. kitchenEvents \in [Orders -> Seq(E)]
  BY DEF KitchenTypeOK, E
<1>3. Append(kitchenEvents[o], EventOf[state]) \in Seq(E)
  BY <1>1, <1>2
<1>4. kitchenEvents' \in [Orders -> Seq(E)]
  BY <1>2, <1>3 DEF Publish
<1> QED BY <1>4 DEF E

\* What is published is added to what was, and shows if it comes twice.
LEMMA PublishAdds ==
    ASSUME KitchenTypeOK, NEW o \in Orders, NEW state \in ConfirmedStates,
           Publish(o, state)
    PROVE  /\ \A p \in Orders, s \in ConfirmedStates :
                  Published(p, s)' <=> Published(p, s) \/ (p = o /\ s = state)
           /\ \A p \in Orders : ThrownBack(p) => ThrownBack(p)'
           /\ Published(o, state) => ThrownBack(o)'
           /\ \A p \in Orders \ {o} : kitchenEvents'[p] = kitchenEvents[p]
<1> DEFINE E == {EventOf[s] : s \in ConfirmedStates}
           e == kitchenEvents[o]
<1>1. EventOf[state] \in E
  BY EventOfType
<1> HIDE DEF E
<1>2. kitchenEvents \in [Orders -> Seq(E)]
  BY DEF KitchenTypeOK, E
<1>3. /\ kitchenEvents'[o] = Append(e, EventOf[state])
      /\ \A p \in Orders \ {o} : kitchenEvents'[p] = kitchenEvents[p]
  BY <1>2 DEF Publish
<1>4. /\ e \in Seq(E) /\ Len(e) \in Nat
      /\ DOMAIN e = 1..Len(e) /\ DOMAIN Append(e, EventOf[state]) = 1..(Len(e) + 1)
      /\ \A i \in 1..Len(e) : Append(e, EventOf[state])[i] = e[i]
      /\ Append(e, EventOf[state])[Len(e) + 1] = EventOf[state]
  BY <1>1, <1>2
<1>5. Range(kitchenEvents'[o]) = Range(e) \cup {EventOf[state]}
  BY <1>1, <1>3, <1>4, AppendRange
<1>6. \A s, t \in ConfirmedStates : EventOf[s] = EventOf[t] => s = t
  BY DEF ConfirmedStates, EventOf
<1>7. \A p \in Orders, s \in ConfirmedStates :
         Published(p, s)' <=> Published(p, s) \/ (p = o /\ s = state)
  BY <1>3, <1>5, <1>6 DEF Published
<1>8. ThrownBack(o) => ThrownBack(o)'
  BY <1>3, <1>4 DEF ThrownBack, IsInjective
<1>9. Published(o, state) => ThrownBack(o)'
  BY <1>3, <1>4 DEF Published, Range, ThrownBack, IsInjective
<1>10. \A p \in Orders : ThrownBack(p) => ThrownBack(p)'
  BY <1>3, <1>8 DEF ThrownBack
<1> QED BY <1>3, <1>7, <1>9, <1>10

\* A new ticket gets its number; it was not ready, nor is it scheduled.
LEMMA PlaceOrderInv ==
    ASSUME SystemInv, NEW u \in Users, NEW o \in Orders, PlaceOrder(u, o)
    PROVE  SystemInv'
<1>1. /\ tickets[o] = "None"
      /\ SetTicket(o, "AwaitingAcceptance")
      /\ ticketNumber' = [ticketNumber EXCEPT ![o] = NextNumber(o)]
      /\ Publish(o, "AwaitingAcceptance")
      /\ UNCHANGED <<kitchenRestaurants, kitchenCalls, kitchenUp>>
      /\ UNCHANGED <<authVars, gatewayVars, messageVars, consumerVars, restaurantVars>>
      /\ UNCHANGED deliveryVars
  BY DEF PlaceOrder, Forwarded
<1>2. GatewayTypeOK'
  BY <1>1 DEF SystemInv, GatewayTypeOK, authVars, gatewayVars, messageVars,
              consumerVars, restaurantVars, MessagesTypeOK, ConsumerTypeOK
<1>3. NextNumber(o) \in Nat
  BY NextNumberType DEF SystemInv, KitchenSound
<1>4. KitchenTypeOK'
  <2> USE DEF SystemInv, KitchenSound, KitchenInv, KitchenTypeOK
  <2>1. tickets' \in [Orders -> TicketStates]
    BY <1>1 DEF SetTicket, TicketStates
  <2>2. kitchenEvents' \in [Orders -> Seq({EventOf[s] : s \in ConfirmedStates})]
    BY <1>1, PublishType DEF ConfirmedStates
  <2>3. ticketNumber' \in [Orders -> Nat]
    BY <1>1, <1>3
  <2> QED BY <1>1, <2>1, <2>2, <2>3
<1>5. KitchenInv'
  BY <1>1, <1>4, NewTicketInv DEF SystemInv, KitchenSound, TicketStates
<1>6. \A p \in Orders, s \in ConfirmedStates :
         Published(p, s)' <=> Published(p, s) \/ (p = o /\ s = "AwaitingAcceptance")
  BY <1>1, PublishAdds DEF SystemInv, KitchenSound, KitchenInv, ConfirmedStates
<1>7. EventsInOrder'
  <2>1. \A p \in Orders, s \in {"Accepted", "Preparing", "ReadyForPickup"} :
           Published(p, s)' <=> Published(p, s)
    BY <1>6 DEF ConfirmedStates
  <2>2. \A p \in Orders, s \in {"Accepted", "Preparing", "ReadyForPickup"} :
           tickets'[p] = s => tickets[p] = s
    BY <1>1 DEF SystemInv, KitchenSound, KitchenInv, KitchenTypeOK, SetTicket
  <2>3. \A k \in KitchenRpcs : kitchenCalls[k] # NoCall => kitchenCalls[k].ticket \in Orders
    BY DEF SystemInv, KitchenSound, KitchenInv, KitchenTypeOK, Calls
  <2> QED BY <1>1, <2>1, <2>2, <2>3 DEF SystemInv, KitchenSound, EventsInOrder
<1>8. NothingTakenBack
  <2>1. \A p \in Orders : ReportedReady(p) => ReportedReady(p)'
    BY <1>6 DEF ReportedReady, Published, EventOf, ConfirmedStates
  <2>2. \A p \in Orders : ThrownBack(p) => ThrownBack(p)'
    BY <1>1, PublishAdds DEF SystemInv, KitchenSound, KitchenInv, ConfirmedStates
  <2>3. \A p \in Orders : tickets[p] = "ReadyForPickup" => tickets'[p] = "ReadyForPickup"
    BY <1>1 DEF SystemInv, KitchenSound, KitchenInv, KitchenTypeOK, SetTicket
  <2> QED BY <1>1, <2>1, <2>2, <2>3
          DEF NothingTakenBack, ReadyUnlessThrownBack, authVars
<1>9. DeliveryInv'
  BY <1>1, <1>8, DeliveryStays DEF SystemInv
<1> QED BY <1>2, <1>5, <1>7, <1>9 DEF SystemInv, KitchenSound

\* A restaurant's call that reads, reads what has been published.
LEMMA CookReadsInv ==
    ASSUME SystemInv, NEW u \in Users, NEW r \in Restaurants,
           NEW k \in KitchenRpcs, NEW o \in Orders, CookReads(u, r, k, o)
    PROVE  SystemInv'
<1> DEFINE call == [ticket |-> o, target |-> CallTargets[tickets[o]]]
<1>1. /\ CallReads(k, o)
      /\ tickets[o] \in DOMAIN CallTargets
      /\ kitchenCalls' = [kitchenCalls EXCEPT ![k] = call]
      /\ UNCHANGED <<kitchenRestaurants, tickets, ticketNumber, kitchenEvents, kitchenUp>>
      /\ UNCHANGED <<authVars, gatewayVars, messageVars, consumerVars, restaurantVars>>
      /\ UNCHANGED deliveryVars
  BY DEF CookReads, CallReads, Forwarded, messageVars
<1>2. /\ kitchenCalls'[k] = call
      /\ \A j \in KitchenRpcs \ {k} : kitchenCalls'[j] = kitchenCalls[j]
  BY <1>1 DEF SystemInv, KitchenSound, KitchenInv, KitchenTypeOK
<1>3. /\ call.ticket = o
      /\ call.target = "Preparing" => tickets[o] = "Accepted"
      /\ call.target = "ReadyForPickup" => tickets[o] = "Preparing"
  BY <1>1 DEF CallTargets
<1> HIDE DEF call
<1>4. GatewayTypeOK'
  BY <1>1 DEF SystemInv, GatewayTypeOK, authVars, gatewayVars, messageVars,
              consumerVars, restaurantVars, MessagesTypeOK, ConsumerTypeOK
<1>5. KitchenInv'
  BY <1>1, CallReadsInv DEF SystemInv, KitchenSound
<1>6. EventsInOrder'
  <2>1. \A p, s : Published(p, s)' <=> Published(p, s)
    BY <1>1 DEF Published
  <2> QED BY <1>1, <1>2, <1>3, <2>1 DEF SystemInv, KitchenSound, EventsInOrder
<1>7. NothingTakenBack
  BY <1>1 DEF NothingTakenBack, ReadyUnlessThrownBack, ReportedReady, ThrownBack,
              authVars
<1>8. DeliveryInv'
  BY <1>1, <1>7, DeliveryStays DEF SystemInv
<1> QED BY <1>4, <1>5, <1>6, <1>8 DEF SystemInv, KitchenSound

\* A call that throws a ready ticket back publishes what was published before.
LEMMA CookCommitsInv ==
    ASSUME SystemInv, NEW k \in KitchenRpcs, CookCommits(k)
    PROVE  SystemInv'
<1>1. PICK o \in Orders, target \in {"Accepted", "Preparing", "ReadyForPickup"} :
         kitchenCalls[k].ticket = o /\ kitchenCalls[k].target = target
  BY DEF CookCommits, CallWrites, SystemInv, KitchenSound, KitchenInv,
         KitchenTypeOK, Calls
<1>2. /\ CallWrites(k)
      /\ SetTicket(o, target)
      /\ Publish(o, target)
      /\ kitchenCalls[k] # NoCall
      /\ kitchenCalls' = [kitchenCalls EXCEPT ![k] = NoCall]
      /\ accepted' = Append(accepted, o) \/ accepted' = accepted
      /\ UNCHANGED <<kitchenRestaurants, ticketNumber, kitchenUp>>
      /\ UNCHANGED <<authVars, gatewayVars, messageVars, consumerVars, restaurantVars>>
      /\ UNCHANGED <<couriers, deliveryRestaurants, deliveryRows, plans,
                     deliveryEvents, deliveryCalls, batchVars, deliveryFailures>>
  BY <1>1 DEF CookCommits, CallWrites, Forwarded, messageVars
<1>3. /\ target = "Preparing" => Published(o, "Accepted")
      /\ target = "ReadyForPickup" => Published(o, "Preparing")
  BY <1>1, <1>2 DEF SystemInv, KitchenSound, EventsInOrder
<1>4. \A j \in KitchenRpcs : kitchenCalls'[j] # NoCall =>
         kitchenCalls'[j] = kitchenCalls[j] /\ kitchenCalls[j].ticket \in Orders
  BY <1>2 DEF SystemInv, KitchenSound, KitchenInv, KitchenTypeOK, Calls
<1>5. GatewayTypeOK'
  BY <1>2 DEF SystemInv, GatewayTypeOK, authVars, gatewayVars, messageVars,
              consumerVars, restaurantVars, MessagesTypeOK, ConsumerTypeOK
<1>6. KitchenInv'
  BY <1>2, CallWritesInv DEF SystemInv, KitchenSound
<1>7. /\ \A p \in Orders, s \in ConfirmedStates :
            Published(p, s)' <=> Published(p, s) \/ (p = o /\ s = target)
      /\ \A p \in Orders : ThrownBack(p) => ThrownBack(p)'
      /\ Published(o, target) => ThrownBack(o)'
  BY <1>2, <1>3, PublishAdds DEF SystemInv, KitchenSound, KitchenInv, ConfirmedStates
<1>8. \A p \in Orders : tickets'[p] = IF p = o THEN target ELSE tickets[p]
  BY <1>2, <1>3 DEF SystemInv, KitchenSound, KitchenInv, KitchenTypeOK, SetTicket
<1>9. EventsInOrder'
  <2>1. \A p \in Orders, s \in {"Accepted", "Preparing", "ReadyForPickup"} :
           Published(p, s)' <=> Published(p, s) \/ (p = o /\ s = target)
    BY <1>7 DEF ConfirmedStates
  <2>2. ASSUME NEW p \in Orders
        PROVE  /\ Published(p, "Preparing")' => Published(p, "Accepted")'
               /\ Published(p, "ReadyForPickup")' => Published(p, "Preparing")'
               /\ \A s \in {"Accepted", "Preparing", "ReadyForPickup"} :
                     tickets'[p] = s => Published(p, s)'
    BY <1>3, <1>8, <2>1 DEF SystemInv, KitchenSound, EventsInOrder
  <2> QED BY <1>4, <2>1, <2>2 DEF SystemInv, KitchenSound, EventsInOrder
<1>10. NothingTakenBack
  <2>1. ASSUME NEW p \in Orders, ReadyUnlessThrownBack(p)
        PROVE  ReadyUnlessThrownBack(p)'
    <3>1. ReportedReady(p) <=> Published(p, "ReadyForPickup")
      BY DEF ReportedReady, Published, EventOf
    <3>2. ReportedReady(p)' <=> Published(p, "ReadyForPickup")'
      BY DEF ReportedReady, Published, EventOf
    <3>3. ReportedReady(p)'
      BY <1>7, <2>1, <3>1, <3>2 DEF ReadyUnlessThrownBack, ConfirmedStates
    <3>4. \A s \in {"Accepted", "Preparing", "ReadyForPickup"} : Published(p, s)
      BY <2>1, <3>1 DEF ReadyUnlessThrownBack, SystemInv, KitchenSound, EventsInOrder
    <3>5. CASE ThrownBack(p) \/ p = o
      BY <1>3, <1>7, <3>3, <3>4, <3>5 DEF ReadyUnlessThrownBack
    <3>6. CASE ~ThrownBack(p) /\ p # o
      BY <1>8, <2>1, <3>3, <3>6 DEF ReadyUnlessThrownBack
    <3> QED BY <3>5, <3>6
  <2> QED BY <1>2, <2>1 DEF NothingTakenBack, authVars
<1>11. DeliveryInv'
  <2>1. CASE accepted' = Append(accepted, o)
    BY <1>2, <1>3, <1>10, <2>1, TopicGrowsInv DEF SystemInv
  <2>2. CASE accepted' = accepted
    BY <1>2, <1>10, <2>2, DeliveryStays DEF SystemInv, deliveryVars, consumerLoop
  <2> QED BY <1>2, <2>1, <2>2
<1> QED BY <1>5, <1>6, <1>9, <1>11 DEF SystemInv, KitchenSound

LEMMA KitchenHearsInv ==
    ASSUME SystemInv, NEW r \in Restaurants, KitchenHears(r)
    PROVE  SystemInv'
<1>1. /\ kitchenRestaurants' = kitchenRestaurants \cup {r}
      /\ UNCHANGED <<tickets, ticketNumber, kitchenEvents, kitchenCalls, kitchenUp>>
      /\ UNCHANGED <<authVars, gatewayVars, messageVars, consumerVars, restaurantVars>>
      /\ UNCHANGED deliveryVars
  BY DEF KitchenHears, KitchenLearnsRestaurant, Forwarded
<1>2. GatewayTypeOK'
  BY <1>1 DEF SystemInv, GatewayTypeOK, authVars, gatewayVars, messageVars,
              consumerVars, restaurantVars, MessagesTypeOK, ConsumerTypeOK
<1>3. KitchenSound'
  <2>1. KitchenTypeOK' /\ CallsOnTickets'
    BY <1>1 DEF SystemInv, KitchenSound, KitchenInv, KitchenTypeOK, CallsOnTickets
  <2>2. KitchenInv'
    BY <1>1, <2>1, NumbersUnchanged DEF SystemInv, KitchenSound
  <2>3. EventsInOrder'
    BY <1>1 DEF SystemInv, KitchenSound, EventsInOrder, Published
  <2> QED BY <2>2, <2>3 DEF KitchenSound
<1>4. NothingTakenBack
  BY <1>1 DEF NothingTakenBack, ReadyUnlessThrownBack, ReportedReady, ThrownBack,
              authVars
<1>5. DeliveryInv'
  BY <1>1, <1>4, DeliveryStays DEF SystemInv
<1> QED BY <1>2, <1>3, <1>5 DEF SystemInv

LEMMA DeliveryStepInv ==
    ASSUME SystemInv, OnlyDelivery,
           \/ SchedulerNext \/ ConsumerCrashes \/ AcceptedRepeats
           \/ \E k \in DeliveryRpcs : PickupCommits(k) \/ DropoffCommits(k)
           \/ \E o \in Orders : DeliveryAppears(o)
           \/ \E r \in Restaurants : DeliveryLearnsRestaurant(r)
    PROVE  SystemInv'
<1>1. GatewayTypeOK' /\ KitchenSound' /\ NothingTakenBack
  BY OthersStay
<1>2. DeliveryInv'
  BY <1>1, SchedulerStepInv, PickupCommitsInv, DropoffCommitsInv,
     DeliveryAppearsInv, DeliveryLearnsRestaurantInv DEF SystemInv
<1> QED BY <1>1, <1>2 DEF SystemInv

\* What users ask of the delivery service.
LEMMA DeliveryRequestInv ==
    ASSUME SystemInv, NEW u \in Users,
           \/ \E c \in Couriers, availability \in {"off", "on"} :
                 UpdateAvailability(u, c, availability)
           \/ \E k \in DeliveryRpcs, o \in Orders :
                 ReportPickup(u, k, o) \/ ReportDropoff(u, k, o)
    PROVE  SystemInv'
<1>1. OnlyDelivery
  BY DEF UpdateAvailability, ReportPickup, ReportDropoff
<1>2. GatewayTypeOK' /\ KitchenSound' /\ NothingTakenBack
  BY <1>1, OthersStay
<1>3. ASSUME NEW c \in Couriers, NEW availability \in {"off", "on"},
             UpdateAvailability(u, c, availability)
      PROVE  DeliveryInv'
  <2>1. HasOwner(c)
    <3>1. PICK g \in grants : g[1] = u /\ g[2] = c
      BY <1>3 DEF UpdateAvailability, HasAccess, GrantsOf
    <3>2. g = <<u, c>>
      BY <3>1 DEF SystemInv, GatewayTypeOK
    <3> QED BY <3>1, <3>2 DEF HasOwner
  <2> QED BY <1>2, <1>3, <2>1, SetAvailabilityInv
          DEF UpdateAvailability, SystemInv
<1>4. ASSUME NEW k \in DeliveryRpcs, NEW o \in Orders,
             ReportPickup(u, k, o) \/ ReportDropoff(u, k, o)
      PROVE  DeliveryInv'
  BY <1>2, <1>4, PickupAsksInv, DropoffReadsInv
  DEF ReportPickup, ReportDropoff, SystemInv, KitchenSound
<1> QED BY <1>2, <1>3, <1>4 DEF SystemInv

LEMMA StutterInv ==
    ASSUME SystemInv, UNCHANGED vars
    PROVE  SystemInv'
<1>1. GatewayTypeOK' /\ grants \subseteq grants'
  BY DEF SystemInv, GatewayTypeOK, vars, authVars, gatewayVars, messageVars,
         consumerVars, restaurantVars, MessagesTypeOK, ConsumerTypeOK
<1> QED BY <1>1, RestStays DEF vars

LEMMA StepInv ==
    ASSUME SystemInv, [Next]_vars
    PROVE  SystemInv'
<1>1. CASE GatewayNext
  BY <1>1, SignUpInv, RegisterConsumerInv, RegisterRestaurantInv,
     RegisterCourierInv, PlaceOrderInv, CookReadsInv, DeliveryRequestInv,
     RegistrationInv DEF GatewayNext
<1>2. CASE ServicesNext
  BY <1>2, KitchenHearsInv, CookCommitsInv, DeliveryStepInv
  DEF ServicesNext, DeliveryHears, Scheduling
<1> QED BY <1>1, <1>2, StutterInv DEF Next

-----------------------------------------------------------------------------
LEMMA SystemInvariant == Spec => []SystemInv
<1> QED BY InitInv, StepInv, PTL DEF Spec

(***************************************************************************)
(* Every table of the five services and of the gateway keeps its type.     *)
(***************************************************************************)
THEOREM GatewayTypeCorrect == Spec => []TypeOK
<1>1. SystemInv => TypeOK
  BY DEF SystemInv, GatewayTypeOK, KitchenSound, KitchenInv, DeliveryInv, TypeOK
<1> QED BY <1>1, SystemInvariant, PTL

(***************************************************************************)
(* Whatever get_delivery_status looks up for a scheduled delivery is there *)
(* (delivery consumer.rs:116-129).                                         *)
(***************************************************************************)
THEOREM ScheduledIsPlanned == Spec => []ScheduledHasPlan
<1>1. SystemInv => ScheduledHasPlan
  BY DEF SystemInv, DeliveryInv, SchedulerSound
<1> QED BY <1>1, SystemInvariant, PTL

(***************************************************************************)
(* No courier without an owner is given work (gateway delivery.rs:251).    *)
(***************************************************************************)
THEOREM PlannedIsOwned == Spec => []OnlyOwnedCouriersPlanned
<1>1. SystemInv => OnlyOwnedCouriersPlanned
  BY PlansOwned DEF SystemInv
<1> QED BY <1>1, SystemInvariant, PTL

(***************************************************************************)
(* What the consumer has committed it has scheduled, whatever crashes and  *)
(* panics came in between (delivery consumer.rs:158-183).                  *)
(***************************************************************************)
THEOREM AcceptancesNotLost == Spec => []CommittedIsScheduled
<1>1. SystemInv => CommittedIsScheduled
  BY DEF SystemInv, DeliveryInv, DeliveryTypeOK, SchedulerSound,
         HandledIsScheduled, CommittedIsScheduled
<1> QED BY <1>1, SystemInvariant, PTL

(***************************************************************************)
(* What is picked up has been reported ready.  The kitchen's answer, read  *)
(* before the transaction, goes stale only if calls to the kitchen overlap *)
(* and one of them repeats an event of the ticket: the events up to the    *)
(* one that reports it ready have all been published then, and whatever    *)
(* is written later publishes one of them again (delivery rpc.rs:154-191,  *)
(* kitchen rpc.rs:181-204).                                                *)
(***************************************************************************)
THEOREM PickupsOnlyWhenReady == Spec => []PickedUpWhenReady
<1>1. SystemInv => PickedUpWhenReady
  BY DEF SystemInv, DeliveryInv, CallsSound, PickupsAreReady
<1> QED BY <1>1, SystemInvariant, PTL

(***************************************************************************)
(* The unlocked read of dropoff_delivery lets at most the calls that       *)
(* overlap announce the same dropoff (delivery rpc.rs:234-258).            *)
(***************************************************************************)
THEOREM DropoffsBounded == Spec => []DropoffsPerCall
<1>1. ASSUME SystemInv, NEW o \in Orders
      PROVE  dropoffs[o] <= Cardinality(DeliveryRpcs)
  <2>1. Dropping(o) \in SUBSET DeliveryRpcs
    BY DEF Dropping
  <2>2. dropoffs[o] \in Nat
    BY <1>1 DEF SystemInv, DeliveryInv, DeliveryTypeOK
  <2>3. dropoffs[o] + Cardinality(Dropping(o)) <= Cardinality(DeliveryRpcs)
    BY <1>1 DEF SystemInv, DeliveryInv, CallsSound, DropoffsCounted
  <2> QED BY <2>1, <2>2, <2>3, CallsCount
<1>2. SystemInv => DropoffsPerCall
  BY <1>1 DEF DropoffsPerCall
<1> QED BY <1>2, SystemInvariant, PTL

-----------------------------------------------------------------------------
(* How often a delivery is planned. *)

Handled(o, n) == Cardinality({k \in 1..n : accepted[k] = o})

Planned == IF planned THEN position + 1 ELSE position

\* Each record up to the one at hand has been planned once, and a failure
\* costs at most all of them once more.
PlansCounted ==
    \A o \in Orders :
        Len(plans[o]) <= Handled(o, Planned) + Records(o) * deliveryFailures

LEMMA TimesOneMore ==
    ASSUME NEW a \in Nat, NEW f \in Nat
    PROVE  a * f \in Nat /\ a * (1 + f) = a * f + a /\ a * (f + 1) = a * f + a
OBVIOUS

LEMMA TimesMonotone ==
    ASSUME NEW a \in Nat, NEW b \in Nat, NEW f \in Nat, a <= b
    PROVE  a * f <= b * f
<1>1. PICK d \in Nat : b = a + d
  <2>1. b - a \in Nat /\ b = a + (b - a)
    OBVIOUS
  <2> QED BY <2>1
<1>2. b * f = a * f + d * f /\ d * f >= 0
  BY <1>1
<1> QED BY <1>2

\* Records are counted one by one.
LEMMA HandledCounts ==
    ASSUME NEW o, NEW n \in Nat
    PROVE  /\ Handled(o, n) \in Nat
           /\ IsFiniteSet({k \in 1..n : accepted[k] = o})
           /\ Handled(o, n + 1)
                = IF accepted[n + 1] = o THEN Handled(o, n) + 1 ELSE Handled(o, n)
<1> DEFINE S == {k \in 1..n : accepted[k] = o}
           T == {k \in 1..(n + 1) : accepted[k] = o}
<1>1. IsFiniteSet(1..n) /\ S \in SUBSET (1..n)
  BY FS_Interval
<1>2. IsFiniteSet(S) /\ Cardinality(S) \in Nat
  BY <1>1, FS_Subset, FS_CardinalityType
<1>3. n + 1 \notin S
  OBVIOUS
<1>4. T = IF accepted[n + 1] = o THEN S \cup {n + 1} ELSE S
  OBVIOUS
<1> HIDE DEF S, T
<1>5. Cardinality(T) = IF accepted[n + 1] = o THEN Cardinality(S) + 1 ELSE Cardinality(S)
  BY <1>2, <1>3, <1>4, FS_AddElement
<1> QED BY <1>2, <1>5 DEF Handled, S, T

LEMMA HandledGrows ==
    ASSUME NEW o, NEW n \in Nat, NEW m \in Nat, n <= m
    PROVE  Handled(o, n) <= Handled(o, m)
<1> DEFINE S == {k \in 1..n : accepted[k] = o}
           T == {k \in 1..m : accepted[k] = o}
<1>1. S \in SUBSET T
  OBVIOUS
<1>2. IsFiniteSet(T)
  BY HandledCounts
<1> HIDE DEF S, T
<1>3. Cardinality(S) <= Cardinality(T)
  BY <1>1, <1>2, FS_Subset
<1> QED BY <1>3 DEF Handled, S, T

\* Planned is a record, and none is counted twice.
LEMMA PlannedBounds ==
    ASSUME DeliveryInv, NEW o \in Orders
    PROVE  /\ Planned \in Nat /\ position \in Nat /\ offset \in Nat
           /\ offset <= position /\ position <= Planned /\ Planned <= Len(accepted)
           /\ Len(accepted) \in Nat /\ Len(plans[o]) \in Nat
           /\ deliveryFailures \in Nat
           /\ Records(o) \in Nat /\ Records(o) = Handled(o, Len(accepted))
           /\ Handled(o, Planned) \in Nat /\ Handled(o, position) \in Nat
           /\ Handled(o, Planned) <= Records(o)
<1>1. /\ Planned \in Nat /\ position \in Nat /\ offset \in Nat
      /\ offset <= position /\ position <= Planned /\ Planned <= Len(accepted)
      /\ Len(accepted) \in Nat
  BY DEF DeliveryInv, DeliveryTypeOK, SchedulerSound, PickIsPlanned, Planned
<1>2. Len(plans[o]) \in Nat /\ deliveryFailures \in Nat
  BY DEF DeliveryInv, DeliveryTypeOK
<1>3. Records(o) = Handled(o, Len(accepted))
  BY DEF Records, Handled
<1>4. /\ Handled(o, Planned) <= Handled(o, Len(accepted))
      /\ Handled(o, Len(accepted)) \in Nat
      /\ Handled(o, Planned) \in Nat /\ Handled(o, position) \in Nat
  BY <1>1, HandledCounts, HandledGrows
<1> QED BY <1>1, <1>2, <1>3, <1>4

LEMMA PlansStay ==
    ASSUME PlansCounted, UNCHANGED <<plans, planned, position, accepted, deliveryFailures>>
    PROVE  PlansCounted'
BY DEF PlansCounted, Planned, Handled, Records

LEMMA InsertCounted ==
    ASSUME DeliveryInv, PlansCounted, InsertActions
    PROVE  PlansCounted'
<1>1. position < polled /\ chosen \in Couriers
  BY DEF InsertActions, DeliveryInv, SchedulerSound, PickIsPlanned, DeliveryTypeOK
<1>2. Current \in Orders
  BY <1>1, CurrentIsOrder DEF DeliveryInv
<1>3. /\ Planned = position /\ Planned' = position + 1
      /\ \A o : Records(o)' = Records(o)
      /\ \A o : Handled(o, Planned)' = Handled(o, position + 1)
      /\ deliveryFailures' = deliveryFailures
  BY DEF InsertActions, Planned, Records, Handled
<1>4. ASSUME NEW o \in Orders
      PROVE  Len(plans'[o]) <= Handled(o, position + 1) + Records(o) * deliveryFailures
  <2>1. Len(plans[o]) <= Handled(o, position) + Records(o) * deliveryFailures
    BY <1>3 DEF PlansCounted
  <2>2. /\ position \in Nat /\ Handled(o, position) \in Nat /\ Len(plans[o]) \in Nat
        /\ Records(o) * deliveryFailures \in Nat
    BY PlannedBounds, TimesOneMore
  <2>3. Handled(o, position + 1)
          = IF Current = o THEN Handled(o, position) + 1 ELSE Handled(o, position)
    BY <2>2, HandledCounts DEF Current
  <2>4. Len(plans'[o]) = IF Current = o THEN Len(plans[o]) + 1 ELSE Len(plans[o])
    <3>1. plans \in [Orders -> Seq(Couriers)]
      BY DEF DeliveryInv, DeliveryTypeOK
    <3>2. plans' = [plans EXCEPT ![Current] = Append(plans[Current], chosen)]
      BY DEF InsertActions
    <3>3. Len(Append(plans[o], chosen)) = Len(plans[o]) + 1
      BY <1>1, <3>1
    <3>4. CASE Current = o
      <4>1. plans'[Current] = Append(plans[Current], chosen)
        BY <1>2, <3>1, <3>2
      <4> QED BY <3>3, <3>4, <4>1
    <3>5. CASE Current # o
      BY <3>1, <3>2, <3>5
    <3> QED BY <3>4, <3>5
  <2> QED BY <2>1, <2>2, <2>3, <2>4
<1> QED BY <1>3, <1>4 DEF PlansCounted

LEMMA UpdateCounted ==
    ASSUME DeliveryInv, PlansCounted, UpdateDelivery
    PROVE  PlansCounted'
<1>1. /\ Planned' = Planned
      /\ UNCHANGED <<plans, accepted, deliveryFailures>>
  BY DEF UpdateDelivery, MayUpdate, Planned
<1> QED BY <1>1 DEF PlansCounted, Handled, Records

\* A free panic undoes nothing; any other restart has been counted.
LEMMA RestartCounted ==
    ASSUME DeliveryInv, PlansCounted, RecordPanics \/ ConsumerCrashes
    PROVE  PlansCounted'
<1>1. /\ Planned' = offset
      /\ UNCHANGED <<plans, accepted>>
  BY DEF RecordPanics, ConsumerCrashes, StartAgain, Restart, Planned
<1>2. \A o, n : Records(o)' = Records(o) /\ Handled(o, n)' = Handled(o, n)
  BY <1>1 DEF Records, Handled
<1>3. CASE deliveryFailures' = deliveryFailures + 1
  <2> SUFFICES ASSUME NEW o \in Orders
               PROVE  Len(plans[o]) <= Handled(o, offset)
                                         + Records(o) * (deliveryFailures + 1)
    BY <1>1, <1>2, <1>3 DEF PlansCounted
  <2>1. Len(plans[o]) <= Handled(o, Planned) + Records(o) * deliveryFailures
    BY DEF PlansCounted
  <2>2. /\ Handled(o, Planned) <= Records(o) /\ Handled(o, Planned) \in Nat
        /\ Records(o) \in Nat /\ deliveryFailures \in Nat /\ offset \in Nat
        /\ Len(plans[o]) \in Nat
    BY PlannedBounds
  <2>3. /\ Records(o) * (deliveryFailures + 1)
             = Records(o) * deliveryFailures + Records(o)
        /\ Records(o) * deliveryFailures \in Nat
    BY <2>2, TimesOneMore
  <2>4. Handled(o, offset) \in Nat
    BY <2>2, HandledCounts
  <2> QED BY <2>1, <2>2, <2>3, <2>4
<1>4. CASE deliveryFailures' # deliveryFailures + 1
  <2>1. /\ position = offset /\ chosen = NoCourier
        /\ UNCHANGED deliveryFailures
    BY <1>4 DEF RecordPanics, ConsumerCrashes, AtRecord, DeliveryFailure
  <2>2. Planned = offset
    BY <2>1 DEF Planned, DeliveryInv, SchedulerSound, PickIsPlanned
  <2> QED BY <1>1, <1>2, <2>1, <2>2 DEF PlansCounted
<1> QED BY <1>3, <1>4

LEMMA TopicCounted ==
    ASSUME DeliveryInv, PlansCounted, NEW a \in Orders,
           accepted' = Append(accepted, a),
           UNCHANGED <<plans, planned, position, deliveryFailures>>
    PROVE  PlansCounted'
<1> SUFFICES ASSUME NEW o \in Orders
             PROVE  Len(plans[o]) <= Handled(o, Planned)' + Records(o)' * deliveryFailures
  BY DEF PlansCounted
<1> DEFINE n == Len(accepted)
<1>1. /\ n \in Nat /\ Planned \in Nat /\ Planned <= n
      /\ Records(o) \in Nat /\ Records(o) = Handled(o, n)
      /\ deliveryFailures \in Nat /\ Len(plans[o]) \in Nat
      /\ Handled(o, Planned) \in Nat
  BY PlannedBounds
<1>2. /\ Len(accepted') = n + 1
      /\ \A k \in 1..n : accepted'[k] = accepted[k]
  BY DEF DeliveryInv, DeliveryTypeOK
<1>3. Planned' = Planned
  BY DEF Planned
<1>4. \A k \in 1..Planned : accepted'[k] = accepted[k]
  BY <1>1, <1>2
<1>5. Handled(o, Planned)' = Handled(o, Planned)
  <2> DEFINE S == 1..Planned
  <2> HIDE DEF S
  <2>2. {k \in S : accepted'[k] = o} = {k \in S : accepted[k] = o}
    BY <1>4 DEF S
  <2>3. Handled(o, Planned)' = Cardinality({k \in S : accepted'[k] = o})
    BY <1>3 DEF S, Handled
  <2>4. Handled(o, Planned) = Cardinality({k \in S : accepted[k] = o})
    BY DEF S, Handled
  <2> QED BY <2>2, <2>3, <2>4
<1>6. Records(o)' \in Nat /\ Records(o) <= Records(o)'
  <2> DEFINE S == {k \in 1..n : accepted[k] = o}
             T == {k \in 1..(n + 1) : accepted'[k] = o}
  <2>1. IsFiniteSet(1..(n + 1)) /\ T \in SUBSET (1..(n + 1))
    BY <1>1, FS_Interval
  <2>4. S \in SUBSET T
    BY <1>1, <1>2
  <2>2. IsFiniteSet(T)
    BY <2>1, FS_Subset
  <2>3. Cardinality(S) <= Cardinality(T) /\ Cardinality(T) \in Nat
    BY <2>2, <2>4, FS_Subset, FS_CardinalityType
  <2> QED BY <1>2, <2>3 DEF Records
<1>7. /\ Records(o) * deliveryFailures <= Records(o)' * deliveryFailures
      /\ Records(o) * deliveryFailures \in Nat
      /\ Records(o)' * deliveryFailures \in Nat
  BY <1>1, <1>6, TimesMonotone, TimesOneMore
<1>8. Len(plans[o]) <= Handled(o, Planned) + Records(o) * deliveryFailures
  BY DEF PlansCounted
<1> QED BY <1>1, <1>5, <1>7, <1>8

LEMMA InitCounted == Init => PlansCounted
<1> SUFFICES ASSUME Init, NEW o \in Orders
             PROVE  Len(plans[o]) <= Handled(o, Planned) + Records(o) * deliveryFailures
  BY DEF PlansCounted
<1>1. Len(plans[o]) = 0
  BY DEF Init, DeliveryInit
<1>2. /\ Handled(o, Planned) \in Nat /\ Records(o) \in Nat /\ deliveryFailures \in Nat
  BY InitInv, PlannedBounds DEF SystemInv
<1>3. Records(o) * deliveryFailures \in Nat
  BY <1>2, TimesOneMore
<1> QED BY <1>1, <1>2, <1>3

LEMMA StepCounted ==
    ASSUME SystemInv, PlansCounted, [Next]_vars
    PROVE  PlansCounted'
<1> DEFINE Unplanned == UNCHANGED <<plans, planned, position, accepted, deliveryFailures>>
<1>1. UNCHANGED deliveryVars => Unplanned
  BY DEF deliveryVars, consumerLoop, batchVars
<1>2. DeliveryInv
  BY DEF SystemInv
<1>3. CASE GatewayNext
  <2>1. ASSUME NEW u \in Users, NEW r \in Restaurants, NEW k \in KitchenRpcs,
               NEW o \in Orders, CookReads(u, r, k, o)
        PROVE  PlansCounted'
    BY <1>1, <2>1, PlansStay DEF CookReads
  <2>2. ASSUME NEW u \in Users,
               \/ SignUp(u)
               \/ \E h \in HttpCalls :
                     \/ \E c \in Consumers : RegisterConsumer(h, u, c)
                     \/ \E r \in Restaurants : RegisterRestaurant(h, u, r)
                     \/ \E c \in Couriers : RegisterCourier(h, u, c)
               \/ \E o \in Orders : PlaceOrder(u, o)
        PROVE  Unplanned
    BY <1>1, <2>2
    DEF SignUp, RegisterConsumer, RegisterRestaurant, RegisterCourier,
        CreateCourier, PlaceOrder, consumerLoop, batchVars
  <2>3. ASSUME NEW u \in Users,
               \/ \E c \in Couriers, availability \in {"off", "on"} :
                     UpdateAvailability(u, c, availability)
               \/ \E k \in DeliveryRpcs, o \in Orders :
                     ReportPickup(u, k, o) \/ ReportDropoff(u, k, o)
        PROVE  Unplanned
    BY <2>3
    DEF UpdateAvailability, SetAvailability, ReportPickup, ReportDropoff,
        PickupAsks, DropoffReads, Calling, consumerLoop, batchVars
  <2>4. ASSUME NEW h \in HttpCalls, RegistrationEnds(h) \/ RegistrationFails(h)
        PROVE  Unplanned
    BY <1>1, <2>4 DEF RegistrationEnds, RegistrationFails, RequestEnds
  <2> HIDE DEF Unplanned
  <2>5. Unplanned => PlansCounted'
    BY PlansStay DEF Unplanned
  <2> QED BY <1>3, <2>1, <2>2, <2>3, <2>4, <2>5 DEF GatewayNext
<1>4. CASE ServicesNext
  <2>1. ASSUME NEW r \in Restaurants, KitchenHears(r) \/ DeliveryHears(r)
        PROVE  Unplanned
    BY <1>1, <2>1 DEF KitchenHears, DeliveryHears, DeliveryLearnsRestaurant,
                      consumerLoop, batchVars
  <2>2. CASE Scheduling
    <3>1. ASSUME PollAccepted \/ CommitOffset \/ \E c \in Couriers : ChooseCourier(c)
          PROVE  Unplanned
      BY <3>1 DEF PollAccepted, CommitOffset, ChooseCourier
    <3> QED BY <1>2, <2>2, <3>1, PlansStay, InsertCounted, UpdateCounted,
               RestartCounted DEF Scheduling, SchedulerNext
  <2>3. ASSUME NEW k \in DeliveryRpcs, PickupCommits(k) \/ DropoffCommits(k)
        PROVE  Unplanned
    BY <2>3 DEF PickupCommits, DropoffCommits, consumerLoop, batchVars
  <2>4. CASE ConsumerCrashes
    BY <1>2, <2>4, RestartCounted
  <2>5. CASE AcceptedRepeats
    <3>1. PICK k \in 1..Len(accepted) : accepted' = Append(accepted, accepted[k])
      BY <2>5 DEF AcceptedRepeats
    <3>2. accepted[k] \in Orders
      BY <1>2 DEF DeliveryInv, DeliveryTypeOK
    <3> QED BY <1>2, <2>5, <3>1, <3>2, TopicCounted DEF AcceptedRepeats, batchVars
  <2>6. ASSUME NEW o \in Orders, DeliveryAppears(o)
        PROVE  Unplanned
    BY <2>6 DEF DeliveryAppears, consumerLoop, batchVars
  <2>7. ASSUME NEW k \in KitchenRpcs, CookCommits(k)
        PROVE  PlansCounted'
    <3> DEFINE o == kitchenCalls[k].ticket
    <3>1. /\ accepted' = Append(accepted, o) \/ accepted' = accepted
          /\ UNCHANGED <<plans, planned, position, deliveryFailures>>
      BY <2>7 DEF CookCommits, batchVars
    <3>2. o \in Orders
      BY <2>7 DEF CookCommits, CallWrites, SystemInv, KitchenSound, KitchenInv,
                  KitchenTypeOK, Calls
    <3>3. CASE accepted' = Append(accepted, o)
      BY <1>2, <3>1, <3>2, <3>3, TopicCounted
    <3>4. CASE accepted' = accepted
      BY <3>1, <3>4, PlansStay
    <3> QED BY <3>1, <3>3, <3>4
  <2> HIDE DEF Unplanned
  <2>8. Unplanned => PlansCounted'
    BY PlansStay DEF Unplanned
  <2> QED BY <1>4, <2>1, <2>2, <2>3, <2>4, <2>5, <2>6, <2>7, <2>8 DEF ServicesNext
<1>5. CASE UNCHANGED vars
  BY <1>1, <1>5, PlansStay DEF vars
<1> QED BY <1>3, <1>4, <1>5 DEF Next

(***************************************************************************)
(* Planning again is paid for: one failure, at most all records once more, *)
(* however often the consumer panics at the first record of a batch        *)
(* (delivery consumer.rs:71-129, 149-182).                                 *)
(***************************************************************************)
THEOREM PlansOncePerFailure == Spec => []PlansArePaid
<1>1. ASSUME SystemInv, PlansCounted PROVE PlansArePaid
  <2> SUFFICES ASSUME NEW o \in Orders
               PROVE  Len(plans[o]) <= Records(o) * (1 + deliveryFailures)
    BY DEF PlansArePaid
  <2>1. Len(plans[o]) <= Handled(o, Planned) + Records(o) * deliveryFailures
    BY <1>1 DEF PlansCounted
  <2>2. /\ Handled(o, Planned) <= Records(o) /\ Handled(o, Planned) \in Nat
        /\ Records(o) \in Nat /\ deliveryFailures \in Nat /\ Len(plans[o]) \in Nat
    BY <1>1, PlannedBounds DEF SystemInv
  <2>3. /\ Records(o) * (1 + deliveryFailures)
             = Records(o) * deliveryFailures + Records(o)
        /\ Records(o) * deliveryFailures \in Nat
    BY <2>2, TimesOneMore
  <2> QED BY <2>1, <2>2, <2>3
<1>2. Init => PlansCounted
  BY InitCounted
<1>3. SystemInv /\ PlansCounted /\ [Next]_vars => PlansCounted'
  BY StepCounted
<1> QED BY <1>1, <1>2, <1>3, SystemInvariant, PTL DEF Spec

-----------------------------------------------------------------------------
(* What registrations leave behind. *)

Orphans == Created \ (Owned \cup InProgress)

OrphansCounted == IsFiniteSet(Orphans) /\ Cardinality(Orphans) <= gatewayFailures

LEMMA OrphansShrink ==
    ASSUME OrphansCounted, Orphans' \subseteq Orphans,
           gatewayFailures' = gatewayFailures, gatewayFailures \in Nat
    PROVE  OrphansCounted'
<1>1. /\ IsFiniteSet(Orphans') /\ Cardinality(Orphans') <= Cardinality(Orphans)
      /\ Cardinality(Orphans') \in Nat /\ Cardinality(Orphans) \in Nat
  BY FS_Subset, FS_CardinalityType DEF OrphansCounted
<1> QED BY <1>1 DEF OrphansCounted

\* Nobody loses what is theirs.
LEMMA OwnedStays ==
    ASSUME users \subseteq users', grants \subseteq grants'
    PROVE  Owned \subseteq Owned'
BY DEF Owned, GrantsOf

\* Steps that create nothing and leave the registrations alone.
LEMMA OrphansStay ==
    ASSUME SystemInv, OrphansCounted, users \subseteq users', grants' = grants,
           UNCHANGED <<consumers, restaurants, requests, gatewayFailures>>,
           \A c \in Couriers : couriers[c] = "None" => couriers'[c] = "None"
    PROVE  OrphansCounted'
<1>1. Created' \subseteq Created
  BY DEF Created
<1>2. Owned \subseteq Owned' /\ InProgress' = InProgress
  BY OwnedStays DEF InProgress
<1>3. gatewayFailures \in Nat
  BY GatewayConstants DEF SystemInv, GatewayTypeOK
<1> QED BY <1>1, <1>2, <1>3, OrphansShrink DEF Orphans

\* What is created is being registered.
LEMMA RegisteringCounted ==
    ASSUME SystemInv, OrphansCounted, NEW h \in HttpCalls, NEW u \in Users,
           NEW e \in Entities, Registering(h, u, e), Created' \subseteq Created \cup {e}
    PROVE  OrphansCounted'
<1>1. /\ requests \in [HttpCalls -> Requests \cup {NoRequest}]
      /\ requests[h] = NoRequest
      /\ requests' = [requests EXCEPT ![h] = [user |-> u, entity |-> e]]
      /\ UNCHANGED <<users, grants, gatewayFailures>>
      /\ gatewayFailures \in Nat
  BY GatewayConstants DEF SystemInv, GatewayTypeOK, Registering, authVars
<1>2. [user |-> u, entity |-> e] # NoRequest
  BY GatewayConstants DEF Requests
<1>3. requests'[h] = [user |-> u, entity |-> e] /\ requests'[h] # NoRequest
  BY <1>1, <1>2
<1>4. e \in InProgress'
  BY <1>3 DEF InProgress
<1>5. InProgress \subseteq InProgress'
  <2> SUFFICES ASSUME NEW i \in HttpCalls, requests[i] # NoRequest
               PROVE  requests[i].entity \in InProgress'
    BY DEF InProgress
  <2>1. requests'[i] = requests[i]
    BY <1>1
  <2> QED BY <2>1 DEF InProgress
<1>6. Owned' = Owned
  BY <1>1 DEF Owned, GrantsOf
<1> QED BY <1>1, <1>4, <1>5, <1>6, OrphansShrink DEF Orphans

\* At its end it is owned, or a failure is counted.
LEMMA RegistrationCounted ==
    ASSUME SystemInv, OrphansCounted, NEW h \in HttpCalls,
           RegistrationEnds(h) \/ RegistrationFails(h)
    PROVE  OrphansCounted'
<1> DEFINE e == requests[h].entity
<1>1. /\ requests \in [HttpCalls -> Requests \cup {NoRequest}]
      /\ requests[h] # NoRequest
      /\ requests' = [requests EXCEPT ![h] = NoRequest]
      /\ UNCHANGED <<consumers, restaurants, couriers>>
      /\ gatewayFailures \in Nat
  BY GatewayConstants
  DEF SystemInv, GatewayTypeOK, RegistrationEnds, RegistrationFails, RequestEnds,
      consumerVars, restaurantVars, deliveryVars
<1>2. Created' = Created
  BY <1>1 DEF Created
<1>3. InProgress \subseteq InProgress' \cup {e}
  <2> SUFFICES ASSUME NEW i \in HttpCalls, requests[i] # NoRequest, i # h
               PROVE  requests[i].entity \in InProgress'
    BY DEF InProgress
  <2>1. requests'[i] = requests[i]
    BY <1>1
  <2> QED BY <2>1 DEF InProgress
<1>4. CASE RegistrationEnds(h)
  <2>1. /\ requests[h].user \in users /\ users' = users
        /\ grants' = grants \cup {<<requests[h].user, e>>}
        /\ UNCHANGED gatewayFailures
    BY <1>4 DEF RegistrationEnds, GrantsTo, Grant
  <2>2. Owned \subseteq Owned'
    BY <2>1, OwnedStays
  <2>3. e \in Owned'
    <3> DEFINE u == requests[h].user
               g == <<u, e>>
    <3>1. g \in grants' /\ u \in users'
      BY <2>1
    <3>2. g[1] = u /\ g[2] = e
      OBVIOUS
    <3> HIDE DEF u, g
    <3>3. e \in {p[2] : p \in {q \in grants' : q[1] = u}}
      BY <3>1, <3>2
    <3> QED BY <3>1, <3>3 DEF Owned, GrantsOf
  <2> QED BY <1>1, <1>2, <1>3, <2>1, <2>2, <2>3, OrphansShrink DEF Orphans
<1>5. CASE RegistrationFails(h)
  <2>1. /\ UNCHANGED <<users, grants>>
        /\ gatewayFailures' = gatewayFailures + 1
    BY <1>5 DEF RegistrationFails, authVars
  <2>2. Owned' = Owned
    BY <2>1 DEF Owned, GrantsOf
  <2>3. Orphans' \subseteq Orphans \cup {e}
    BY <1>2, <1>3, <2>2 DEF Orphans
  <2>4. /\ IsFiniteSet(Orphans \cup {e}) /\ Cardinality(Orphans) \in Nat
        /\ Cardinality(Orphans \cup {e}) <= Cardinality(Orphans) + 1
    <3>1. IsFiniteSet(Orphans)
      BY DEF OrphansCounted
    <3>2. Cardinality(Orphans) \in Nat
      BY <3>1, FS_CardinalityType
    <3>3. /\ IsFiniteSet(Orphans \cup {e})
          /\ Cardinality(Orphans \cup {e})
               = IF e \in Orphans THEN Cardinality(Orphans) ELSE Cardinality(Orphans) + 1
      BY <3>1, FS_AddElement
    <3> QED BY <3>2, <3>3
  <2>5. /\ IsFiniteSet(Orphans')
        /\ Cardinality(Orphans') <= Cardinality(Orphans \cup {e})
    BY <2>3, <2>4, FS_Subset
  <2>6. Cardinality(Orphans') \in Nat /\ Cardinality(Orphans \cup {e}) \in Nat
    BY <2>4, <2>5, FS_CardinalityType
  <2> QED BY <1>1, <2>1, <2>4, <2>5, <2>6 DEF OrphansCounted
<1> QED BY <1>4, <1>5

LEMMA OrphansStep ==
    ASSUME SystemInv, OrphansCounted, [Next]_vars
    PROVE  OrphansCounted'
<1> DEFINE Aside == UNCHANGED <<users, grants, consumers, restaurants, couriers,
                                requests, gatewayFailures>>
<1>1. OnlyDelivery /\ UNCHANGED couriers => Aside
  BY DEF OnlyDelivery, authVars, gatewayVars, consumerVars, restaurantVars
<1>2. Aside => OrphansCounted'
  BY OrphansStay
<1>3. couriers \in [Couriers -> {"None", "off", "on"}]
  BY DEF SystemInv, DeliveryInv, DeliveryTypeOK
<1> HIDE DEF Aside
<1>4. CASE GatewayNext
  <2>1. ASSUME NEW u \in Users, SignUp(u) PROVE OrphansCounted'
    BY <2>1, OrphansStay
    DEF SignUp, CreateUser, consumerVars, restaurantVars, deliveryVars, gatewayVars
  <2>2. ASSUME NEW u \in Users, NEW h \in HttpCalls, NEW c \in Consumers,
               RegisterConsumer(h, u, c)
        PROVE  OrphansCounted'
    <3>1. Created' \subseteq Created \cup {c}
      BY <2>2 DEF RegisterConsumer, CreateConsumer, Created, restaurantVars,
                  deliveryVars
    <3> QED BY <2>2, <3>1, RegisteringCounted DEF RegisterConsumer, Entities
  <2>3. ASSUME NEW u \in Users, NEW h \in HttpCalls, NEW r \in Restaurants,
               RegisterRestaurant(h, u, r)
        PROVE  OrphansCounted'
    <3>1. Created' \subseteq Created \cup {r}
      BY <2>3 DEF RegisterRestaurant, CreateRestaurant, Created, consumerVars,
                  deliveryVars
    <3> QED BY <2>3, <3>1, RegisteringCounted DEF RegisterRestaurant, Entities
  <2>4. ASSUME NEW u \in Users, NEW h \in HttpCalls, NEW c \in Couriers,
               RegisterCourier(h, u, c)
        PROVE  OrphansCounted'
    <3>1. \A d \in Couriers : d # c => couriers'[d] = couriers[d]
      BY <1>3, <2>4 DEF RegisterCourier, CreateCourier
    <3>2. Created' \subseteq Created \cup {c}
      BY <2>4, <3>1 DEF RegisterCourier, Created, consumerVars, restaurantVars
    <3> QED BY <2>4, <3>2, RegisteringCounted DEF RegisterCourier, Entities
  <2>5. ASSUME NEW h \in HttpCalls, RegistrationEnds(h) \/ RegistrationFails(h)
        PROVE  OrphansCounted'
    BY <2>5, RegistrationCounted
  <2>6. ASSUME NEW u \in Users, NEW o \in Orders, PlaceOrder(u, o) PROVE Aside
    BY <2>6 DEF PlaceOrder, Forwarded, authVars, gatewayVars, consumerVars,
                restaurantVars, deliveryVars, Aside
  <2>7. ASSUME NEW u \in Users, NEW r \in Restaurants, NEW k \in KitchenRpcs,
               NEW o \in Orders, CookReads(u, r, k, o)
        PROVE  Aside
    BY <2>7 DEF CookReads, Forwarded, authVars, gatewayVars, consumerVars,
                restaurantVars, deliveryVars, Aside
  <2>8. ASSUME NEW u \in Users, NEW c \in Couriers, NEW availability \in {"off", "on"},
               UpdateAvailability(u, c, availability)
        PROVE  OrphansCounted'
    <3>1. \A d \in Couriers : couriers[d] = "None" => couriers'[d] = "None"
      BY <1>3, <2>8 DEF UpdateAvailability, SetAvailability
    <3>2. UNCHANGED <<users, grants, consumers, restaurants, requests, gatewayFailures>>
      BY <2>8 DEF UpdateAvailability, OnlyDelivery, authVars, gatewayVars,
                  consumerVars, restaurantVars
    <3> QED BY <3>1, <3>2, OrphansStay
  <2>9. ASSUME NEW u \in Users, NEW k \in DeliveryRpcs, NEW o \in Orders,
               ReportPickup(u, k, o) \/ ReportDropoff(u, k, o)
        PROVE  Aside
    BY <1>1, <2>9 DEF ReportPickup, ReportDropoff, PickupAsks, DropoffReads, Calling
  <2> QED BY <1>2, <1>4, <2>1, <2>2, <2>3, <2>4, <2>5, <2>6, <2>7, <2>8, <2>9
          DEF GatewayNext
<1>5. CASE ServicesNext
  <2>1. ASSUME NEW r \in Restaurants, KitchenHears(r) PROVE Aside
    BY <2>1 DEF KitchenHears, Forwarded, authVars, gatewayVars, consumerVars,
                restaurantVars, deliveryVars, Aside
  <2>2. ASSUME NEW r \in Restaurants, DeliveryHears(r) PROVE Aside
    BY <1>1, <2>2 DEF DeliveryHears, DeliveryLearnsRestaurant
  <2>3. CASE Scheduling
    BY <1>1, <1>2, <2>3
    DEF Scheduling, SchedulerNext, PollAccepted, ChooseCourier, InsertActions,
        UpdateDelivery, CommitOffset, RecordPanics, StartAgain
  <2>4. ASSUME NEW k \in DeliveryRpcs,
               (PickupCommits(k) \/ DropoffCommits(k)) /\ OnlyDelivery
        PROVE  Aside
    BY <1>1, <2>4 DEF PickupCommits, DropoffCommits
  <2>5. CASE (ConsumerCrashes \/ AcceptedRepeats) /\ OnlyDelivery
    BY <1>1, <1>2, <2>5 DEF ConsumerCrashes, StartAgain, AcceptedRepeats
  <2>6. ASSUME NEW o \in Orders, DeliveryAppears(o) /\ OnlyDelivery PROVE Aside
    BY <1>1, <2>6 DEF DeliveryAppears
  <2>7. ASSUME NEW k \in KitchenRpcs, CookCommits(k) PROVE Aside
    BY <2>7 DEF CookCommits, Forwarded, authVars, gatewayVars, consumerVars,
                restaurantVars, Aside
  <2> QED BY <1>2, <1>5, <2>1, <2>2, <2>3, <2>4, <2>5, <2>6, <2>7 DEF ServicesNext
<1>6. CASE UNCHANGED vars
  BY <1>2, <1>6 DEF vars, authVars, gatewayVars, consumerVars, restaurantVars,
                    deliveryVars, Aside
<1> QED BY <1>4, <1>5, <1>6 DEF Next

LEMMA InitOrphans == Init => OrphansCounted
<1> SUFFICES ASSUME Init PROVE OrphansCounted
  OBVIOUS
<1>1. Orphans = {} /\ gatewayFailures = 0
  BY DEF Init, ConsumerInit, RestaurantInit, DeliveryInit, Orphans, Created
<1> QED BY <1>1, FS_EmptySet DEF OrphansCounted

(***************************************************************************)
(* What is nobody's is being registered or the remains of a failure        *)
(* (gateway consumer.rs:40-73, restaurant.rs:44-91, delivery.rs:145-180).  *)
(***************************************************************************)
THEOREM OrphansOnePerFailure == Spec => []OrphansArePaid
<1>1. OrphansCounted => OrphansArePaid
  BY DEF OrphansCounted, Orphans, OrphansArePaid
<1>2. SystemInv /\ OrphansCounted /\ [Next]_vars => OrphansCounted'
  BY OrphansStep
<1> QED BY <1>1, <1>2, InitOrphans, SystemInvariant, PTL DEF Spec
=============================================================================
