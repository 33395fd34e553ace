\* One user, one order, one courier, two calls of each service that may overlap,
\* one failure of each kind.
CONSTANTS
    o1 = o1
    k1 = k1
    r1 = r1
    Users = {u1}
    Orders = {o1}
    Consumers = {k1}
    Restaurants = {r1}
    Couriers = {c1}
    ConsumerOf <- MCConsumerOf
    RestaurantOf <- MCRestaurantOf
    WithReadyBy = {o1}
    WithPickupTime = {o1}
    MaxTicketEvents = 5
    HttpCalls = {h1}
    KitchenRpcs = {q1, q2}
    DeliveryRpcs = {d1, d2}
    MaxRedeliveries = 0
    MaxRepeats = 1
    MaxDeliveryFailures = 1
    MaxGatewayFailures = 1
    NoCall = NoCall
    NoCourier = NoCourier
    NoDeliveryCall = NoDeliveryCall
    NoRequest = NoRequest
SPECIFICATION FairSpec
INVARIANTS
    TypeOK
    ScheduledHasPlan
    PlansArePaid
    OnlyOwnedCouriersPlanned
    OrphansArePaid
    PickedUpWhenReady
    DropoffsPerCall
PROPERTIES EveryAcceptedScheduled
CHECK_DEADLOCK FALSE
