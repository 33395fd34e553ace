\* Two orders of one consumer who can pay for one, no redelivery.
CONSTANTS
    o1 = o1
    o2 = o2
    c1 = c1
    c2 = c2
    r1 = r1
    Orders = {o1, o2}
    Consumers = {c1}
    Restaurants = {r1}
    ConsumerOf <- MCSharedConsumer
    RestaurantOf <- MCRestaurantOf
    Total <- MCTotal
    KitchenRpcs = {k1}
    AccountingRpcs = {a1}
    RpcAmounts = {1}
    MaxSequence = 3
    MaxRedeliveries = 0
    KafkaConsumer = KafkaConsumer
    NoOperation = NoOperation
    NoMessage = NoMessage
    NoConsumer = NoConsumer
    NoCall = NoCall
SPECIFICATION FairSpec
INVARIANTS
    TypeOK
    ApprovedIsPaidAndConfirmed
    RejectedIsReleased
    KitchenWorksOnPaidOrders
    OneRequestOutstanding
    CompensationNeverFails
    TicketNumbersDistinct
PROPERTIES KeepsPromise EveryOrderDecided
CHECK_DEADLOCK FALSE
