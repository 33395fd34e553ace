\* One order, no redelivery, two gRPC calls of the kitchen at a time.
CONSTANTS
    o1 = o1
    o2 = o2
    c1 = c1
    c2 = c2
    r1 = r1
    Orders = {o1}
    Consumers = {c1}
    Restaurants = {r1}
    ConsumerOf <- MCSharedConsumer
    RestaurantOf <- MCRestaurantOf
    Total <- MCTotal
    KitchenRpcs = {k1, k2}
    AccountingRpcs = {a1}
    RpcAmounts = {1}
    MaxSequence = 3
    MaxRedeliveries = 0
    KafkaConsumer = KafkaConsumer
    NoOperation = NoOperation
    NoMessage = NoMessage
    NoConsumer = NoConsumer
    NoCall = NoCall
SPECIFICATION Spec
PROPERTY SupportedTransitionsOnly
CHECK_DEADLOCK FALSE
