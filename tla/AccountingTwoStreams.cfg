\* Two accounts, one order each, two gRPC calls at a time beside the consumer.
CONSTANTS
    o1 = o1
    o2 = o2
    c1 = c1
    c2 = c2
    Orders = {o1, o2}
    Consumers = {c1, c2}
    Restaurants = {r1}
    r1 = r1
    RestaurantOf <- MCRestaurantOf
    ConsumerOf <- MCConsumerOf
    Total <- MCTotal
    rpc1 = rpc1
    rpc2 = rpc2
    AccountingRpcs = {rpc1, rpc2}
    RpcAmounts <- MCAmounts
    MaxSequence = 1
    MaxRedeliveries = 0
    KafkaConsumer = KafkaConsumer
    NoOperation = NoOperation
    NoMessage = NoMessage
    NoConsumer = NoConsumer
SPECIFICATION AloneSpec
INVARIANTS AloneTypeOK StreamsGapless AnswersMatchStream
SYMMETRY MCSymmetry
PROPERTY OverdrawnByDepositsOnly
CHECK_DEADLOCK FALSE
