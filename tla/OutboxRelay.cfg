\* Two writers, two producers, three rows, one failure on either side.
CONSTANTS
    w1 = w1
    w2 = w2
    r1 = r1
    r2 = r2
    Writers <- TwoWriters
    Relays <- TwoRelays
    MaxRows = 3
    MaxFailures = 1
SPECIFICATION FairSpec
INVARIANTS TypeOK NothingLost CausesFirst RepeatsArePaid OffsetIsHandled
PROPERTIES ImplementsChannel EverythingDelivered
CHECK_DEADLOCK FALSE
