\* Two streams of up to three events, two crashes.
CONSTANTS
    Accounts <- MCAccounts
    Amounts = {1}
    MaxEvents = 2
    MaxCrashes = 2
SPECIFICATION FairProducerSpec
INVARIANTS SentInOrder OneRepeatPerCrash
PROPERTY EveryEventSent
CHECK_DEADLOCK FALSE
