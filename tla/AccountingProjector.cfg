\* Two streams of up to four events, two crashes.
CONSTANTS
    Accounts <- MCAccounts
    Amounts = {1}
    MaxEvents = 3
    MaxCrashes = 2
SPECIFICATION FairProjectorSpec
INVARIANTS TablesMatchStream CheckpointIsProjected
PROPERTIES PanicIsForGood ProjectionsCatchUp
CHECK_DEADLOCK FALSE
