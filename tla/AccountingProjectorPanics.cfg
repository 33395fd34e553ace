\* One crash is enough.
CONSTANTS
    Accounts <- MCAccounts
    Amounts = {1}
    MaxEvents = 2
    MaxCrashes = 1
SPECIFICATION ProjectorSpec
INVARIANT RepeatsAreHarmless
CHECK_DEADLOCK FALSE
