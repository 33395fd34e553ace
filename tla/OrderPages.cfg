\* Three orders, pages of one or two.
CONSTANTS
    Orders <- MCOrders
    Times <- MCTimes
    MaxFirst = 2
SPECIFICATION Spec
INVARIANTS PagesAreOneList NothingSkipped
CHECK_DEADLOCK FALSE
