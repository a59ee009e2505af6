SPECIFICATION Spec
CONSTANTS
    Dates <- MCDates
    MonthOf <- MCMonthOf
    Start = 2
    Limit = 1
    Continued = {TRUE, FALSE}
    Busy = {1, 2, 3}
    MaxLogged = 1
INVARIANTS
    Inv
    MonthTotalsAgree
PROPERTIES
    EventuallyShown
CHECK_DEADLOCK FALSE
