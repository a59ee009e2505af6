CONSTANTS
    Order <- MCOrder
    Selected = {1, 3}
    IssueOf <- MCIssueOf
    Limits = {2}
    PageLimits = {2}
    DefaultLimit = 1
    DefaultPages = 1
    HardPageLimit = 3
    MaxAttempts = 2
    PageCap = 1
    Batches <- MCBatches
SPECIFICATION Spec
INVARIANTS
    Inv
    ListingsAddUp
    StreamAgrees
PROPERTIES
    EveryCommandEnds
