CONSTANTS
    FirstDate = 3
    LastDate = 4
    Workdays = {1, 2}
    CatchUpDays = 2
    Targets = {"host", "custom"}
    HostTarget = "host"
    Disputed <- MCDisputed
SPECIFICATION Spec
INVARIANTS
    StoppedUntilResumed
    CatchUpSelectsMissed
    EnabledIsScheduled
PROPERTIES
    ForeignUntouched
