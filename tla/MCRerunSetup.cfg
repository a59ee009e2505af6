CONSTANTS
    Events = {SessionStart, SessionEnd}
    NotSet = NotSet
    Initial = {NotSet}
    Pids = {p1}
    Times = {1}
    MaxEdits = 1
    MaxStarts = 2
SPECIFICATION Spec
INVARIANTS
    RerunIsAccepted
CHECK_DEADLOCK FALSE
