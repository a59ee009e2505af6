CONSTANTS
    Plain = {c}
    Minimized = {c}
    Occurrences = {m}
    Revisions = {1, 2}
    Contents = {1}
    Tracked = {1, 2}
    RawDays = 0
    NormalizedDays = 1
    MaxDate = 3
    MaxLines = 2
SPECIFICATION Spec
CHECK_DEADLOCK FALSE
INVARIANTS
    PendingEvidenceKept
    SupersedesEarlier
    ExpiredStaysGone
PROPERTIES
    RowsNeverRewritten
