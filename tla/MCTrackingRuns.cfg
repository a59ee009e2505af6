CONSTANTS
    Procs = {p1}
    NumProposals = 1
    Kinds = {"run", "audit"}
    LockDir <- MCLockDir
    Decided = {}
    Clashes <- NoClashes
    Edited = {1}
SPECIFICATION FairSpec
INVARIANTS
    FailedNeverLands
    ConfirmedHasWorklog
PROPERTIES
    EveryCommandEnds
