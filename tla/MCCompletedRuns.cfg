CONSTANTS
    Procs = {p1}
    NumProposals = 1
    Kinds = {"run"}
    LockDir <- MCLockDir
    Decided = {}
    Clashes <- NoClashes
    Edited = {}
SPECIFICATION Spec
PROPERTIES
    CompletedMeansResolved
