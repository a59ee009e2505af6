CONSTANTS
    Procs = {p1, p2}
    NumProposals = 2
    Kinds = {"execute", "reconcile", "resume"}
    LockDir <- MCLockDir
    Decided = {1, 2}
    Clashes <- NoClashes
    Edited = {}
SPECIFICATION Spec
SYMMETRY Symmetry
INVARIANTS
    AtMostOneSubmission
    OneInDoubt
    KillBoundsSubmissions
PROPERTIES
    ImplementsPromise
