CONSTANTS
    Procs = {p1}
    a = a
    b = b
    c = c
    Batches <- MCBatches
    Sound = {a, b}
    Clashes <- MCClashes
    Outages = FALSE
SPECIFICATION Spec
PROPERTIES
    ProposalsAreAudited
