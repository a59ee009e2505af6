CONSTANTS
    Procs = {p1, p2, p3}
    Dirs = {"a", "b", "c"}
    Legacy = {"a", "b"}
    Remote = {"b"}
    Files = {f1, f2}
SPECIFICATION Spec
SYMMETRY Symmetry
PROPERTIES
    ImplementsRelocation
INVARIANTS
    BesideOnlyRecorded
