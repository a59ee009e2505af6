CONSTANTS
    Details = {d1, d2}
    JiraTokens = {j1}
    TempoTokens = {t1, t2}
    Accounts = {a1, a2}
    None = None
    Spaces = Spaces
    Empty = Empty
    Torn = Torn
SPECIFICATION Spec
INVARIANTS
    WizardNeverStuck
PROPERTIES
    OnlyVouchedIsStored
SYMMETRY Symmetry
CHECK_DEADLOCK FALSE
