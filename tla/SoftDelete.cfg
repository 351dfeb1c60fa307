\* See README.md for what the bounds are and why they are enough.
SPECIFICATION Spec
CONSTANTS
    None = None
    Docs = {d1, d2}
    Callers = {c1, c2, c3}
    MaxTime = 1
SYMMETRY Symmetry
INVARIANTS
    FlagAndDateAgree OvercountNeedsOverlap ReturnedStays
\* Every call is over.
CHECK_DEADLOCK FALSE
