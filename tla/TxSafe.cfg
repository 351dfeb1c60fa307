\* See README.md for what the bounds are and why they are enough.
SPECIFICATION Spec
CONSTANTS
    None = None
    Frames = {f1, f2, f3}
    Conns = {c1}
    Propagations = {"MANDATORY", "NEVER", "NOT_SUPPORTED", "REQUIRED", "SUPPORTS"}
    Events = {}
    Writers = {f1}
    MaxAttempts = 2
    AllowDetached = TRUE
SYMMETRY FrameSymmetry
INVARIANTS
    ScopeFollowsPropagation AllOrNothing NoDeadSession
\* Every frame may be done.
CHECK_DEADLOCK FALSE
