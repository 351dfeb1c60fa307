\* See README.md for what the bounds are and why they are enough.
SPECIFICATION Spec
CONSTANTS
    None = None
    Frames = {f1, f2}
    Conns = {c1}
    Propagations = {"NOT_SUPPORTED", "REQUIRED"}
    Events = {}
    Writers = {f1, f2}
    MaxAttempts = 1
    AllowDetached = FALSE
INVARIANTS
    SuspendedWritesStand
\* Every frame may be done.
CHECK_DEADLOCK FALSE
