\* See README.md for what the bounds are and why they are enough.
SPECIFICATION FairSpec
CONSTANTS
    None = None
    Frames = {f1, f2}
    Conns = {c1, c2}
    Propagations = {"NOT_SUPPORTED", "REQUIRED"}
    Events = {"commit", "rollback"}
    Writers = {f1, f2}
    MaxAttempts = 1
    AllowDetached = TRUE
INVARIANTS
    HookFollowsScope ListenersFollowOutcome
PROPERTIES
    ImplementsAtomic SessionsEnd CommitListenersRun
\* Bodies need not write or call, and every frame is used once.
CHECK_DEADLOCK FALSE
