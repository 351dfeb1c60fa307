\* See README.md for what the bounds are and why they are enough.
SPECIFICATION FairSpec
CONSTANTS
    a1 = a1  a2 = a2  i1 = i1  i2 = i2  f1 = f1
    None = None
    Procs = {p1}
    Actions = {a1}
    Ids = {i1}
    FnKeys = {f1}
    Calls = {c1}
    Reads = {r1}
    Slots = {1, 2}
    IdOf <- SingleId
    FnKeyOf <- SingleKey
    ExecTimeOf <- OnSecondTick
    Period = 2
    Grace = 1
    MaxDelay = 2
    MaxTime = 6
    MaxFaults = 1
    CrashOnRejection = TRUE
INVARIANTS
    StoredHasOneTimer AcknowledgedIsInHand
PROPERTIES
    GoneForGood ImplementsPromise StoredEventuallyGone RegisteredActionsRun
