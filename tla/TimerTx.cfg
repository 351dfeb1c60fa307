\* See README.md for what the bounds are and why they are enough.
SPECIFICATION Spec2
CONSTANTS
    a1 = a1  a2 = a2  i1 = i1  i2 = i2  f1 = f1
    None = None
    Same = Same
    Procs = {p1, p2}
    Actions = {a1}
    Ids = {i1}
    FnKeys = {f1}
    Calls = {c1}
    Reads = {r1}
    Slots = {1}
    IdOf <- SingleId
    FnKeyOf <- SingleKey
    ExecTimeOf <- OnSecondTick
    Period = 1
    Grace = 0
    MaxDelay = 1
    MaxTime = 3
    MaxFaults = 0
    MaxAttempts = 2
    CrashOnRejection = FALSE
INVARIANTS
    AccountedFor CommittedIsInHand UncommittedStaysHome OneTimeoutEach
SYMMETRY ProcSymmetry
