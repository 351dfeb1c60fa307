\* See README.md for what the bounds are and why they are enough.
SPECIFICATION Spec
CONSTANTS
    a1 = a1  a2 = a2  i1 = i1  i2 = i2  f1 = f1
    None = None
    Procs = {p1}
    Actions = {a1, a2}
    Ids = {i1, i2}
    FnKeys = {f1}
    Calls = {c1}
    Reads = {r1}
    Slots = {1}
    IdOf <- OneIdEach
    FnKeyOf <- OneKeyForBoth
    ExecTimeOf <- BothOnTick
    Period = 1
    Grace = 0
    MaxDelay = 1
    MaxTime = 2
    MaxFaults = 1
    CrashOnRejection = FALSE
INVARIANTS
    StoredIsCancellable AccountedFor
SYMMETRY PairSymmetry
