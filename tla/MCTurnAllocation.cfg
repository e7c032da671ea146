SPECIFICATION Spec
CONSTANTS
    Reqs = {r1, r2, r3, r4}
    IPs = {i1}
    Nil = Nil
    ClientMax = 3
    RelayMax = 2
    DefaultLifetime = 0
    Lifetimes <- MCLifetimes
    MaxTime = 1
INVARIANTS IInv ClientIDUnique RelayPortUnique Resident
PROPERTIES PurgeHarmless RequestsFinish ExpiredRemoved
