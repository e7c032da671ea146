SPECIFICATION Spec
CONSTANTS
    Clients = {c1, c2}
    Dials = {d1, d2}
    Accepts = {a1, a2}
    Posts = {}
    Gets = {}
    Nil = Nil
    ChanCap = 1
    PendingCap = 1
    MaxAttempts = 1
SYMMETRY Symmetric
INVARIANTS OfferedOnce Routable
