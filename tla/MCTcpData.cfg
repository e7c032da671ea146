SPECIFICATION Spec
CONSTANTS
    Clients = {c1, c2}
    Dials = {d1}
    Accepts = {}
    Posts = {q1, q2, q3}
    Gets = {g1}
    Nil = Nil
    ChanCap = 2
    PendingCap = 1
    MaxAttempts = 2
SYMMETRY Symmetric
INVARIANTS TypeOK SentExactlyOnce ClosedOnce GoneIsFinal
PROPERTY ImplementsDuplex
