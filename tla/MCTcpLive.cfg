SPECIFICATION Spec
CONSTANTS
    Clients = {c1, c2}
    Dials = {d1}
    Accepts = {}
    Posts = {q1, q2}
    Gets = {}
    Nil = Nil
    ChanCap = 1
    PendingCap = 1
    MaxAttempts = 2
PROPERTIES RequestsFinish IdleSwept
