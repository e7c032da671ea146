SPECIFICATION Spec
CONSTANTS
    Clients = {c1, c2}
    Permits = {p1}
    Messages = {m1, m2, m3}
    Readers = {g1, g2}
    Nil = Nil
    MaxMessages = 2
    QueueCap = 2
SYMMETRY Symmetric
INVARIANTS TypeOK HeldOnce ReadByAddressee NoOvertaking
