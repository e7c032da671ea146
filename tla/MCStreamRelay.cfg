SPECIFICATION Spec
CONSTANTS
    Streams = {s1, s2}
    Sends = {q1, q2}
    Receives = {g1, g2}
    Ends = {e1}
    SeqNos <- MCSeqNos
    Nil = Nil
INVARIANTS TypeOK NeverReadAgain
PROPERTY RequestsFinish
CHECK_DEADLOCK FALSE
