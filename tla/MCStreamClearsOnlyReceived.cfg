SPECIFICATION Spec
CONSTANTS
    Streams = {s1}
    Sends = {q1, q2}
    Receives = {g1}
    Ends = {e1}
    SeqNos <- MCSeqNosOrdered
    Nil = Nil
PROPERTY ClearsOnlyReceived
CHECK_DEADLOCK FALSE
