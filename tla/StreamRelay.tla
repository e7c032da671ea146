---- MODULE StreamRelay ----
(***************************************************************************)
(* The chunked streams of the hturnal relay: hturnal/turn/stream.go over   *)
(* the stream table of storage/memory.go.                                  *)
(*                                                                         *)
(* A stream is identified with the request that starts it, a chunk with    *)
(* the send request that carries it.  A receive looks whether there are    *)
(* chunks, copies them and clears them under three separate holds of the   *)
(* stream's lock, which are three steps here.                              *)
(***************************************************************************)
EXTENDS Integers, FiniteSets

CONSTANTS Streams,      \* stream start requests, and the streams they create
          Sends,        \* send requests, and the chunks they carry
          Receives,     \* receive requests
          Ends,         \* stream end requests
          SeqNos,       \* sequence numbers that clients give to chunks
          Nil

Reqs == Streams \cup Sends \cup Receives \cup Ends

ASSUME StreamAssumption ==
    /\ SeqNos \subseteq Int
    /\ Nil \notin Reqs
    /\ Streams \cap (Sends \cup Receives \cup Ends) = {}
    /\ Sends \cap (Receives \cup Ends) = {} /\ Receives \cap Ends = {}

VARIABLES
    stored,     \* the streams the table holds
    chunks,     \* Chunks of each stream: a send for each number, or Nil
    maxSeq,     \* MaxSeq of each stream
    pc,         \* where each request stands
    stream,     \* the stream a request found
    read,       \* the chunks a receive has copied
    seen        \* history: what earlier receives had answered when this one began

vars == <<stored, chunks, maxSeq, pc, stream, read, seen>>

Steps == {"new", "refused", "found", "counted", "copied", "ok"}

Numbers(s) == {n \in SeqNos : chunks[s][n] # Nil}

\* Every variable has its type, and MaxSeq bounds the numbers of stored chunks.
TypeOK ==
    /\ stored \subseteq Streams
    /\ chunks \in [Streams -> [SeqNos -> Sends \cup {Nil}]]
    /\ maxSeq \in [Streams -> SeqNos \cup {-1}]
    /\ \A s \in Streams : \A n \in Numbers(s) : n <= maxSeq[s]
    /\ pc \in [Reqs -> Steps]
    /\ stream \in [Reqs -> Streams \cup {Nil}]
    /\ read \in [Receives -> SUBSET Sends]
    /\ seen \in [Receives -> SUBSET Sends]

Empty == [n \in SeqNos |-> Nil]

Init ==
    /\ stored = {}
    /\ chunks = [s \in Streams |-> Empty]
    /\ maxSeq = [s \in Streams |-> -1]
    /\ pc = [r \in Reqs |-> "new"]
    /\ stream = [r \in Reqs |-> Nil]
    /\ read = [g \in Receives |-> {}]
    /\ seen = [g \in Receives |-> {}]

Goto(r, from, to) == pc[r] = from /\ pc' = [pc EXCEPT ![r] = to]

Start(s) ==
    /\ Goto(s, "new", "ok")
    /\ stored' = stored \cup {s}
    /\ UNCHANGED <<chunks, maxSeq, stream, read, seen>>

\* The relay that the request names is not there, whatever the streams are.
StartRefused(s) ==
    /\ Goto(s, "new", "refused")
    /\ UNCHANGED <<stored, chunks, maxSeq, stream, read, seen>>

\* Send, receive and end begin with a lookup of the stream.
Find(r, s) ==
    /\ Goto(r, "new", "found")
    /\ s \in stored
    /\ stream' = [stream EXCEPT ![r] = s]
    /\ UNCHANGED <<stored, chunks, maxSeq, read>>

FindSend(q, s) == Find(q, s) /\ UNCHANGED seen

Answered == {q \in Sends : \E g \in Receives : pc[g] = "ok" /\ q \in read[g]}

FindReceive(g, s) == Find(g, s) /\ seen' = [seen EXCEPT ![g] = Answered]

FindRefused(r, s) ==
    /\ Goto(r, "new", "refused")
    /\ s \notin stored
    /\ UNCHANGED <<stored, chunks, maxSeq, stream, read, seen>>

\* Mutant: the highest number is not kept.
SendNoMax(q, n) ==
    /\ Goto(q, "found", "ok")
    /\ chunks' = [chunks EXCEPT ![stream[q]][n] = q]
    /\ UNCHANGED <<stored, maxSeq, stream, read, seen>>

Send(q, n) ==
    /\ Goto(q, "found", "ok")
    /\ chunks' = [chunks EXCEPT ![stream[q]][n] = q]
    /\ maxSeq' = [maxSeq EXCEPT ![stream[q]] = IF n > @ THEN n ELSE @]
    /\ UNCHANGED <<stored, stream, read, seen>>

\* The end of a stream is acknowledged and not recorded.
End(e, s) ==
    /\ Goto(e, "new", "ok")
    /\ s \in stored
    /\ UNCHANGED <<stored, chunks, maxSeq, stream, read, seen>>

ReceiveCount(g) ==
    /\ g \in Receives
    /\ Goto(g, "found", "counted")
    /\ Numbers(stream[g]) # {}
    /\ UNCHANGED <<stored, chunks, maxSeq, stream, read, seen>>

\* The map is copied in Go's order of iteration, which is any, up to its end or to
\* the highest number, whichever comes first.
Copies(s) ==
    {N \in SUBSET Numbers(s) : N = Numbers(s) \/ \E n \in N : n >= maxSeq[s]}

ReceiveCopy(g) ==
    /\ Goto(g, "counted", "copied")
    /\ \E N \in Copies(stream[g]) : read' = [read EXCEPT ![g] = {chunks[stream[g]][n] : n \in N}]
    /\ UNCHANGED <<stored, chunks, maxSeq, stream, seen>>

\* Mutant: only the receive that copies the highest number clears.
ReceiveClearLast(g) ==
    LET s == stream[g] IN
    /\ Goto(g, "copied", "ok")
    /\ IF maxSeq[s] \in SeqNos /\ chunks[s][maxSeq[s]] \in read[g]
       THEN chunks' = [chunks EXCEPT ![s] = Empty]
       ELSE UNCHANGED chunks
    /\ UNCHANGED <<stored, maxSeq, stream, read, seen>>

ReceiveClear(g) ==
    /\ Goto(g, "copied", "ok")
    /\ chunks' = [chunks EXCEPT ![stream[g]] = Empty]
    /\ UNCHANGED <<stored, maxSeq, stream, read, seen>>

\* Mutant: a receive waits until there are chunks.
ReceiveWaits(g) == FALSE

\* No chunk came before the deadline.
ReceiveTimeout(g) ==
    /\ g \in Receives
    /\ Goto(g, "found", "ok")
    /\ UNCHANGED <<stored, chunks, maxSeq, stream, read, seen>>

\* Cleanup removes a stream whose lifetime is over.
Expire(s) ==
    /\ s \in stored
    /\ stored' = stored \ {s}
    /\ UNCHANGED <<chunks, maxSeq, pc, stream, read, seen>>

SendStep(q) == \E n \in SeqNos : Send(q, n)

ReceiveStep(g) ==
    ReceiveCount(g) \/ ReceiveCopy(g) \/ ReceiveClear(g) \/ ReceiveTimeout(g)

Next ==
    \/ \E s \in Streams : Start(s) \/ StartRefused(s) \/ Expire(s)
    \/ \E q \in Sends, s \in Streams : FindSend(q, s)
    \/ \E g \in Receives, s \in Streams : FindReceive(g, s)
    \/ \E r \in Sends \cup Receives \cup Ends, s \in Streams : FindRefused(r, s)
    \/ \E e \in Ends, s \in Streams : End(e, s)
    \/ \E q \in Sends : SendStep(q)
    \/ \E g \in Receives : ReceiveStep(g)

\* A handler that has found its stream runs on, and its deadline passes.
Fairness ==
    /\ \A q \in Sends : WF_vars(SendStep(q))
    /\ \A g \in Receives : WF_vars(ReceiveStep(g))

Spec == Init /\ [][Next]_vars /\ Fairness
----
\* A receive that begins after another was answered returns nothing the other had
\* returned, whatever was sent or received in between: the clear (stream.go:152-154)
\* comes before the answer, and no chunk is copied from a map that was cleared.
NeverReadAgain == \A g \in Receives : read[g] \cap seen[g] = {}

\* Every send and receive that has found its stream is answered, on a stream that
\* stays empty or has expired as well (stream.go:129, 160).
RequestsFinish ==
    \A r \in Sends \cup Receives :
        pc[r] \in {"found", "counted", "copied"} ~> pc[r] = "ok"

\* "Clear received chunks" (stream.go:151): a receive removes from the stream only
\* chunks that some receive returns.
ClearsOnlyReceived ==
    [][\A g \in Receives :
        pc[g] = "copied" /\ pc'[g] = "ok" =>
            \A n \in Numbers(stream[g]) :
                \E h \in Receives : chunks[stream[g]][n] \in read[h]]_vars
====
