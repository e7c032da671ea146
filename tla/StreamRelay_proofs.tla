---- MODULE StreamRelay_proofs ----
(***************************************************************************)
(* What no receive returns twice, for any number of streams, sends,        *)
(* receives and sequence numbers.                                          *)
(***************************************************************************)
EXTENDS StreamRelay, TLAPS

\* A chunk in a stream was put there by a send to that stream that is done.
ChunksSent ==
    \A s \in Streams : \A n \in SeqNos :
        chunks[s][n] # Nil => pc[chunks[s][n]] = "ok" /\ stream[chunks[s][n]] = s

\* What a receive has copied was sent to its stream; it copies when it says so.
ReadSent ==
    \A g \in Receives :
        /\ \A q \in read[g] : pc[q] = "ok" /\ stream[q] = stream[g]
        /\ read[g] # {} => pc[g] \in {"copied", "ok"}

\* A request that found a stream has one.
StreamFound ==
    \A r \in Sends \cup Receives :
        pc[r] \in {"found", "counted", "copied"} => stream[r] \in Streams

\* A stream holds no chunk that was answered to anyone.
AnsweredCleared == \A s \in Streams : \A n \in SeqNos : chunks[s][n] \notin Answered

\* What a receive saw answered when it began stays answered.
SeenAnswered == \A g \in Receives : seen[g] \subseteq Answered

IInv ==
    TypeOK /\ ChunksSent /\ ReadSent /\ StreamFound /\ AnsweredCleared /\ SeenAnswered /\ NeverReadAgain

\* What was answered follows from which receives are done and what they read.
LEMMA AnsweredSame ==
    ASSUME \A g \in Receives : pc'[g] = "ok" /\ read'[g] # {} <=> pc[g] = "ok" /\ read[g] # {},
           \A g \in Receives : pc[g] = "ok" => read'[g] = read[g]
    PROVE  Answered' = Answered
<1>1. \A q \in Sends : (\E g \in Receives : pc'[g] = "ok" /\ q \in read'[g])
                     <=> (\E g \in Receives : pc[g] = "ok" /\ q \in read[g])
  <2>1. ASSUME NEW g \in Receives, NEW q \in Sends
        PROVE  pc'[g] = "ok" /\ q \in read'[g] <=> pc[g] = "ok" /\ q \in read[g]
    OBVIOUS
  <2>2. QED
    BY <2>1
<1>2. QED
  BY <1>1 DEF Answered

LEMMA InitKeeps == Init => IInv
<1> SUFFICES ASSUME Init PROVE IInv
  OBVIOUS
<1>1. TypeOK
  BY StreamAssumption DEF Init, TypeOK, Empty, Numbers, Steps, Reqs
<1>2. ChunksSent /\ ReadSent /\ StreamFound /\ SeenAnswered /\ NeverReadAgain
  BY DEF Init, ChunksSent, ReadSent, StreamFound, SeenAnswered, NeverReadAgain, Empty, Reqs
<1>3. AnsweredCleared
  BY DEF Init, AnsweredCleared, Answered, Reqs
<1>4. QED
  BY <1>1, <1>2, <1>3 DEF IInv

\* The steps that change neither a stream's chunks nor what a receive has copied.
Quiet(r, to) ==
    /\ pc' = [pc EXCEPT ![r] = to]
    /\ UNCHANGED <<chunks, maxSeq, read>>

\* A request that was not done before and copies nothing disturbs nobody.
LEMMA QuietKeeps ==
    ASSUME IInv, NEW r \in Reqs, NEW to \in Steps, pc[r] # "ok", pc[r] # "copied", Quiet(r, to),
           stored' \subseteq Streams,
           \/ UNCHANGED stream /\ (pc[r] = "found" \/ to \in {"ok", "refused"})
           \/ pc[r] = "new" /\ \E s \in Streams : stream' = [stream EXCEPT ![r] = s],
           \/ UNCHANGED seen
           \/ r \in Receives /\ pc[r] = "new" /\ seen' = [seen EXCEPT ![r] = Answered]
    PROVE  IInv'
<1> USE StreamAssumption
<1>1. TypeOK'
  BY DEF IInv, TypeOK, Quiet, Numbers, Answered
<1>2. ChunksSent'
  BY DEF IInv, TypeOK, ChunksSent, Quiet, Reqs
<1>3. \A g \in Receives : read[g] # {} => g # r
  BY DEF IInv, ReadSent
<1>4. ReadSent'
  BY <1>3 DEF IInv, TypeOK, ReadSent, Quiet, Reqs
<1>5. StreamFound'
  BY DEF IInv, TypeOK, StreamFound, Quiet, Reqs
<1>6. Answered' = Answered
  <2>1. \A g \in Receives : read'[g] = read[g] /\ (read[g] # {} => pc'[g] = pc[g])
    BY <1>3 DEF IInv, TypeOK, Quiet, Reqs
  <2>2. QED
    BY <2>1, AnsweredSame
<1>7. AnsweredCleared' /\ SeenAnswered' /\ NeverReadAgain'
  BY <1>3, <1>6 DEF IInv, TypeOK, AnsweredCleared, SeenAnswered, NeverReadAgain, Quiet
<1>8. QED
  BY <1>1, <1>2, <1>4, <1>5, <1>7 DEF IInv

LEMMA ExpireKeeps == ASSUME IInv, NEW s \in Streams, Expire(s) PROVE IInv'
BY DEF Expire, IInv, TypeOK, Numbers, ChunksSent, ReadSent, StreamFound, AnsweredCleared,
       SeenAnswered, NeverReadAgain, Answered

\* A chunk that has just been sent is in no answer: its send was not done.
LEMMA SendKeeps == ASSUME IInv, NEW q \in Sends, NEW n \in SeqNos, Send(q, n) PROVE IInv'
<1> DEFINE s == stream[q]
<1> USE StreamAssumption
<1>1. /\ q \in Reqs /\ pc[q] = "found" /\ s \in Streams
      /\ pc' = [pc EXCEPT ![q] = "ok"]
      /\ chunks' = [chunks EXCEPT ![s][n] = q]
      /\ maxSeq' = [maxSeq EXCEPT ![s] = IF n > @ THEN n ELSE @]
      /\ UNCHANGED <<stored, stream, read, seen>>
  BY DEF Send, Goto, IInv, StreamFound, Reqs
<1>2. \A g \in Receives : q \notin read[g]
  BY <1>1 DEF IInv, ReadSent
<1>3. \A t \in Streams, k \in SeqNos :
        chunks'[t][k] = IF t = s /\ k = n THEN q ELSE chunks[t][k]
  BY <1>1 DEF IInv, TypeOK
<1>4. TypeOK'
  <2>1. chunks' \in [Streams -> [SeqNos -> Sends \cup {Nil}]]
    <3>1. chunks' = [chunks EXCEPT ![s] = [chunks[s] EXCEPT ![n] = q]]
      BY <1>1
    <3>2. [chunks[s] EXCEPT ![n] = q] \in [SeqNos -> Sends \cup {Nil}]
      BY <1>1 DEF IInv, TypeOK
    <3>3. QED
      BY <1>1, <3>1, <3>2 DEF IInv, TypeOK
  <2>2. maxSeq' \in [Streams -> SeqNos \cup {-1}]
    BY <1>1 DEF IInv, TypeOK
  <2>3. ASSUME NEW t \in Streams, NEW k \in SeqNos, chunks'[t][k] # Nil PROVE k <= maxSeq'[t]
    <3>1. /\ k \in Int /\ n \in Int /\ maxSeq[t] \in Int
          /\ maxSeq'[t] = IF t = s /\ n > maxSeq[t] THEN n ELSE maxSeq[t]
      <4>1. maxSeq \in [Streams -> SeqNos \cup {-1}] /\ SeqNos \subseteq Int
        BY DEF IInv, TypeOK
      <4>2. maxSeq[t] \in Int /\ k \in Int /\ n \in Int
        <5>1. k \in Int /\ n \in Int
          BY <4>1
        <5>2. maxSeq[t] \in SeqNos \cup {-1}
          BY <4>1
        <5>3. SeqNos \cup {-1} \subseteq Int
          BY <4>1
        <5>4. QED
          BY <5>1, <5>2, <5>3, Zenon
      <4>3. maxSeq'[t] = IF t = s /\ n > maxSeq[t] THEN n ELSE maxSeq[t]
        BY <1>1, <4>1
      <4>4. QED
        BY <4>2, <4>3
    <3>2. CASE t = s /\ k = n
      BY <3>1, <3>2
    <3>3. CASE ~(t = s /\ k = n)
      <4>1. k <= maxSeq[t]
        BY <1>3, <2>3, <3>3 DEF IInv, TypeOK, Numbers
      <4>2. QED
        BY <3>1, <4>1
    <3>4. QED
      BY <3>2, <3>3
  <2>4. pc' \in [Reqs -> Steps]
    BY <1>1 DEF IInv, TypeOK, Steps
  <2>5. QED
    BY <1>1, <2>1, <2>2, <2>3, <2>4 DEF IInv, TypeOK, Numbers
<1>5. ChunksSent'
  BY <1>1, <1>3 DEF IInv, TypeOK, ChunksSent, Reqs
<1>6. ReadSent' /\ StreamFound'
  BY <1>1, <1>2 DEF IInv, TypeOK, ReadSent, StreamFound, Reqs
<1>7. Answered' = Answered
  <2>1. \A g \in Receives : g # q => pc'[g] = pc[g]
    BY <1>1 DEF IInv, TypeOK, Reqs
  <2>2. \A g \in Receives : g # q /\ read'[g] = read[g]
    BY <1>1 DEF Reqs
  <2>3. QED
    BY <2>1, <2>2, AnsweredSame
<1>8. AnsweredCleared'
  <2>1. q \notin Answered
    BY <1>2 DEF Answered
  <2>2. QED
    BY <1>3, <1>7, <2>1 DEF IInv, AnsweredCleared
<1>9. SeenAnswered' /\ NeverReadAgain'
  BY <1>1, <1>7 DEF IInv, SeenAnswered, NeverReadAgain
<1>10. QED
  BY <1>4, <1>5, <1>6, <1>8, <1>9 DEF IInv

\* A receive copies chunks that nobody was answered.
LEMMA CopyKeeps == ASSUME IInv, NEW g \in Receives, ReceiveCopy(g) PROVE IInv'
<1> DEFINE s == stream[g]
<1> USE StreamAssumption
<1>1. /\ g \in Reqs /\ g \notin Sends /\ pc[g] = "counted" /\ s \in Streams
      /\ pc' = [pc EXCEPT ![g] = "copied"]
      /\ UNCHANGED <<stored, chunks, maxSeq, stream, seen>>
  BY DEF ReceiveCopy, Goto, IInv, StreamFound, Reqs
<1>2. PICK N \in Copies(s) : read' = [read EXCEPT ![g] = {chunks[s][n] : n \in N}]
  BY DEF ReceiveCopy
<1>3. N \subseteq Numbers(s)
  BY DEF Copies
<1>4. \A q \in read'[g] : \E n \in SeqNos : q = chunks[s][n] /\ q # Nil
  BY <1>2, <1>3 DEF Numbers, IInv, TypeOK
<1>5. \A h \in Receives : h # g => read'[h] = read[h]
  BY <1>2 DEF IInv, TypeOK
<1>6. TypeOK'
  <2>1. read' \in [Receives -> SUBSET Sends]
    BY <1>1, <1>2, <1>3 DEF IInv, TypeOK, Numbers
  <2>2. QED
    BY <1>1, <2>1 DEF IInv, TypeOK, Steps, Numbers
<1>7. ChunksSent' /\ StreamFound'
  BY <1>1 DEF IInv, TypeOK, ChunksSent, StreamFound, Reqs
<1>8. \A q \in read'[g] : pc'[q] = "ok" /\ stream'[q] = s /\ q \notin Answered
  <2> SUFFICES ASSUME NEW q \in read'[g] PROVE pc'[q] = "ok" /\ stream'[q] = s /\ q \notin Answered
    OBVIOUS
  <2>1. PICK n \in SeqNos : q = chunks[s][n] /\ q # Nil
    BY <1>4
  <2>2. q \in Sends /\ pc[q] = "ok" /\ stream[q] = s /\ q \notin Answered
    BY <1>1, <2>1 DEF IInv, TypeOK, ChunksSent, AnsweredCleared
  <2>3. QED
    BY <1>1, <2>2 DEF IInv, TypeOK, Reqs
<1>9. ReadSent'
  BY <1>1, <1>5, <1>8 DEF IInv, TypeOK, ReadSent, Reqs
<1>10. Answered' = Answered
  <2>1. \A h \in Receives : h # g => pc'[h] = pc[h] /\ read'[h] = read[h]
    BY <1>1, <1>5 DEF IInv, TypeOK, Reqs
  <2>2. pc[g] # "ok" /\ pc'[g] # "ok"
    BY <1>1 DEF IInv, TypeOK
  <2>3. QED
    BY <2>1, <2>2, AnsweredSame
<1>11. AnsweredCleared' /\ SeenAnswered'
  BY <1>1, <1>10 DEF IInv, AnsweredCleared, SeenAnswered
<1>12. NeverReadAgain'
  BY <1>1, <1>5, <1>8 DEF IInv, NeverReadAgain, SeenAnswered
<1>13. QED
  BY <1>6, <1>7, <1>9, <1>11, <1>12 DEF IInv

\* A receive is answered when its stream has been emptied, and all it copied came
\* from that stream.
LEMMA ClearKeeps == ASSUME IInv, NEW g \in Receives, ReceiveClear(g) PROVE IInv'
<1> DEFINE s == stream[g]
<1> USE StreamAssumption
<1>1. /\ g \in Reqs /\ g \notin Sends /\ pc[g] = "copied" /\ s \in Streams
      /\ pc' = [pc EXCEPT ![g] = "ok"]
      /\ chunks' = [chunks EXCEPT ![s] = Empty]
      /\ UNCHANGED <<stored, maxSeq, stream, read, seen>>
  BY DEF ReceiveClear, Goto, IInv, StreamFound, Reqs
<1>2. \A t \in Streams, k \in SeqNos : chunks'[t][k] = IF t = s THEN Nil ELSE chunks[t][k]
  BY <1>1 DEF IInv, TypeOK, Empty
<1>3. TypeOK'
  <2>1. chunks' \in [Streams -> [SeqNos -> Sends \cup {Nil}]]
    BY <1>1 DEF IInv, TypeOK, Empty
  <2>2. \A t \in Streams, k \in SeqNos : chunks'[t][k] # Nil => k <= maxSeq'[t]
    BY <1>1, <1>2 DEF IInv, TypeOK, Numbers
  <2>3. QED
    BY <1>1, <2>1, <2>2 DEF IInv, TypeOK, Numbers, Steps
<1>4. ChunksSent' /\ ReadSent' /\ StreamFound'
  BY <1>1, <1>2 DEF IInv, TypeOK, ChunksSent, ReadSent, StreamFound, Reqs
<1>5. Answered' = Answered \cup read[g]
  BY <1>1 DEF IInv, TypeOK, Answered, Reqs
<1>6. AnsweredCleared'
  <2> SUFFICES ASSUME NEW t \in Streams, NEW k \in SeqNos PROVE chunks'[t][k] \notin Answered'
    BY DEF AnsweredCleared
  <2>1. CASE t = s
    BY <1>1, <1>2, <2>1 DEF Answered, Reqs
  <2>2. CASE t # s
    <3>1. chunks'[t][k] = chunks[t][k] /\ chunks[t][k] \notin Answered
      BY <1>2, <2>2 DEF IInv, AnsweredCleared
    <3>2. chunks[t][k] \notin read[g]
      BY <2>2 DEF IInv, TypeOK, ChunksSent, ReadSent, Reqs
    <3>3. QED
      BY <1>5, <3>1, <3>2
  <2>3. QED
    BY <2>1, <2>2
<1>7. SeenAnswered' /\ NeverReadAgain'
  BY <1>1, <1>5 DEF IInv, SeenAnswered, NeverReadAgain
<1>8. QED
  BY <1>3, <1>4, <1>6, <1>7 DEF IInv

LEMMA StepKeeps == ASSUME IInv, [Next]_vars PROVE IInv'
<1> USE StreamAssumption
<1>1. ASSUME NEW s \in Streams, Start(s) PROVE IInv'
  <2>1. /\ s \in Reqs /\ pc[s] = "new" /\ "ok" \in Steps /\ Quiet(s, "ok")
        /\ stored' \subseteq Streams /\ UNCHANGED <<stream, seen>>
    BY <1>1 DEF Start, Goto, Quiet, Reqs, Steps, IInv, TypeOK
  <2>2. QED
    BY <2>1, QuietKeeps
<1>2. ASSUME NEW s \in Streams, StartRefused(s) PROVE IInv'
  <2>1. /\ s \in Reqs /\ pc[s] = "new" /\ "refused" \in Steps /\ Quiet(s, "refused")
        /\ stored' \subseteq Streams /\ UNCHANGED <<stream, seen>>
    BY <1>2 DEF StartRefused, Goto, Quiet, Reqs, Steps, IInv, TypeOK
  <2>2. QED
    BY <2>1, QuietKeeps
<1>3. ASSUME NEW q \in Sends, NEW s \in Streams, FindSend(q, s) PROVE IInv'
  <2>1. /\ q \in Reqs /\ pc[q] = "new" /\ "found" \in Steps /\ Quiet(q, "found")
        /\ stored' \subseteq Streams /\ stream' = [stream EXCEPT ![q] = s] /\ UNCHANGED seen
    BY <1>3 DEF FindSend, Find, Goto, Quiet, Reqs, Steps, IInv, TypeOK
  <2>2. QED
    BY <2>1, QuietKeeps
<1>4. ASSUME NEW g \in Receives, NEW s \in Streams, FindReceive(g, s) PROVE IInv'
  <2>1. /\ g \in Reqs /\ pc[g] = "new" /\ "found" \in Steps /\ Quiet(g, "found")
        /\ stored' \subseteq Streams /\ stream' = [stream EXCEPT ![g] = s]
        /\ seen' = [seen EXCEPT ![g] = Answered]
    BY <1>4 DEF FindReceive, Find, Goto, Quiet, Reqs, Steps, IInv, TypeOK
  <2>2. QED
    BY <2>1, QuietKeeps
<1>5. ASSUME NEW r \in Sends \cup Receives \cup Ends, NEW s \in Streams, FindRefused(r, s) PROVE IInv'
  <2>1. /\ r \in Reqs /\ pc[r] = "new" /\ "refused" \in Steps /\ Quiet(r, "refused")
        /\ stored' \subseteq Streams /\ UNCHANGED <<stream, seen>>
    BY <1>5 DEF FindRefused, Goto, Quiet, Reqs, Steps, IInv, TypeOK
  <2>2. QED
    BY <2>1, QuietKeeps
<1>6. ASSUME NEW e \in Ends, NEW s \in Streams, End(e, s) PROVE IInv'
  <2>1. /\ e \in Reqs /\ pc[e] = "new" /\ "ok" \in Steps /\ Quiet(e, "ok")
        /\ stored' \subseteq Streams /\ UNCHANGED <<stream, seen>>
    BY <1>6 DEF End, Goto, Quiet, Reqs, Steps, IInv, TypeOK
  <2>2. QED
    BY <2>1, QuietKeeps
<1>7. ASSUME NEW g \in Receives, ReceiveCount(g) PROVE IInv'
  <2>1. /\ g \in Reqs /\ pc[g] = "found" /\ "counted" \in Steps /\ Quiet(g, "counted")
        /\ stored' \subseteq Streams /\ UNCHANGED <<stream, seen>>
    BY <1>7 DEF ReceiveCount, Goto, Quiet, Reqs, Steps, IInv, TypeOK
  <2>2. QED
    BY <2>1, QuietKeeps
<1>8. ASSUME NEW g \in Receives, ReceiveTimeout(g) PROVE IInv'
  <2>1. /\ g \in Reqs /\ pc[g] = "found" /\ "ok" \in Steps /\ Quiet(g, "ok")
        /\ stored' \subseteq Streams /\ UNCHANGED <<stream, seen>>
    BY <1>8 DEF ReceiveTimeout, Goto, Quiet, Reqs, Steps, IInv, TypeOK
  <2>2. QED
    BY <2>1, QuietKeeps
<1>9. CASE UNCHANGED vars
  BY <1>9 DEF vars, IInv, TypeOK, Numbers, ChunksSent, ReadSent, StreamFound, AnsweredCleared,
              SeenAnswered, NeverReadAgain, Answered
<1>10. QED
  BY <1>1, <1>2, <1>3, <1>4, <1>5, <1>6, <1>7, <1>8, <1>9, ExpireKeeps, SendKeeps, CopyKeeps,
     ClearKeeps DEF Next, SendStep, ReceiveStep

THEOREM Invariance == Spec => []IInv
<1>1. IInv /\ [Next]_vars => IInv'
  BY StepKeeps
<1>2. QED
  BY <1>1, InitKeeps, PTL DEF Spec

\* A receive that begins after another was answered returns nothing of that
\* answer, however sends, receives and expiry interleave.
THEOREM NeverReadAgainAlways == Spec => []NeverReadAgain
BY Invariance, PTL DEF IInv

\* The variables keep their types, and MaxSeq bounds the numbers in a stream.
THEOREM TypeCorrect == Spec => []TypeOK
BY Invariance, PTL DEF IInv
====
