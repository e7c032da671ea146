---- MODULE MessageRelay_proofs ----
(***************************************************************************)
(* Messages are kept once, read by their addressee and in order, for any   *)
(* number of clients and requests and any size of the queues.              *)
(*                                                                         *)
(* The two planes differ in how a message gets into its queue and in how   *)
(* many a reader takes; what makes them right is the same.  Plane states   *)
(* it of a queue q whose messages have pc d, in terms of the values at of  *)
(* pc, to of peer, bf of before and rd of read.                            *)
(***************************************************************************)
EXTENDS MessageRelay, SequenceTheorems, TLAPS

IsRead(m, rd) == \E g \in Readers : \E j \in 1..Len(rd[g]) : rd[g][j] = m

\* What stands in a queue was acknowledged and is for its owner.
Marked(q, d, at, to) ==
    \A c \in Clients : \A i \in 1..Len(q[c]) : at[q[c][i]] = d /\ to[q[c][i]] = c

Unread(q, rd) == \A c \in Clients : \A i \in 1..Len(q[c]) : ~IsRead(q[c][i], rd)

Distinct(q) == \A c \in Clients : \A i, j \in 1..Len(q[c]) : q[c][i] = q[c][j] => i = j

\* What was acknowledged before stands before it in the queue or has been read.
Ordered(q, d, at, to, bf, rd) ==
    \A c \in Clients : \A i \in 1..Len(q[c]) : \A n \in bf[q[c][i]] :
        /\ at[n] = d
        /\ to[n] = c => IsRead(n, rd) \/ \E j \in 1..Len(q[c]) : j < i /\ q[c][j] = n

\* What was acknowledged is not lost.
Complete(q, d, at, to, rd) ==
    \A m \in Messages : at[m] = d =>
        to[m] \in Clients /\ (IsRead(m, rd) \/ \E i \in 1..Len(q[to[m]]) : q[to[m]][i] = m)

Plane(q, d, at, to, bf, rd) ==
    /\ Marked(q, d, at, to)
    /\ Unread(q, rd)
    /\ Distinct(q)
    /\ Ordered(q, d, at, to, bf, rd)
    /\ Complete(q, d, at, to, rd)

\* A message has one place among the answers.
ReadOnce ==
    \A g, h \in Readers : \A i \in 1..Len(read[g]), j \in 1..Len(read[h]) :
        read[g][i] = read[h][j] => g = h /\ i = j

\* What has been read was acknowledged, and so was what came before it.
ReadDone ==
    \A g \in Readers : \A i \in 1..Len(read[g]) : \A m \in {read[g][i]} \cup before[read[g][i]] :
        pc[m] \in {"sent", "posted"}

\* A request on its way knows its clients, and what it saw is of its plane.
OnItsWay ==
    /\ \A r \in Permits \cup Messages :
         pc[r] \in {"found", "permitted", "addressed", "holding", "sent", "posted"} =>
             client[r] \in Clients /\ peer[r] \in Clients
    /\ \A m \in Messages :
         /\ pc[m] \in {"found", "permitted", "addressed"} =>
                \A n \in before[m] : pc[n] = "sent"
         /\ pc[m] = "holding" => \A n \in before[m] : pc[n] = "posted"
    /\ \A g \in Readers :
         /\ pc[g] \in {"receiving", "getting"} => client[g] \in Clients
         /\ pc[g] # "ok" => read[g] = <<>>

IInv ==
    /\ TypeOK
    /\ Plane(messageQueue, "sent", pc, peer, before, read)
    /\ Plane(incomingQueue, "posted", pc, peer, before, read)
    /\ ReadOnce /\ ReadDone /\ ReadByAddressee /\ NoOvertaking
    /\ OnItsWay

---------------------------------------------------------------------------
(* Planes *)

\* A plane does not see what happens to messages that are not of it.
LEMMA PlaneKeep ==
    ASSUME NEW q \in [Clients -> Seq(Messages)], NEW d,
           NEW at, NEW to, NEW bf, NEW rd, NEW at2, NEW to2, NEW bf2, NEW rd2,
           Plane(q, d, at, to, bf, rd),
           \A m \in Messages : bf[m] \subseteq Messages,
           \A m \in Messages : at2[m] = d <=> at[m] = d,
           \A m \in Messages : at[m] = d => to2[m] = to[m] /\ bf2[m] = bf[m],
           \A m \in Messages : at[m] = d => (IsRead(m, rd2) <=> IsRead(m, rd))
    PROVE  Plane(q, d, at2, to2, bf2, rd2)
<1>1. \A c \in Clients : \A i \in 1..Len(q[c]) : q[c][i] \in Messages /\ at[q[c][i]] = d /\ to[q[c][i]] = c
  BY ElementOfSeq DEF Plane, Marked
<1>2. Marked(q, d, at2, to2)
  BY <1>1 DEF Marked
<1>3. Unread(q, rd2)
  BY <1>1 DEF Plane, Unread
<1>4. Ordered(q, d, at2, to2, bf2, rd2)
  <2> SUFFICES ASSUME NEW c \in Clients, NEW i \in 1..Len(q[c]), NEW n \in bf2[q[c][i]]
               PROVE  /\ at2[n] = d
                      /\ to2[n] = c => IsRead(n, rd2) \/ \E j \in 1..Len(q[c]) : j < i /\ q[c][j] = n
    BY DEF Ordered
  <2>1. n \in bf[q[c][i]] /\ n \in Messages
    BY <1>1
  <2>2. /\ at[n] = d
        /\ to[n] = c => IsRead(n, rd) \/ \E j \in 1..Len(q[c]) : j < i /\ q[c][j] = n
    BY <2>1 DEF Plane, Ordered
  <2>3. QED
    BY <2>1, <2>2
<1>5. Complete(q, d, at2, to2, rd2)
  BY DEF Plane, Complete
<1>6. QED
  BY <1>2, <1>3, <1>4, <1>5 DEF Plane

\* A message acknowledged joins the end of its peer's queue.
LEMMA PlanePush ==
    ASSUME NEW q \in [Clients -> Seq(Messages)], NEW d,
           NEW at, NEW to, NEW bf, NEW rd, NEW q2, NEW at2,
           NEW m \in Messages, to[m] \in Clients,
           Plane(q, d, at, to, bf, rd),
           \A k \in Messages : bf[k] \subseteq Messages,
           at[m] # d, ~IsRead(m, rd), \A n \in bf[m] : at[n] = d,
           \A k \in Messages : at2[k] = IF k = m THEN d ELSE at[k],
           \A c \in Clients : q2[c] = IF c = to[m] THEN Append(q[c], m) ELSE q[c]
    PROVE  Plane(q2, d, at2, to, bf, rd)
<1> DEFINE p == to[m]
<1>a. p \in Clients /\ q[p] \in Seq(Messages) /\ q2[p] = Append(q[p], m)
  OBVIOUS
<1>1. /\ \A c \in Clients : c # p => q2[c] = q[c]
      /\ q2[p] = Append(q[p], m) /\ Len(q2[p]) = Len(q[p]) + 1 /\ Len(q[p]) \in Nat
      /\ \A i \in 1..Len(q[p]) : q2[p][i] = q[p][i]
      /\ q2[p][Len(q[p]) + 1] = m
  <2>1. \A c \in Clients : c # p => q2[c] = q[c]
    OBVIOUS
  <2>2. /\ Len(q2[p]) = Len(q[p]) + 1 /\ Len(q[p]) \in Nat
        /\ q2[p][Len(q[p]) + 1] = m
        /\ \A i \in 1..Len(q[p]) : q2[p][i] = q[p][i]
    BY <1>a, AppendProperties
  <2>3. QED
    BY <1>a, <2>1, <2>2
<1>2. \A c \in Clients : \A i \in 1..Len(q[c]) :
        q[c][i] \in Messages /\ q[c][i] # m /\ at[q[c][i]] = d /\ to[q[c][i]] = c
  BY ElementOfSeq DEF Plane, Marked
<1>3. \A c \in Clients : \A i \in 1..Len(q2[c]) :
        \/ i \in 1..Len(q[c]) /\ q2[c][i] = q[c][i]
        \/ c = p /\ i = Len(q[p]) + 1 /\ q2[c][i] = m
  <2> SUFFICES ASSUME NEW c \in Clients, NEW i \in 1..Len(q2[c])
               PROVE  \/ i \in 1..Len(q[c]) /\ q2[c][i] = q[c][i]
                      \/ c = p /\ i = Len(q[p]) + 1 /\ q2[c][i] = m
    OBVIOUS
  <2>1. CASE c # p
    BY <1>1, <2>1
  <2>2. CASE c = p
    <3>1. i \in 1..Len(q[p]) \/ i = Len(q[p]) + 1
      BY <1>1, <2>2
    <3>2. QED
      BY <1>1, <2>2, <3>1
  <2>3. QED
    BY <2>1, <2>2
<1>4. Marked(q2, d, at2, to)
  BY <1>2, <1>3 DEF Marked
<1>5. Unread(q2, rd)
  BY <1>3 DEF Plane, Unread
<1>6. Distinct(q2)
  <2> SUFFICES ASSUME NEW c \in Clients, NEW i \in 1..Len(q2[c]), NEW j \in 1..Len(q2[c]),
                      q2[c][i] = q2[c][j]
               PROVE  i = j
    BY DEF Distinct
  <2>1. CASE i \in 1..Len(q[c]) /\ j \in 1..Len(q[c])
    <3>1. q2[c][i] = q[c][i] /\ q2[c][j] = q[c][j]
      <4>1. CASE c = p
        BY <1>1, <2>1, <4>1
      <4>2. CASE c # p
        BY <1>1, <4>2
      <4>3. QED
        BY <4>1, <4>2
    <3>2. \A k, l \in 1..Len(q[c]) : q[c][k] = q[c][l] => k = l
      BY DEF Plane, Distinct
    <3>3. QED
      BY <2>1, <3>1, <3>2
  <2>2. ASSUME NEW k \in 1..Len(q2[c]), q2[c][k] = m PROVE c = p /\ k = Len(q[p]) + 1
    <3>1. k \in 1..Len(q[c]) => q[c][k] # m
      BY <1>2
    <3>2. QED
      BY <1>3, <2>2, <3>1
  <2>3. CASE i \notin 1..Len(q[c])
    <3>1. q2[c][i] = m
      BY <1>3, <2>3
    <3>2. QED
      BY <2>2, <3>1
  <2>4. CASE j \notin 1..Len(q[c])
    <3>1. q2[c][j] = m
      BY <1>3, <2>4
    <3>2. QED
      BY <2>2, <3>1
  <2>5. QED
    BY <2>1, <2>3, <2>4
<1>7. Ordered(q2, d, at2, to, bf, rd)
  <2> SUFFICES ASSUME NEW c \in Clients, NEW i \in 1..Len(q2[c]), NEW n \in bf[q2[c][i]]
               PROVE  /\ at2[n] = d
                      /\ to[n] = c => IsRead(n, rd) \/ \E j \in 1..Len(q2[c]) : j < i /\ q2[c][j] = n
    BY DEF Ordered
  <2>1. CASE i \in 1..Len(q[c]) /\ q2[c][i] = q[c][i]
    <3>1. /\ at[n] = d /\ n \in Messages
          /\ to[n] = c => IsRead(n, rd) \/ \E j \in 1..Len(q[c]) : j < i /\ q[c][j] = n
      BY <1>2, <2>1 DEF Plane, Ordered
    <3>2. \A j \in 1..Len(q[c]) : j \in 1..Len(q2[c]) /\ q2[c][j] = q[c][j]
      BY <1>1
    <3>3. QED
      BY <3>1, <3>2
  <2>2. CASE c = p /\ i = Len(q[p]) + 1 /\ q2[c][i] = m
    <3>1. at[n] = d /\ n \in Messages
      BY <2>2
    <3>2. ASSUME to[n] = c PROVE IsRead(n, rd) \/ \E j \in 1..Len(q2[c]) : j < i /\ q2[c][j] = n
      <4>1. IsRead(n, rd) \/ \E j \in 1..Len(q[p]) : q[p][j] = n
        BY <2>2, <3>1, <3>2 DEF Plane, Complete
      <4>2. ASSUME NEW j \in 1..Len(q[p]) PROVE j \in 1..Len(q2[c]) /\ j < i /\ q2[c][j] = q[p][j]
        BY <1>1, <2>2
      <4>3. QED
        BY <4>1, <4>2
    <3>3. QED
      BY <3>1, <3>2
  <2>3. QED
    BY <1>3, <2>1, <2>2
<1>8. Complete(q2, d, at2, to, rd)
  <2> SUFFICES ASSUME NEW k \in Messages, at2[k] = d
               PROVE  to[k] \in Clients /\ (IsRead(k, rd) \/ \E i \in 1..Len(q2[to[k]]) : q2[to[k]][i] = k)
    BY DEF Complete
  <2>1. CASE k = m
    BY <1>1, <2>1
  <2>2. CASE k # m
    <3>1. to[k] \in Clients /\ (IsRead(k, rd) \/ \E i \in 1..Len(q[to[k]]) : q[to[k]][i] = k)
      BY <2>2 DEF Plane, Complete
    <3>2. CASE to[k] = p
      BY <1>1, <3>1, <3>2
    <3>3. CASE to[k] # p
      BY <1>1, <3>1, <3>3
    <3>4. QED
      BY <3>2, <3>3
  <2>3. QED
    BY <2>1, <2>2
<1>9. QED
  BY <1>4, <1>5, <1>6, <1>7, <1>8 DEF Plane

\* A reader takes the first n messages, pre, and leaves the others, rest.
Split(s, n, pre, rest) ==
    /\ Len(pre) = n /\ \A i \in 1..n : pre[i] = s[i]
    /\ Len(rest) = Len(s) - n /\ \A i \in 1..Len(rest) : rest[i] = s[i + n]

LEMMA PlaneTake ==
    ASSUME NEW q \in [Clients -> Seq(Messages)], NEW d,
           NEW at, NEW to, NEW bf, NEW rd, NEW q2, NEW rd2,
           NEW c \in Clients, NEW n \in Nat, NEW pre, NEW rest,
           Split(q[c], n, pre, rest), n <= Len(q[c]),
           Plane(q, d, at, to, bf, rd),
           q2 = [q EXCEPT ![c] = rest],
           \A m : IsRead(m, rd2) <=> IsRead(m, rd) \/ \E i \in 1..n : q[c][i] = m
    PROVE  Plane(q2, d, at, to, bf, rd2)
<1>1. /\ Len(q[c]) \in Nat /\ q2[c] = rest /\ Len(q2[c]) = Len(q[c]) - n
      /\ \A b \in Clients : b # c => q2[b] = q[b]
      /\ \A i \in 1..Len(q2[c]) : i + n \in 1..Len(q[c]) /\ q2[c][i] = q[c][i + n]
  BY DEF Split
<1>2. \A b \in Clients : \A i \in 1..Len(q2[b]) : \E k \in 1..Len(q[b]) :
        q2[b][i] = q[b][k] /\ k = IF b = c THEN i + n ELSE i
  BY <1>1
<1>3. Marked(q2, d, at, to)
  BY <1>2 DEF Plane, Marked
<1>4. Unread(q2, rd2)
  <2> SUFFICES ASSUME NEW b \in Clients, NEW i \in 1..Len(q2[b]), IsRead(q2[b][i], rd2) PROVE FALSE
    BY DEF Unread
  <2>1. PICK k \in 1..Len(q[b]) : q2[b][i] = q[b][k] /\ k = IF b = c THEN i + n ELSE i
    BY <1>2
  <2>2. PICK j \in 1..n : q[c][j] = q[b][k]
    BY <2>1 DEF Plane, Unread
  <2>3. j \in 1..Len(q[c]) /\ b = c
    BY <1>1, <2>2 DEF Plane, Marked
  <2>4. j = k /\ k > n
    BY <1>1, <2>1, <2>2, <2>3 DEF Plane, Distinct
  <2>5. QED
    BY <2>4
<1>5. Distinct(q2)
  <2> SUFFICES ASSUME NEW b \in Clients, NEW i \in 1..Len(q2[b]), NEW j \in 1..Len(q2[b]),
                      q2[b][i] = q2[b][j]
               PROVE  i = j
    BY DEF Distinct
  <2>1. CASE b = c
    <3>1. i + n \in 1..Len(q[c]) /\ j + n \in 1..Len(q[c]) /\ q[c][i + n] = q[c][j + n]
      BY <1>1, <2>1
    <3>2. i + n = j + n
      BY <3>1 DEF Plane, Distinct
    <3>3. i \in Int /\ j \in Int
      OBVIOUS
    <3>4. QED
      BY <3>2, <3>3
  <2>2. CASE b # c
    BY <1>1, <2>2 DEF Plane, Distinct
  <2>3. QED
    BY <2>1, <2>2
<1>6. Ordered(q2, d, at, to, bf, rd2)
  <2> SUFFICES ASSUME NEW b \in Clients, NEW i \in 1..Len(q2[b]), NEW m \in bf[q2[b][i]]
               PROVE  /\ at[m] = d
                      /\ to[m] = b => IsRead(m, rd2) \/ \E j \in 1..Len(q2[b]) : j < i /\ q2[b][j] = m
    BY DEF Ordered
  <2>1. PICK k \in 1..Len(q[b]) : q2[b][i] = q[b][k] /\ k = IF b = c THEN i + n ELSE i
    BY <1>2
  <2>2. /\ at[m] = d
        /\ to[m] = b => IsRead(m, rd) \/ \E j \in 1..Len(q[b]) : j < k /\ q[b][j] = m
    BY <2>1 DEF Plane, Ordered
  <2>3. ASSUME to[m] = b, ~IsRead(m, rd2) PROVE \E j \in 1..Len(q2[b]) : j < i /\ q2[b][j] = m
    <3>1. PICK j \in 1..Len(q[b]) : j < k /\ q[b][j] = m
      BY <2>2, <2>3
    <3>2. CASE b # c
      BY <1>1, <2>1, <3>1, <3>2
    <3>3. CASE b = c
      <4>1. j \notin 1..n
        BY <2>3, <3>1, <3>3
      <4>2. j - n \in 1..Len(q2[b]) /\ j - n < i
        BY <1>1, <2>1, <3>1, <3>3, <4>1
      <4>3. q2[b][j - n] = m
        BY <1>1, <3>1, <3>3, <4>2
      <4>4. QED
        BY <4>2, <4>3
    <3>4. QED
      BY <3>2, <3>3
  <2>4. QED
    BY <2>2, <2>3
<1>7. Complete(q2, d, at, to, rd2)
  <2> SUFFICES ASSUME NEW m \in Messages, at[m] = d
               PROVE  to[m] \in Clients /\ (IsRead(m, rd2) \/ \E i \in 1..Len(q2[to[m]]) : q2[to[m]][i] = m)
    BY DEF Complete
  <2>1. to[m] \in Clients /\ (IsRead(m, rd2) \/ \E k \in 1..Len(q[to[m]]) : q[to[m]][k] = m)
    BY DEF Plane, Complete
  <2>2. CASE to[m] # c
    BY <1>1, <2>1, <2>2
  <2>3. CASE to[m] = c /\ ~IsRead(m, rd2)
    <3>1. PICK k \in 1..Len(q[c]) : q[c][k] = m
      BY <2>1, <2>3
    <3>2. k \notin 1..n
      BY <2>3, <3>1
    <3>3. k - n \in 1..Len(q2[c])
      BY <1>1, <3>1, <3>2
    <3>4. q2[c][k - n] = m
      BY <1>1, <3>1, <3>3
    <3>5. QED
      BY <2>1, <2>3, <3>3, <3>4
  <2>4. QED
    BY <2>2, <2>3
<1>8. QED
  BY <1>3, <1>4, <1>5, <1>6, <1>7 DEF Plane

---------------------------------------------------------------------------
(* Steps *)

LEMMA InitKeeps == Init => IInv
<1> SUFFICES ASSUME Init PROVE IInv
  OBVIOUS
<1>1. TypeOK
  <2>1. <<>> \in Seq(Messages) /\ Len(<<>>) = 0
    BY EmptySeq
  <2>2. QED
    BY <2>1, MessageAssumption DEF Init, TypeOK, Steps
<1>2. Plane(messageQueue, "sent", pc, peer, before, read)
  BY DEF Init, Plane, Marked, Unread, Distinct, Ordered, Complete, Reqs
<1>3. Plane(incomingQueue, "posted", pc, peer, before, read)
  BY DEF Init, Plane, Marked, Unread, Distinct, Ordered, Complete, Reqs
<1>4. ReadOnce /\ ReadDone /\ ReadByAddressee /\ NoOvertaking /\ OnItsWay
  BY DEF Init, ReadOnce, ReadDone, ReadByAddressee, NoOvertaking, OnItsWay, Reqs
<1>5. QED
  BY <1>1, <1>2, <1>3, <1>4 DEF IInv

LEMMA ReadMessages ==
    ASSUME TypeOK PROVE \A g \in Readers : \A i \in 1..Len(read[g]) : read[g][i] \in Messages
BY ElementOfSeq DEF TypeOK

\* A step of one request that leaves the queues and the answers alone.
Quiet(r, to, cl, pe, be) ==
    /\ pc' = [pc EXCEPT ![r] = to]
    /\ client' = [client EXCEPT ![r] = cl]
    /\ peer' = [peer EXCEPT ![r] = pe]
    /\ before' = [before EXCEPT ![r] = be]
    /\ UNCHANGED <<queues, read>>

\* The request is not done, nor is it now, and it knows what OnItsWay asks for.
Cautious(r, to, cl, pe, be) ==
    /\ r \in Messages => pc[r] \notin {"sent", "posted"}
    /\ r \in Readers => read[r] = <<>>
    /\ to \notin {"sent", "posted"}
    /\ to \in {"found", "permitted", "addressed", "holding"} => cl \in Clients /\ pe \in Clients
    /\ to \in {"receiving", "getting"} => cl \in Clients
    /\ r \in Messages =>
         /\ to \in {"found", "permitted", "addressed"} => \A n \in be : pc[n] = "sent"
         /\ to = "holding" => \A n \in be : pc[n] = "posted"

LEMMA QuietKeeps ==
    ASSUME IInv, NEW r \in Reqs, NEW to \in Steps,
           NEW cl \in Clients \cup {Nil}, NEW pe \in Clients \cup {Nil}, NEW be \in SUBSET Messages,
           Quiet(r, to, cl, pe, be), Cautious(r, to, cl, pe, be),
           stored' \subseteq Clients, permissions' \in [Clients -> SUBSET Clients]
    PROVE  IInv'
<1> USE MessageAssumption
<1>1. TypeOK'
  BY DEF IInv, TypeOK, Quiet, queues
<1>2. \A m \in Messages :
        /\ m \in Reqs
        /\ pc[m] \in {"sent", "posted"} => m # r
        /\ m # r => pc'[m] = pc[m] /\ peer'[m] = peer[m] /\ before'[m] = before[m] /\ client'[m] = client[m]
        /\ pc'[m] = "sent" <=> pc[m] = "sent"
        /\ pc'[m] = "posted" <=> pc[m] = "posted"
  BY DEF IInv, TypeOK, Quiet, Cautious, Reqs
<1>3. \A m \in Messages : before[m] \subseteq Messages
  BY DEF IInv, TypeOK, Reqs
<1>4. read' = read /\ messageQueue' = messageQueue /\ incomingQueue' = incomingQueue
  BY DEF Quiet, queues
<1>5. Plane(messageQueue, "sent", pc', peer', before', read)
  <2>1. messageQueue \in [Clients -> Seq(Messages)] /\ Plane(messageQueue, "sent", pc, peer, before, read)
    BY DEF IInv, TypeOK
  <2>2. \A m \in Messages : pc'[m] = "sent" <=> pc[m] = "sent"
    BY <1>2
  <2>3. \A m \in Messages : pc[m] = "sent" => peer'[m] = peer[m] /\ before'[m] = before[m]
    BY <1>2
  <2>4. QED
    BY <1>3, <2>1, <2>2, <2>3, PlaneKeep
<1>6. Plane(incomingQueue, "posted", pc', peer', before', read)
  <2>1. incomingQueue \in [Clients -> Seq(Messages)] /\ Plane(incomingQueue, "posted", pc, peer, before, read)
    BY DEF IInv, TypeOK
  <2>2. \A m \in Messages : pc'[m] = "posted" <=> pc[m] = "posted"
    BY <1>2
  <2>3. \A m \in Messages : pc[m] = "posted" => peer'[m] = peer[m] /\ before'[m] = before[m]
    BY <1>2
  <2>4. QED
    BY <1>3, <2>1, <2>2, <2>3, PlaneKeep
<1>7. \A g \in Readers : \A i \in 1..Len(read[g]) :
        /\ read[g][i] \in Messages /\ pc[read[g][i]] \in {"sent", "posted"}
        /\ \A m \in before[read[g][i]] : m \in Messages /\ pc[m] \in {"sent", "posted"}
  BY <1>3, ReadMessages DEF IInv, ReadDone
<1>8. \A g \in Readers : \A i \in 1..Len(read[g]) : client'[g] = client[g]
  BY DEF IInv, TypeOK, Quiet, Cautious, Reqs
<1>9. ReadOnce' /\ ReadDone'
  BY <1>2, <1>4, <1>7 DEF IInv, ReadOnce, ReadDone
<1>10. ReadByAddressee'
  BY <1>2, <1>4, <1>7, <1>8 DEF IInv, ReadByAddressee
<1>11. NoOvertaking'
  BY <1>2, <1>4, <1>7, <1>8 DEF IInv, NoOvertaking
<1>12. OnItsWay'
  <2>1. ASSUME NEW k \in Permits \cup Messages,
               pc'[k] \in {"found", "permitted", "addressed", "holding", "sent", "posted"}
        PROVE  client'[k] \in Clients /\ peer'[k] \in Clients
    BY <2>1 DEF IInv, TypeOK, OnItsWay, Quiet, Cautious, Reqs
  <2>2. ASSUME NEW m \in Messages
        PROVE  /\ pc'[m] \in {"found", "permitted", "addressed"} => \A n \in before'[m] : pc'[n] = "sent"
               /\ pc'[m] = "holding" => \A n \in before'[m] : pc'[n] = "posted"
    <3>1. CASE m = r
      <4>1. pc'[m] = to /\ before'[m] = be
        BY <3>1 DEF IInv, TypeOK, Quiet, Reqs
      <4>2. QED
        BY <1>2, <3>1, <4>1 DEF Cautious
    <3>2. CASE m # r
      BY <1>2, <1>3, <3>2 DEF IInv, OnItsWay
    <3>3. QED
      BY <3>1, <3>2
  <2>3. ASSUME NEW g \in Readers
        PROVE  /\ pc'[g] \in {"receiving", "getting"} => client'[g] \in Clients
               /\ pc'[g] # "ok" => read'[g] = <<>>
    BY <1>4 DEF IInv, TypeOK, OnItsWay, Quiet, Cautious, Reqs
  <2>4. QED
    BY <2>1, <2>2, <2>3 DEF OnItsWay
<1>13. QED
  BY <1>1, <1>4, <1>5, <1>6, <1>9, <1>10, <1>11, <1>12 DEF IInv

\* A push acknowledges a message and changes nothing else of the requests.
Acknowledge(m, d) ==
    /\ pc' = [pc EXCEPT ![m] = d]
    /\ UNCHANGED <<stored, permissions, client, peer, read, before>>

LEMMA PushKeeps ==
    ASSUME IInv, NEW m \in Messages, NEW d \in {"sent", "posted"}, NEW q \in [Clients -> Seq(Messages)],
           pc[m] = IF d = "sent" THEN "addressed" ELSE "holding",
           Acknowledge(m, d),
           Plane(q, d, pc, peer, before, read)
    PROVE  /\ peer[m] \in Clients
           /\ Plane([q EXCEPT ![peer[m]] = Append(@, m)], d, pc', peer', before', read')
           /\ ReadOnce' /\ ReadDone' /\ ReadByAddressee' /\ NoOvertaking' /\ OnItsWay'
<1> USE MessageAssumption
<1>1. \A k \in Messages : pc'[k] = IF k = m THEN d ELSE pc[k]
  BY DEF IInv, TypeOK, Acknowledge, Reqs
<1>2. /\ \A k \in Messages : before[k] \subseteq Messages
      /\ peer' = peer /\ before' = before /\ read' = read /\ client' = client
  BY DEF IInv, TypeOK, Acknowledge, Reqs
<1>3. peer[m] \in Clients /\ \A n \in before[m] : pc[n] = d
  BY DEF IInv, OnItsWay
<1>4. pc[m] \notin {"sent", "posted"}
  OBVIOUS
<1>5. ~IsRead(m, read)
  BY <1>4 DEF IInv, ReadDone, IsRead
<1>6. Plane([q EXCEPT ![peer[m]] = Append(@, m)], d, pc', peer, before, read)
  <2>1. pc[m] # d
    BY <1>4
  <2>2. \A k \in Messages : before[k] \subseteq Messages
    BY <1>2
  <2>3. Plane(q, d, pc, peer, before, read)
    OBVIOUS
  <2>4. \A c \in Clients :
          [q EXCEPT ![peer[m]] = Append(@, m)][c] = IF c = peer[m] THEN Append(q[c], m) ELSE q[c]
    BY <1>3
  <2>5. QED
    BY <1>1, <1>3, <1>5, <2>1, <2>2, <2>3, <2>4, PlanePush
<1>7. ReadOnce' /\ ReadByAddressee' /\ NoOvertaking'
  BY <1>2 DEF IInv, ReadOnce, ReadByAddressee, NoOvertaking
<1>8. ReadDone'
  <2> SUFFICES ASSUME NEW g \in Readers, NEW i \in 1..Len(read[g]),
                      NEW k \in {read[g][i]} \cup before[read[g][i]]
               PROVE  pc'[k] \in {"sent", "posted"}
    BY <1>2 DEF ReadDone
  <2>1. k \in Messages /\ pc[k] \in {"sent", "posted"}
    BY <1>2, ReadMessages DEF IInv, ReadDone
  <2>2. QED
    BY <1>1, <2>1
<1>9. OnItsWay'
  <2>1. ASSUME NEW k \in Permits \cup Messages,
               pc'[k] \in {"found", "permitted", "addressed", "holding", "sent", "posted"}
        PROVE  client'[k] \in Clients /\ peer'[k] \in Clients
    <3>1. CASE k = m
      BY <1>2, <1>3, <3>1 DEF IInv, OnItsWay
    <3>2. CASE k # m
      BY <1>2, <2>1, <3>2 DEF IInv, TypeOK, OnItsWay, Acknowledge, Reqs
    <3>3. QED
      BY <3>1, <3>2
  <2>2. ASSUME NEW k \in Messages
        PROVE  /\ pc'[k] \in {"found", "permitted", "addressed"} => \A n \in before'[k] : pc'[n] = "sent"
               /\ pc'[k] = "holding" => \A n \in before'[k] : pc'[n] = "posted"
    BY <1>1, <1>2, <1>4 DEF IInv, OnItsWay
  <2>3. ASSUME NEW g \in Readers
        PROVE  /\ pc'[g] \in {"receiving", "getting"} => client'[g] \in Clients
               /\ pc'[g] # "ok" => read'[g] = <<>>
    BY <1>2 DEF IInv, TypeOK, OnItsWay, Acknowledge, Reqs
  <2>4. QED
    BY <2>1, <2>2, <2>3 DEF OnItsWay
<1>10. QED
  BY <1>2, <1>3, <1>6, <1>7, <1>8, <1>9

LEMMA SendAppendKeeps == ASSUME IInv, NEW m \in Messages, SendAppend(m) PROVE IInv'
<1> DEFINE q == messageQueue
<1>1. /\ pc[m] = "addressed" /\ Acknowledge(m, "sent")
      /\ messageQueue' = [q EXCEPT ![peer[m]] = Append(@, m)] /\ incomingQueue' = incomingQueue
  BY DEF SendAppend, Goto, Acknowledge
<1>2. q \in [Clients -> Seq(Messages)] /\ Plane(q, "sent", pc, peer, before, read)
  BY DEF IInv, TypeOK
<1>3. /\ peer[m] \in Clients
      /\ Plane([q EXCEPT ![peer[m]] = Append(@, m)], "sent", pc', peer', before', read')
      /\ ReadOnce' /\ ReadDone' /\ ReadByAddressee' /\ NoOvertaking' /\ OnItsWay'
  BY <1>1, <1>2, PushKeeps
<1>4. TypeOK'
  <2>1. messageQueue' \in [Clients -> Seq(Messages)]
    BY <1>1, <1>2, <1>3
  <2>2. QED
    BY <1>1, <2>1 DEF IInv, TypeOK, Acknowledge, Steps
<1>5. Plane(incomingQueue, "posted", pc', peer', before', read')
  <2>1. /\ incomingQueue \in [Clients -> Seq(Messages)]
        /\ Plane(incomingQueue, "posted", pc, peer, before, read)
        /\ \A k \in Messages : before[k] \subseteq Messages
        /\ \A k \in Messages : pc'[k] = "posted" <=> pc[k] = "posted"
        /\ peer' = peer /\ before' = before /\ read' = read
    BY <1>1 DEF IInv, TypeOK, Acknowledge, Reqs
  <2>2. QED
    BY <2>1, PlaneKeep
<1>6. QED
  BY <1>1, <1>3, <1>4, <1>5 DEF IInv

LEMMA PostPushKeeps == ASSUME IInv, NEW m \in Messages, PostPush(m) PROVE IInv'
<1> DEFINE q == incomingQueue
<1>1. /\ pc[m] = "holding" /\ Acknowledge(m, "posted") /\ Len(q[peer[m]]) < QueueCap
      /\ incomingQueue' = [q EXCEPT ![peer[m]] = Append(@, m)] /\ messageQueue' = messageQueue
  BY DEF PostPush, Goto, Acknowledge
<1>2. q \in [Clients -> Seq(Messages)] /\ Plane(q, "posted", pc, peer, before, read)
  BY DEF IInv, TypeOK
<1>3. /\ peer[m] \in Clients
      /\ Plane([q EXCEPT ![peer[m]] = Append(@, m)], "posted", pc', peer', before', read')
      /\ ReadOnce' /\ ReadDone' /\ ReadByAddressee' /\ NoOvertaking' /\ OnItsWay'
  BY <1>1, <1>2, PushKeeps
<1>4. TypeOK'
  <2>1. incomingQueue' \in [Clients -> Seq(Messages)]
    BY <1>1, <1>2, <1>3
  <2>2. \A c \in Clients : Len(incomingQueue'[c]) <= QueueCap
    <3>1. ASSUME NEW c \in Clients, c # peer[m] PROVE Len(incomingQueue'[c]) <= QueueCap
      BY <1>1, <1>2, <3>1 DEF IInv, TypeOK
    <3>2. Len(incomingQueue'[peer[m]]) = Len(q[peer[m]]) + 1 /\ Len(q[peer[m]]) \in Nat
      BY <1>1, <1>2, <1>3
    <3>3. QED
      BY <1>1, <1>3, <3>1, <3>2, MessageAssumption
  <2>3. QED
    BY <1>1, <2>1, <2>2 DEF IInv, TypeOK, Acknowledge, Steps
<1>5. Plane(messageQueue, "sent", pc', peer', before', read')
  <2>1. /\ messageQueue \in [Clients -> Seq(Messages)]
        /\ Plane(messageQueue, "sent", pc, peer, before, read)
        /\ \A k \in Messages : before[k] \subseteq Messages
        /\ \A k \in Messages : pc'[k] = "sent" <=> pc[k] = "sent"
        /\ peer' = peer /\ before' = before /\ read' = read
    BY <1>1 DEF IInv, TypeOK, Acknowledge, Reqs
  <2>2. QED
    BY <2>1, PlaneKeep
<1>6. QED
  BY <1>1, <1>3, <1>4, <1>5 DEF IInv

\* A reader takes the first n messages of its queue in q and ends.
Taking(g, q, n, pre, rest) ==
    /\ Split(q[client[g]], n, pre, rest) /\ n <= Len(q[client[g]])
    /\ pc[g] \in {"receiving", "getting"} /\ pc' = [pc EXCEPT ![g] = "ok"]
    /\ read' = [read EXCEPT ![g] = pre]
    /\ UNCHANGED <<client, peer, before>>

LEMMA TakeKeeps ==
    ASSUME IInv, NEW g \in Readers,
           NEW d \in {"sent", "posted"}, NEW q \in [Clients -> Seq(Messages)],
           Plane(q, d, pc, peer, before, read),
           NEW n \in Nat, NEW pre, NEW rest, Taking(g, q, n, pre, rest)
    PROVE  /\ Plane([q EXCEPT ![client[g]] = rest], d, pc', peer', before', read')
           /\ \A m \in Messages : pc'[m] = pc[m] /\ (pc[m] # d => (IsRead(m, read') <=> IsRead(m, read)))
           /\ ReadOnce' /\ ReadDone' /\ ReadByAddressee' /\ NoOvertaking' /\ OnItsWay'
<1> DEFINE c == client[g]
<1> USE MessageAssumption
<1>1. c \in Clients /\ read[g] = <<>> /\ q[c] \in Seq(Messages) /\ Len(q[c]) \in Nat
  BY DEF IInv, OnItsWay, Taking
<1>2. /\ \A r \in Permits \cup Messages : pc'[r] = pc[r]
      /\ \A h \in Readers : h # g => pc'[h] = pc[h]
      /\ pc'[g] = "ok"
      /\ client' = client /\ peer' = peer /\ before' = before
  BY DEF IInv, TypeOK, Reqs, Taking
<1>3. /\ read'[g] = pre /\ Len(pre) = n
      /\ \A h \in Readers : h # g => read'[h] = read[h]
  BY DEF IInv, TypeOK, Split, Taking
<1>4. \A k \in Messages : before[k] \subseteq Messages
  BY DEF IInv, TypeOK, Reqs
<1>5. \A m : IsRead(m, read') <=> IsRead(m, read) \/ \E i \in 1..n : q[c][i] = m
  <2>1. ASSUME NEW m, IsRead(m, read') PROVE IsRead(m, read) \/ \E i \in 1..n : q[c][i] = m
    <3>1. PICK h \in Readers : \E j \in 1..Len(read'[h]) : read'[h][j] = m
      BY <2>1 DEF IsRead
    <3>2. CASE h = g
      BY <1>3, <3>1, <3>2 DEF Split, Taking
    <3>3. CASE h # g
      BY <1>3, <3>1, <3>3 DEF IsRead
    <3>4. QED
      BY <3>2, <3>3
  <2>2. ASSUME NEW m, IsRead(m, read) PROVE IsRead(m, read')
    <3>1. PICK h \in Readers : \E j \in 1..Len(read[h]) : read[h][j] = m
      BY <2>2 DEF IsRead
    <3>2. h # g
      BY <1>1, <3>1
    <3>3. QED
      BY <1>3, <3>1, <3>2 DEF IsRead
  <2>3. ASSUME NEW m, NEW i \in 1..n, q[c][i] = m PROVE IsRead(m, read')
    <3>1. i \in 1..Len(read'[g]) /\ read'[g][i] = m
      BY <1>3, <2>3 DEF Split, Taking
    <3>2. QED
      BY <3>1 DEF IsRead
  <2>4. QED
    BY <2>1, <2>2, <2>3
<1>6. \A i \in 1..n : /\ i \in 1..Len(q[c]) /\ pre[i] = q[c][i] /\ pre[i] \in Messages
                      /\ pc[pre[i]] = d /\ peer[pre[i]] = c /\ ~IsRead(pre[i], read)
  <2> SUFFICES ASSUME NEW i \in 1..n
               PROVE  /\ i \in 1..Len(q[c]) /\ pre[i] = q[c][i] /\ pre[i] \in Messages
                      /\ pc[pre[i]] = d /\ peer[pre[i]] = c /\ ~IsRead(pre[i], read)
    OBVIOUS
  <2>2. i \in 1..Len(q[c]) /\ pre[i] = q[c][i]
    BY <1>1 DEF Split, Taking
  <2>3. q[c][i] \in Messages
    BY <1>1, <2>2, ElementOfSeq
  <2>4. QED
    BY <1>1, <2>2, <2>3 DEF Plane, Marked, Unread
<1>7. Plane([q EXCEPT ![c] = rest], d, pc', peer', before', read')
  <2>1. Plane(q, d, pc', peer', before', read)
    <3>1. \A m \in Messages : pc'[m] = d <=> pc[m] = d
      BY <1>2
    <3>2. \A m \in Messages : pc[m] = d => peer'[m] = peer[m] /\ before'[m] = before[m]
      BY <1>2
    <3>3. QED
      BY <1>4, <3>1, <3>2, PlaneKeep
  <2>2. n \in Nat /\ Split(q[c], n, pre, rest) /\ n <= Len(q[c])
    BY DEF Taking
  <2>3. QED
    BY <1>1, <1>5, <2>1, <2>2, PlaneTake
<1>8. \A m \in Messages : pc'[m] = pc[m] /\ (pc[m] # d => (IsRead(m, read') <=> IsRead(m, read)))
  BY <1>2, <1>5, <1>6
<1>9. ReadOnce'
  <2> SUFFICES ASSUME NEW h1 \in Readers, NEW h2 \in Readers,
                      NEW i \in 1..Len(read'[h1]), NEW j \in 1..Len(read'[h2]),
                      read'[h1][i] = read'[h2][j]
               PROVE  h1 = h2 /\ i = j
    BY DEF ReadOnce
  <2>1. CASE h1 = g /\ h2 = g
    <3>1. i \in 1..n /\ j \in 1..n /\ pre[i] = pre[j]
      BY <1>3, <2>1
    <3>2. i \in 1..Len(q[c]) /\ j \in 1..Len(q[c]) /\ q[c][i] = q[c][j]
      BY <1>6, <3>1
    <3>3. QED
      BY <1>1, <2>1, <3>2 DEF Plane, Distinct
  <2>2. CASE h1 = g /\ h2 # g
    <3>1. i \in 1..n /\ j \in 1..Len(read[h2]) /\ pre[i] = read[h2][j]
      BY <1>3, <2>2
    <3>2. QED
      BY <1>6, <3>1 DEF IsRead
  <2>3. CASE h1 # g /\ h2 = g
    <3>1. j \in 1..n /\ i \in 1..Len(read[h1]) /\ pre[j] = read[h1][i]
      BY <1>3, <2>3
    <3>2. QED
      BY <1>6, <3>1 DEF IsRead
  <2>4. CASE h1 # g /\ h2 # g
    BY <1>3, <2>4 DEF IInv, ReadOnce
  <2>5. QED
    BY <2>1, <2>2, <2>3, <2>4
<1>10. ASSUME NEW i \in 1..n, NEW m \in before[pre[i]]
       PROVE  /\ m \in Messages /\ pc[m] = d
              /\ peer[m] = c => IsRead(m, read) \/ \E j \in 1..n : j < i /\ pre[j] = m
  <2>1. i \in 1..Len(q[c]) /\ pre[i] = q[c][i] /\ m \in Messages
    BY <1>4, <1>6
  <2>2. /\ pc[m] = d
        /\ peer[m] = c => IsRead(m, read) \/ \E j \in 1..Len(q[c]) : j < i /\ q[c][j] = m
    BY <1>1, <2>1 DEF Plane, Ordered
  <2>3. ASSUME NEW j \in 1..Len(q[c]), j < i PROVE j \in 1..n /\ pre[j] = q[c][j]
    <3>1. j \in 1..n
      BY <2>3
    <3>2. QED
      BY <1>6, <3>1
  <2>4. QED
    BY <2>1, <2>2, <2>3
<1>11. ReadDone'
  <2> SUFFICES ASSUME NEW h \in Readers, NEW i \in 1..Len(read'[h]),
                      NEW m \in {read'[h][i]} \cup before[read'[h][i]]
               PROVE  pc'[m] \in {"sent", "posted"}
    BY <1>2 DEF ReadDone
  <2>1. CASE h = g
    BY <1>2, <1>3, <1>6, <1>10, <2>1
  <2>2. CASE h # g
    <3>1. read'[h] = read[h] /\ read[h][i] \in Messages
      BY <1>3, <2>2, ReadMessages DEF IInv
    <3>2. m \in Messages /\ pc[m] \in {"sent", "posted"}
      BY <1>4, <3>1 DEF IInv, ReadDone
    <3>3. QED
      BY <1>2, <3>2
  <2>3. QED
    BY <2>1, <2>2
<1>12. ReadByAddressee'
  <2> SUFFICES ASSUME NEW h \in Readers, NEW i \in 1..Len(read'[h])
               PROVE  peer[read'[h][i]] = client[h]
    BY <1>2 DEF ReadByAddressee
  <2>1. CASE h = g
    BY <1>3, <1>6, <2>1
  <2>2. CASE h # g
    BY <1>3, <2>2 DEF IInv, ReadByAddressee
  <2>3. QED
    BY <2>1, <2>2
<1>13. NoOvertaking'
  <2> SUFFICES ASSUME NEW h \in Readers, NEW i \in 1..Len(read'[h]),
                      NEW m \in before[read'[h][i]], peer[m] = client[h]
               PROVE  \/ \E j \in 1..(i - 1) : read'[h][j] = m
                      \/ \E k \in Readers \ {h} : \E j \in 1..Len(read'[k]) : read'[k][j] = m
    BY <1>2 DEF NoOvertaking
  <2>1. CASE h = g
    <3>1. i \in 1..n /\ m \in before[pre[i]] /\ read'[h] = pre
      BY <1>3, <2>1
    <3>2. IsRead(m, read) \/ \E j \in 1..n : j < i /\ pre[j] = m
      BY <1>10, <2>1, <3>1
    <3>3. ASSUME IsRead(m, read)
          PROVE  \E k \in Readers \ {h} : \E j \in 1..Len(read'[k]) : read'[k][j] = m
      <4>1. PICK k \in Readers : \E j \in 1..Len(read[k]) : read[k][j] = m
        BY <3>3 DEF IsRead
      <4>2. k # g
        BY <1>1, <4>1
      <4>3. QED
        BY <1>3, <2>1, <4>1, <4>2
    <3>4. ASSUME NEW j \in 1..n, j < i, pre[j] = m PROVE j \in 1..(i - 1) /\ read'[h][j] = m
      BY <3>1, <3>4
    <3>5. QED
      BY <3>2, <3>3, <3>4
  <2>2. CASE h # g
    <3>1. read'[h] = read[h]
      BY <1>3, <2>2
    <3>2. \/ \E j \in 1..(i - 1) : read[h][j] = m
          \/ \E k \in Readers \ {h} : \E j \in 1..Len(read[k]) : read[k][j] = m
      BY <3>1 DEF IInv, NoOvertaking
    <3>3. ASSUME NEW k \in Readers \ {h}, NEW j \in 1..Len(read[k]), read[k][j] = m
          PROVE  j \in 1..Len(read'[k]) /\ read'[k][j] = m
      <4>1. k # g
        BY <1>1, <3>3
      <4>2. QED
        BY <1>3, <3>3, <4>1
    <3>4. QED
      BY <3>1, <3>2, <3>3
  <2>3. QED
    BY <2>1, <2>2
<1>14. OnItsWay'
  <2>1. ASSUME NEW k \in Permits \cup Messages,
               pc'[k] \in {"found", "permitted", "addressed", "holding", "sent", "posted"}
        PROVE  client'[k] \in Clients /\ peer'[k] \in Clients
    BY <1>2, <2>1 DEF IInv, OnItsWay
  <2>2. ASSUME NEW k \in Messages
        PROVE  /\ pc'[k] \in {"found", "permitted", "addressed"} => \A m \in before'[k] : pc'[m] = "sent"
               /\ pc'[k] = "holding" => \A m \in before'[k] : pc'[m] = "posted"
    BY <1>2, <1>4 DEF IInv, OnItsWay
  <2>3. ASSUME NEW h \in Readers
        PROVE  /\ pc'[h] \in {"receiving", "getting"} => client'[h] \in Clients
               /\ pc'[h] # "ok" => read'[h] = <<>>
    BY <1>2, <1>3 DEF IInv, OnItsWay
  <2>4. QED
    BY <2>1, <2>2, <2>3 DEF OnItsWay
<1>15. QED
  BY <1>7, <1>8, <1>9, <1>11, <1>12, <1>13, <1>14

\* The plane that nothing is taken from.
LEMMA PlaneUntaken ==
    ASSUME IInv, NEW d, NEW e, d # e, NEW o \in [Clients -> Seq(Messages)],
           Plane(o, e, pc, peer, before, read),
           \A m \in Messages : pc'[m] = pc[m] /\ (pc[m] # d => (IsRead(m, read') <=> IsRead(m, read))),
           UNCHANGED <<peer, before>>
    PROVE  Plane(o, e, pc', peer', before', read')
<1>1. \A m \in Messages : before[m] \subseteq Messages
  BY DEF IInv, TypeOK, Reqs
<1>2. \A m \in Messages : pc'[m] = e <=> pc[m] = e
  OBVIOUS
<1>3. \A m \in Messages : pc[m] = e => peer'[m] = peer[m] /\ before'[m] = before[m]
  OBVIOUS
<1>4. \A m \in Messages : pc[m] = e => (IsRead(m, read') <=> IsRead(m, read))
  OBVIOUS
<1>5. QED
  BY <1>1, <1>2, <1>3, <1>4, PlaneKeep

LEMMA ReceiveTakeKeeps == ASSUME IInv, NEW g \in Readers, ReceiveTake(g) PROVE IInv'
<1> USE MessageAssumption
<1> DEFINE c == client[g]
           q == messageQueue
           n == Count(q[c])
           pre == SubSeq(q[c], 1, n)
           rest == SubSeq(q[c], n + 1, Len(q[c]))
<1>1. c \in Clients /\ q \in [Clients -> Seq(Messages)] /\ q[c] \in Seq(Messages) /\ Len(q[c]) \in Nat
  BY DEF IInv, TypeOK, OnItsWay, ReceiveTake, Goto
<1>2. n \in Nat /\ n <= Len(q[c]) /\ n <= MaxMessages
  BY <1>1 DEF Count
<1>3. pre \in Seq(Messages) /\ Len(pre) = n /\ \A i \in 1..n : pre[i] = q[c][i]
  BY <1>1, <1>2, SubSeqProperties
<1>4. /\ rest \in Seq(Messages) /\ Len(rest) = Len(q[c]) - n
      /\ \A i \in 1..Len(rest) : rest[i] = q[c][i + n]
  <2>1. n + 1 \in 1..(Len(q[c]) + 1) /\ Len(q[c]) \in n..Len(q[c])
    BY <1>1, <1>2
  <2>2. \A i, j \in Int : i + 1 + j - 1 = i + j
    OBVIOUS
  <2>3. QED
    BY <1>1, <1>2, <2>1, SubSeqProperties
<1>5. Taking(g, q, n, pre, rest)
  BY <1>1, <1>2, <1>3, <1>4 DEF Taking, Split, ReceiveTake, Goto
<1>6. messageQueue' = [q EXCEPT ![c] = rest] /\ incomingQueue' = incomingQueue
  BY <1>1 DEF ReceiveTake
<1>7. /\ Plane([q EXCEPT ![c] = rest], "sent", pc', peer', before', read')
      /\ \A m \in Messages : pc'[m] = pc[m] /\ (pc[m] # "sent" => (IsRead(m, read') <=> IsRead(m, read)))
      /\ ReadOnce' /\ ReadDone' /\ ReadByAddressee' /\ NoOvertaking' /\ OnItsWay'
  <2>1. Plane(q, "sent", pc, peer, before, read)
    BY DEF IInv
  <2>2. QED
    BY <1>1, <1>2, <1>5, <2>1, TakeKeeps
<1>8. Plane(incomingQueue, "posted", pc', peer', before', read')
  <2>1. incomingQueue \in [Clients -> Seq(Messages)] /\ Plane(incomingQueue, "posted", pc, peer, before, read)
    BY DEF IInv, TypeOK
  <2>2. UNCHANGED <<peer, before>>
    BY DEF ReceiveTake
  <2>3. QED
    BY <1>7, <2>1, <2>2, PlaneUntaken
<1>9. TypeOK'
  <2>1. messageQueue' \in [Clients -> Seq(Messages)]
    BY <1>1, <1>4, <1>6
  <2>2. read' \in [Readers -> Seq(Messages)] /\ \A h \in Readers : Len(read'[h]) <= MaxMessages
    BY <1>2, <1>3, <1>5 DEF IInv, TypeOK, Taking
  <2>3. QED
    BY <1>6, <2>1, <2>2 DEF IInv, TypeOK, ReceiveTake, Goto, Steps, Reqs
<1>10. QED
  BY <1>6, <1>7, <1>8, <1>9 DEF IInv

LEMMA GetTakeKeeps == ASSUME IInv, NEW g \in Readers, GetTake(g) PROVE IInv'
<1> USE MessageAssumption
<1> DEFINE c == client[g]
           q == incomingQueue
           pre == <<Head(q[c])>>
           rest == Tail(q[c])
<1>1. c \in Clients /\ q \in [Clients -> Seq(Messages)] /\ q[c] \in Seq(Messages) /\ Len(q[c]) \in Nat
  BY DEF IInv, TypeOK, OnItsWay, GetTake, Goto
<1>2. q[c] # <<>> /\ 1 <= Len(q[c]) /\ Len(q[c]) <= QueueCap
  BY <1>1 DEF IInv, TypeOK, GetTake
<1>3. pre \in Seq(Messages) /\ Len(pre) = 1 /\ pre[1] = q[c][1]
  BY <1>1, <1>2, HeadTailProperties
<1>4. /\ rest \in Seq(Messages) /\ Len(rest) = Len(q[c]) - 1
      /\ \A i \in 1..Len(rest) : rest[i] = q[c][i + 1]
  BY <1>1, <1>2, HeadTailProperties
<1>5. Taking(g, q, 1, pre, rest)
  BY <1>1, <1>2, <1>3, <1>4 DEF Taking, Split, GetTake, Goto
<1>6. incomingQueue' = [q EXCEPT ![c] = rest] /\ messageQueue' = messageQueue
  BY <1>1 DEF GetTake
<1>7. /\ Plane([q EXCEPT ![c] = rest], "posted", pc', peer', before', read')
      /\ \A m \in Messages : pc'[m] = pc[m] /\ (pc[m] # "posted" => (IsRead(m, read') <=> IsRead(m, read)))
      /\ ReadOnce' /\ ReadDone' /\ ReadByAddressee' /\ NoOvertaking' /\ OnItsWay'
  <2>1. Plane(q, "posted", pc, peer, before, read)
    BY DEF IInv
  <2>2. QED
    BY <1>1, <1>5, <2>1, TakeKeeps
<1>8. Plane(messageQueue, "sent", pc', peer', before', read')
  <2>1. messageQueue \in [Clients -> Seq(Messages)] /\ Plane(messageQueue, "sent", pc, peer, before, read)
    BY DEF IInv, TypeOK
  <2>2. UNCHANGED <<peer, before>>
    BY DEF GetTake
  <2>3. QED
    BY <1>7, <2>1, <2>2, PlaneUntaken
<1>9. TypeOK'
  <2>1. incomingQueue' \in [Clients -> Seq(Messages)] /\ \A b \in Clients : Len(incomingQueue'[b]) <= QueueCap
    BY <1>1, <1>2, <1>4, <1>6 DEF IInv, TypeOK
  <2>2. read' \in [Readers -> Seq(Messages)] /\ \A h \in Readers : Len(read'[h]) <= MaxMessages
    BY <1>3, <1>5 DEF IInv, TypeOK, Taking
  <2>3. QED
    BY <1>6, <2>1, <2>2 DEF IInv, TypeOK, GetTake, Goto, Steps, Reqs
<1>10. QED
  BY <1>6, <1>7, <1>8, <1>9 DEF IInv

---------------------------------------------------------------------------
(* Every step *)

LEMMA ArriveKeeps == ASSUME IInv, Arrive PROVE IInv'
<1> USE MessageAssumption
<1>1. \A r \in Reqs : client[r] \in Clients \cup {Nil} /\ peer[r] \in Clients \cup {Nil} /\ before[r] \in SUBSET Messages
  BY DEF IInv, TypeOK
<1>2. permissions \in [Clients -> SUBSET Clients] /\ stored \subseteq Clients
  BY DEF IInv, TypeOK
<1>3. \A g \in Readers : pc[g] = "new" => read[g] = <<>>
  BY DEF IInv, OnItsWay
<1>4. ASSUME NEW r \in Permits, NEW c \in Clients, NEW p \in Clients, PermitFind(r, c, p) PROVE IInv'
  <2>1. Quiet(r, "found", c, p, before[r])
    BY <1>4 DEF PermitFind, Find, Goto, Quiet, IInv, TypeOK, Reqs
  <2>2. Cautious(r, "found", c, p, before[r])
    BY DEF Cautious
  <2>3. r \in Reqs /\ "found" \in Steps /\ stored' = stored /\ permissions' = permissions
    BY <1>4 DEF PermitFind, Find, Reqs, Steps
  <2>4. QED
    BY <1>1, <1>2, <2>1, <2>2, <2>3, QuietKeeps
<1>5. ASSUME NEW m \in Messages, NEW c \in Clients, NEW p \in Clients, SendFind(m, c, p) PROVE IInv'
  <2> DEFINE be == {n \in Messages : pc[n] = "sent"}
  <2>1. Quiet(m, "found", c, p, be)
    BY <1>5 DEF SendFind, Find, Goto, Quiet
  <2>2. Cautious(m, "found", c, p, be)
    BY <1>5 DEF Cautious, SendFind, Find, Goto
  <2>3. m \in Reqs /\ "found" \in Steps /\ stored' = stored /\ permissions' = permissions /\ be \in SUBSET Messages
    BY <1>5 DEF SendFind, Find, Reqs, Steps
  <2>4. QED
    BY <1>2, <2>1, <2>2, <2>3, QuietKeeps
<1>6. ASSUME NEW m \in Messages, NEW c \in Clients, NEW p \in Clients, PostFind(m, c, p) PROVE IInv'
  <2> DEFINE be == {n \in Messages : pc[n] = "posted"}
  <2>1. Quiet(m, "holding", c, p, be)
    BY <1>6 DEF PostFind, Goto, Quiet
  <2>2. Cautious(m, "holding", c, p, be)
    BY <1>6 DEF Cautious, PostFind, Goto
  <2>3. m \in Reqs /\ "holding" \in Steps /\ stored' = stored /\ permissions' = permissions /\ be \in SUBSET Messages
    BY <1>6 DEF PostFind, Reqs, Steps
  <2>4. QED
    BY <1>2, <2>1, <2>2, <2>3, QuietKeeps
<1>7. ASSUME NEW g \in Readers, NEW c \in Clients, NEW to \in {"receiving", "getting"}, ReadFind(g, c, to)
      PROVE  IInv'
  <2>1. Quiet(g, to, c, peer[g], before[g])
    BY <1>7 DEF ReadFind, Goto, Quiet, IInv, TypeOK, Reqs
  <2>2. Cautious(g, to, c, peer[g], before[g])
    BY <1>3, <1>7 DEF Cautious, ReadFind, Goto
  <2>3. g \in Reqs /\ to \in Steps /\ stored' = stored /\ permissions' = permissions
    BY <1>7 DEF ReadFind, Reqs, Steps
  <2>4. QED
    BY <1>1, <1>2, <2>1, <2>2, <2>3, QuietKeeps
<1>8. ASSUME NEW r \in Reqs, End(r, "new", "refused") PROVE IInv'
  <2>1. Quiet(r, "refused", Nil, Nil, {})
    BY <1>8 DEF End, Goto, Quiet
  <2>2. Cautious(r, "refused", Nil, Nil, {})
    BY <1>3, <1>8 DEF Cautious, End, Goto
  <2>3. "refused" \in Steps /\ stored' = stored /\ permissions' = permissions
    BY <1>8 DEF End, Steps
  <2>4. QED
    BY <1>2, <2>1, <2>2, <2>3, QuietKeeps
<1>9. QED
  BY <1>4, <1>5, <1>6, <1>7, <1>8 DEF Arrive, GetForbidden, Refused, Reqs

\* The steps of a send before its message is kept, and the refusals of both planes.
LEMMA SendStepKeeps ==
    ASSUME IInv, NEW m \in Messages,
           SendPermitted(m) \/ SendForbidden(m) \/ SendFindPeer(m) \/ SendNoPeer(m) \/ PostFull(m)
    PROVE  IInv'
<1> USE MessageAssumption
<1>1. m \in Reqs /\ client[m] \in Clients \cup {Nil} /\ peer[m] \in Clients \cup {Nil} /\ before[m] \in SUBSET Messages
  BY DEF IInv, TypeOK, Reqs
<1>2. permissions \in [Clients -> SUBSET Clients] /\ stored \subseteq Clients
  BY DEF IInv, TypeOK
<1>3. ASSUME NEW from \in {"found", "permitted", "holding"}, End(m, from, "refused") PROVE IInv'
  <2>1. Quiet(m, "refused", Nil, Nil, {})
    BY <1>3 DEF End, Goto, Quiet
  <2>2. Cautious(m, "refused", Nil, Nil, {})
    BY <1>3 DEF Cautious, End, Goto
  <2>3. "refused" \in Steps /\ stored' = stored /\ permissions' = permissions
    BY <1>3 DEF End, Steps
  <2>4. QED
    BY <1>1, <1>2, <2>1, <2>2, <2>3, QuietKeeps
<1>4. ASSUME NEW from \in {"found", "permitted"}, NEW to \in {"permitted", "addressed"}, Goto(m, from, to),
             UNCHANGED <<stored, permissions, queues, client, peer, read, before>>
      PROVE  IInv'
  <2>1. Quiet(m, to, client[m], peer[m], before[m])
    BY <1>4 DEF Goto, Quiet, IInv, TypeOK, Reqs
  <2>2. Cautious(m, to, client[m], peer[m], before[m])
    BY <1>4 DEF Cautious, Goto, IInv, OnItsWay
  <2>3. to \in Steps /\ stored' = stored /\ permissions' = permissions
    BY <1>4 DEF Steps
  <2>4. QED
    BY <1>1, <1>2, <2>1, <2>2, <2>3, QuietKeeps
<1>5. QED
  BY <1>3, <1>4 DEF SendPermitted, SendForbidden, SendFindPeer, SendNoPeer, Refused, PostFull

LEMMA ReadTimeoutKeeps == ASSUME IInv, NEW g \in Readers, ReadTimeout(g) PROVE IInv'
<1> USE MessageAssumption
<1>1. Quiet(g, "ok", Nil, Nil, {})
  BY DEF ReadTimeout, End, Goto, Quiet
<1>2. Cautious(g, "ok", Nil, Nil, {})
  BY DEF Cautious, ReadTimeout, End, Goto, IInv, OnItsWay
<1>3. /\ g \in Reqs /\ "ok" \in Steps
      /\ stored' \subseteq Clients /\ permissions' \in [Clients -> SUBSET Clients]
  BY DEF ReadTimeout, End, Reqs, Steps, IInv, TypeOK
<1>4. QED
  BY <1>1, <1>2, <1>3, QuietKeeps

LEMMA PermitKeeps == ASSUME IInv, NEW r \in Permits, Permit(r) PROVE IInv'
<1> USE MessageAssumption
<1>1. r \in Reqs /\ client[r] \in Clients /\ peer[r] \in Clients /\ before[r] \in SUBSET Messages
  BY DEF IInv, TypeOK, OnItsWay, Permit, Goto, Reqs
<1>2. Quiet(r, "ok", client[r], peer[r], before[r])
  BY DEF Permit, Goto, Quiet, IInv, TypeOK, Reqs
<1>3. Cautious(r, "ok", client[r], peer[r], before[r])
  BY DEF Cautious
<1>4. "ok" \in Steps /\ stored' \subseteq Clients /\ permissions' \in [Clients -> SUBSET Clients]
  BY <1>1 DEF Permit, Steps, IInv, TypeOK
<1>5. QED
  BY <1>1, <1>2, <1>3, <1>4, QuietKeeps

\* Deallocate, expiry and refresh, and steps of none of the variables.
LEMMA OthersKeep ==
    ASSUME IInv, stored' \subseteq Clients,
           UNCHANGED <<permissions, queues, pc, client, peer, read, before>>
    PROVE  IInv'
<1>1. /\ permissions' = permissions /\ messageQueue' = messageQueue /\ incomingQueue' = incomingQueue
      /\ pc' = pc /\ client' = client /\ peer' = peer /\ read' = read /\ before' = before
  BY DEF queues
<1>2. TypeOK'
  BY <1>1 DEF IInv, TypeOK
<1>3. ReadOnce' /\ ReadDone' /\ ReadByAddressee' /\ NoOvertaking' /\ OnItsWay'
  BY <1>1 DEF IInv, ReadOnce, ReadDone, ReadByAddressee, NoOvertaking, OnItsWay
<1>4. QED
  BY <1>1, <1>2, <1>3 DEF IInv

LEMMA StepKeeps == ASSUME IInv, [Next]_vars PROVE IInv'
<1>1. CASE Arrive
  BY <1>1, ArriveKeeps
<1>2. ASSUME NEW r \in Permits, Permit(r) PROVE IInv'
  BY <1>2, PermitKeeps
<1>3. ASSUME NEW m \in Messages, SendStep(m) \/ PostPush(m) \/ PostFull(m) PROVE IInv'
  BY <1>3, SendStepKeeps, SendAppendKeeps, PostPushKeeps DEF SendStep
<1>4. ASSUME NEW g \in Readers, ReceiveTake(g) \/ GetTake(g) \/ ReadTimeout(g) PROVE IInv'
  BY <1>4, ReceiveTakeKeeps, GetTakeKeeps, ReadTimeoutKeeps
<1>5. ASSUME NEW c \in Clients, Leave(c) \/ Return(c) PROVE IInv'
  <2>1. stored' \subseteq Clients
    BY <1>5 DEF Leave, Return, IInv, TypeOK
  <2>2. UNCHANGED <<permissions, queues, pc, client, peer, read, before>>
    BY <1>5 DEF Leave, Return
  <2>3. QED
    BY <2>1, <2>2, OthersKeep
<1>6. CASE UNCHANGED vars
  <2>1. stored' \subseteq Clients
    BY <1>6 DEF vars, IInv, TypeOK
  <2>2. UNCHANGED <<permissions, queues, pc, client, peer, read, before>>
    BY <1>6 DEF vars
  <2>3. QED
    BY <2>1, <2>2, OthersKeep
<1>7. QED
  BY <1>1, <1>2, <1>3, <1>4, <1>5, <1>6 DEF Next

---------------------------------------------------------------------------
(* What it comes to *)

LEMMA SpotIs ==
    ASSUME NEW kind, NEW seqs, NEW m, NEW p
    PROVE  p \in Spots(kind, seqs, m) <=>
             \E c \in DOMAIN seqs : \E i \in 1..Len(seqs[c]) : seqs[c][i] = m /\ p = <<kind, c, i>>
BY DEF Spots

LEMMA PlaceIs ==
    ASSUME TypeOK, NEW m, NEW p
    PROVE  p \in Places(m) <=>
             \/ \E c \in Clients : \E i \in 1..Len(messageQueue[c]) :
                    messageQueue[c][i] = m /\ p = <<"message", c, i>>
             \/ \E c \in Clients : \E i \in 1..Len(incomingQueue[c]) :
                    incomingQueue[c][i] = m /\ p = <<"relay", c, i>>
             \/ \E g \in Readers : \E i \in 1..Len(read[g]) :
                    read[g][i] = m /\ p = <<"answer", g, i>>
<1>1. DOMAIN messageQueue = Clients /\ DOMAIN incomingQueue = Clients /\ DOMAIN read = Readers
  BY DEF TypeOK
<1>2. p \in Places(m) <=> \/ p \in Spots("message", messageQueue, m)
                         \/ p \in Spots("relay", incomingQueue, m)
                         \/ p \in Spots("answer", read, m)
  BY DEF Places
<1>3. QED
  BY <1>1, <1>2, SpotIs

LEMMA OnePlace == IInv => HeldOnce
<1> SUFFICES ASSUME IInv, NEW m \in Messages
             PROVE  IF pc[m] \in {"sent", "posted"} THEN \E p \in Places(m) : Places(m) = {p}
                    ELSE Places(m) = {}
  BY DEF HeldOnce
<1>1. /\ \A c \in Clients : \A i \in 1..Len(messageQueue[c]) :
           messageQueue[c][i] = m => pc[m] = "sent" /\ peer[m] = c /\ ~IsRead(m, read)
      /\ \A c \in Clients : \A i \in 1..Len(incomingQueue[c]) :
           incomingQueue[c][i] = m => pc[m] = "posted" /\ peer[m] = c /\ ~IsRead(m, read)
      /\ \A g \in Readers : \A i \in 1..Len(read[g]) : read[g][i] = m => pc[m] \in {"sent", "posted"}
  BY DEF IInv, Plane, Marked, Unread, ReadDone
<1>2. CASE pc[m] \notin {"sent", "posted"}
  <2>1. ASSUME NEW p \in Places(m) PROVE FALSE
    BY <1>1, <1>2, PlaceIs DEF IInv
  <2>2. QED
    BY <1>2, <2>1
<1>3. CASE IsRead(m, read) /\ pc[m] \in {"sent", "posted"}
  <2>a. PICK g \in Readers : \E i \in 1..Len(read[g]) : read[g][i] = m
    BY <1>3 DEF IsRead
  <2>1. PICK i \in 1..Len(read[g]) : read[g][i] = m
    BY <2>a
  <2>2. <<"answer", g, i>> \in Places(m)
    BY <2>1, PlaceIs DEF IInv
  <2>3. ASSUME NEW p \in Places(m) PROVE p = <<"answer", g, i>>
    <3>a. PICK h \in Readers : \E j \in 1..Len(read[h]) : read[h][j] = m /\ p = <<"answer", h, j>>
      BY <1>1, <1>3, PlaceIs DEF IInv
    <3>1. PICK j \in 1..Len(read[h]) : read[h][j] = m /\ p = <<"answer", h, j>>
      BY <3>a
    <3>2. h = g /\ j = i
      BY <2>1, <3>1 DEF IInv, ReadOnce
    <3>3. QED
      BY <3>1, <3>2
  <2>4. QED
    BY <1>3, <2>2, <2>3
<1>4. CASE ~IsRead(m, read) /\ pc[m] = "sent"
  <2>1. PICK i \in 1..Len(messageQueue[peer[m]]) : messageQueue[peer[m]][i] = m
    BY <1>4 DEF IInv, Plane, Complete
  <2>2. peer[m] \in Clients
    BY <1>4 DEF IInv, Plane, Complete
  <2>3. <<"message", peer[m], i>> \in Places(m)
    BY <2>1, <2>2, PlaceIs DEF IInv
  <2>4. ASSUME NEW p \in Places(m) PROVE p = <<"message", peer[m], i>>
    <3>a. PICK c \in Clients : \E j \in 1..Len(messageQueue[c]) : messageQueue[c][j] = m /\ p = <<"message", c, j>>
      BY <1>1, <1>4, PlaceIs DEF IInv, IsRead
    <3>1. PICK j \in 1..Len(messageQueue[c]) : messageQueue[c][j] = m /\ p = <<"message", c, j>>
      BY <3>a
    <3>2. c = peer[m]
      BY <1>1, <3>1
    <3>3. j = i
      BY <2>1, <2>2, <3>1, <3>2 DEF IInv, Plane, Distinct
    <3>4. QED
      BY <3>1, <3>2, <3>3
  <2>5. QED
    BY <1>4, <2>3, <2>4
<1>5. CASE ~IsRead(m, read) /\ pc[m] = "posted"
  <2>1. PICK i \in 1..Len(incomingQueue[peer[m]]) : incomingQueue[peer[m]][i] = m
    BY <1>5 DEF IInv, Plane, Complete
  <2>2. peer[m] \in Clients
    BY <1>5 DEF IInv, Plane, Complete
  <2>3. <<"relay", peer[m], i>> \in Places(m)
    BY <2>1, <2>2, PlaceIs DEF IInv
  <2>4. ASSUME NEW p \in Places(m) PROVE p = <<"relay", peer[m], i>>
    <3>a. PICK c \in Clients : \E j \in 1..Len(incomingQueue[c]) : incomingQueue[c][j] = m /\ p = <<"relay", c, j>>
      BY <1>1, <1>5, PlaceIs DEF IInv, IsRead
    <3>1. PICK j \in 1..Len(incomingQueue[c]) : incomingQueue[c][j] = m /\ p = <<"relay", c, j>>
      BY <3>a
    <3>2. c = peer[m]
      BY <1>1, <3>1
    <3>3. j = i
      BY <2>1, <2>2, <3>1, <3>2 DEF IInv, Plane, Distinct
    <3>4. QED
      BY <3>1, <3>2, <3>3
  <2>5. QED
    BY <1>5, <2>3, <2>4
<1>6. QED
  BY <1>2, <1>3, <1>4, <1>5

\* The inductive invariant holds: every queue of both planes holds messages for its
\* owner that were acknowledged and are unread, once and in order (handler.go:221-236,
\* 171-177; relay.go:68-75, 97-107).
THEOREM Invariance == Spec => []IInv
<1>1. Init => IInv
  BY InitKeeps
<1>2. IInv /\ [Next]_vars => IInv'
  BY StepKeeps
<1>3. QED
  BY <1>1, <1>2, PTL DEF Spec

\* Every variable has its type: the channel is never over its capacity and no answer
\* over its limit.
THEOREM TypeCorrect == Spec => []TypeOK
<1>1. IInv => TypeOK
  BY DEF IInv
<1>2. QED
  BY <1>1, Invariance, PTL

\* A message whose sender was told that it was sent is in one place, a queue or an
\* answer; any other is in none.
THEOREM HeldOnceAlways == Spec => []HeldOnce
BY OnePlace, Invariance, PTL

\* Nobody reads another client's messages.
THEOREM ReadByAddresseeAlways == Spec => []ReadByAddressee
<1>1. IInv => ReadByAddressee
  BY DEF IInv
<1>2. QED
  BY <1>1, Invariance, PTL

\* Messages of a plane are read in the order in which they were acknowledged.
THEOREM NoOvertakingAlways == Spec => []NoOvertaking
<1>1. IInv => NoOvertaking
  BY DEF IInv
<1>2. QED
  BY <1>1, Invariance, PTL

====
