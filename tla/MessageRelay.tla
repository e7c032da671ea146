---- MODULE MessageRelay ----
(***************************************************************************)
(* The two message planes of the hturnal relay.  /turn/send and            *)
(* /turn/receive (hturnal/turn/handler.go) keep messages in a slice of the *)
(* receiver's allocation, under its lock; /relay/{port} (relay.go) passes  *)
(* data through a bounded channel of it.                                   *)
(*                                                                         *)
(* A message is identified with the request that sends it.  Each client    *)
(* has one allocation, found by relay ID, client ID or relay port alike    *)
(* (TurnAllocation); deallocate, cleanup and refresh take it out of the    *)
(* table and put it back while handlers hold on to it.                     *)
(***************************************************************************)
EXTENDS Integers, Sequences

CONSTANTS Clients,      \* the clients, each with an allocation
          Permits,      \* POST /turn/permission requests
          Messages,     \* POST /turn/send and POST /relay/{port} requests
          Readers,      \* GET /turn/receive and GET /relay/{port} requests
          Nil,
          MaxMessages,  \* messages that one receive returns at most (10 by default)
          QueueCap      \* capacity of IncomingQueue (65535 in the code)

Reqs == Permits \cup Messages \cup Readers

ASSUME MessageAssumption ==
    /\ Nil \notin Clients
    /\ Permits \cap (Messages \cup Readers) = {} /\ Messages \cap Readers = {}
    /\ MaxMessages \in Nat \ {0}
    /\ QueueCap \in Nat \ {0}

VARIABLES
    stored,         \* the clients whose allocation the table holds
    permissions,    \* Permissions of each allocation
    messageQueue,   \* MessageQueues[ClientID] of each allocation
    incomingQueue,  \* IncomingQueue of each allocation
    pc,             \* where each request stands
    client,         \* the client that makes the request
    peer,           \* the client a message or a permission is for
    read,           \* what a reader is answered with
    before          \* history: the messages acknowledged before this one was sent

queues == <<messageQueue, incomingQueue>>
vars == <<stored, permissions, queues, pc, client, peer, read, before>>

Steps == {"new", "refused", "found", "ok",
          "permitted", "addressed", "sent",     \* /turn/send
          "holding", "posted",                  \* POST /relay/{port}
          "receiving", "getting"}               \* the two long polls

\* Every variable has its type.
TypeOK ==
    /\ stored \subseteq Clients
    /\ permissions \in [Clients -> SUBSET Clients]
    /\ messageQueue \in [Clients -> Seq(Messages)]
    /\ incomingQueue \in [Clients -> Seq(Messages)]
    /\ \A c \in Clients : Len(incomingQueue[c]) <= QueueCap
    /\ pc \in [Reqs -> Steps]
    /\ client \in [Reqs -> Clients \cup {Nil}]
    /\ peer \in [Reqs -> Clients \cup {Nil}]
    /\ read \in [Readers -> Seq(Messages)]
    /\ \A g \in Readers : Len(read[g]) <= MaxMessages
    /\ before \in [Reqs -> SUBSET Messages]

\* Every client has allocated; nothing has been sent.
Init ==
    /\ stored = Clients
    /\ permissions = [c \in Clients |-> {}]
    /\ messageQueue = [c \in Clients |-> <<>>]
    /\ incomingQueue = [c \in Clients |-> <<>>]
    /\ pc = [r \in Reqs |-> "new"]
    /\ client = [r \in Reqs |-> Nil]
    /\ peer = [r \in Reqs |-> Nil]
    /\ read = [g \in Readers |-> <<>>]
    /\ before = [r \in Reqs |-> {}]

Goto(r, from, to) == pc[r] = from /\ pc' = [pc EXCEPT ![r] = to]

\* A request ends with an error, or with nothing read: what it looked up is forgotten.
End(r, from, to) ==
    /\ Goto(r, from, to)
    /\ client' = [client EXCEPT ![r] = Nil]
    /\ peer' = [peer EXCEPT ![r] = Nil]
    /\ before' = [before EXCEPT ![r] = {}]
    /\ UNCHANGED <<stored, permissions, queues, read>>

\* The lookup of an allocation fails.
Refused(r, c, from) == c \notin stored /\ End(r, from, "refused")
----
(* permission and send *)

\* The first lookup of a request that names its own relay and a peer.
Find(r, c, p) ==
    /\ Goto(r, "new", "found")
    /\ c \in stored
    /\ client' = [client EXCEPT ![r] = c]
    /\ peer' = [peer EXCEPT ![r] = p]
    /\ UNCHANGED <<stored, permissions, queues, read>>

PermitFind(r, c, p) == Find(r, c, p) /\ UNCHANGED before

Permit(r) ==
    /\ r \in Permits
    /\ Goto(r, "found", "ok")
    /\ permissions' = [permissions EXCEPT ![client[r]] = @ \cup {peer[r]}]
    /\ UNCHANGED <<stored, queues, client, peer, read, before>>

SendFind(m, c, p) ==
    /\ Find(m, c, p)
    /\ before' = [before EXCEPT ![m] = {n \in Messages : pc[n] = "sent"}]

SendPermitted(m) ==
    /\ m \in Messages
    /\ Goto(m, "found", "permitted")
    /\ peer[m] \in permissions[client[m]]
    /\ UNCHANGED <<stored, permissions, queues, client, peer, read, before>>

SendForbidden(m) ==
    /\ m \in Messages
    /\ pc[m] = "found"
    /\ peer[m] \notin permissions[client[m]]
    /\ End(m, "found", "refused")

SendFindPeer(m) ==
    /\ Goto(m, "permitted", "addressed")
    /\ peer[m] \in stored
    /\ UNCHANGED <<stored, permissions, queues, client, peer, read, before>>

SendNoPeer(m) == Refused(m, peer[m], "permitted")

\* Mutant: the message goes to the sender's own allocation.
SendToSelf(m) ==
    /\ Goto(m, "addressed", "sent")
    /\ messageQueue' = [messageQueue EXCEPT ![client[m]] = Append(@, m)]
    /\ UNCHANGED <<stored, permissions, incomingQueue, client, peer, read, before>>

\* The peer's allocation is held, whether or not it is still in the table.
SendAppend(m) ==
    /\ Goto(m, "addressed", "sent")
    /\ messageQueue' = [messageQueue EXCEPT ![peer[m]] = Append(@, m)]
    /\ UNCHANGED <<stored, permissions, incomingQueue, client, peer, read, before>>
----
(* POST /relay/{port}: only the peer is looked up, and no permission is asked for *)

PostFind(m, c, p) ==
    /\ Goto(m, "new", "holding")
    /\ p \in stored
    /\ client' = [client EXCEPT ![m] = c]
    /\ peer' = [peer EXCEPT ![m] = p]
    /\ before' = [before EXCEPT ![m] = {n \in Messages : pc[n] = "posted"}]
    /\ UNCHANGED <<stored, permissions, queues, read>>

\* Mutant: the channel takes what it has no room for.
PostUnbounded(m) ==
    /\ Goto(m, "holding", "posted")
    /\ incomingQueue' = [incomingQueue EXCEPT ![peer[m]] = Append(@, m)]
    /\ UNCHANGED <<stored, permissions, messageQueue, client, peer, read, before>>

PostPush(m) ==
    /\ Goto(m, "holding", "posted")
    /\ Len(incomingQueue[peer[m]]) < QueueCap
    /\ incomingQueue' = [incomingQueue EXCEPT ![peer[m]] = Append(@, m)]
    /\ UNCHANGED <<stored, permissions, messageQueue, client, peer, read, before>>

PostFull(m) ==
    /\ pc[m] = "holding"
    /\ Len(incomingQueue[peer[m]]) = QueueCap
    /\ End(m, "holding", "refused")
----
(* the two long polls *)

\* A client reads its own allocation: GET /relay/{port} compares the client ID.
ReadFind(g, c, to) ==
    /\ Goto(g, "new", to)
    /\ c \in stored
    /\ client' = [client EXCEPT ![g] = c]
    /\ UNCHANGED <<stored, permissions, queues, peer, read, before>>

GetForbidden(g, c, owner) ==
    /\ owner \in stored
    /\ owner # c
    /\ End(g, "new", "refused")

\* How many messages a receive takes.
Count(queue) == IF MaxMessages > Len(queue) THEN Len(queue) ELSE MaxMessages

\* Mutants: the last of them stays in the queue; the latest are taken first.
ReceiveLeavesLast(g) ==
    LET queue == messageQueue[client[g]]
        n == Count(queue)
    IN  /\ Goto(g, "receiving", "ok")
        /\ n > 0
        /\ read' = [read EXCEPT ![g] = SubSeq(queue, 1, n)]
        /\ messageQueue' = [messageQueue EXCEPT ![client[g]] = SubSeq(@, n, Len(@))]
        /\ UNCHANGED <<stored, permissions, incomingQueue, client, peer, before>>
ReceiveLatest(g) ==
    LET queue == messageQueue[client[g]]
        n == Len(queue) - Count(queue)
    IN  /\ Goto(g, "receiving", "ok")
        /\ queue # <<>>
        /\ read' = [read EXCEPT ![g] = SubSeq(queue, n + 1, Len(queue))]
        /\ messageQueue' = [messageQueue EXCEPT ![client[g]] = SubSeq(@, 1, n)]
        /\ UNCHANGED <<stored, permissions, incomingQueue, client, peer, before>>

ReceiveTake(g) ==
    LET queue == messageQueue[client[g]]
        n == Count(queue)
    IN  /\ Goto(g, "receiving", "ok")
        /\ n > 0
        /\ read' = [read EXCEPT ![g] = SubSeq(queue, 1, n)]
        /\ messageQueue' = [messageQueue EXCEPT ![client[g]] = SubSeq(@, n + 1, Len(@))]
        /\ UNCHANGED <<stored, permissions, incomingQueue, client, peer, before>>

GetTake(g) ==
    LET queue == incomingQueue[client[g]]
    IN  /\ Goto(g, "getting", "ok")
        /\ queue # <<>>
        /\ read' = [read EXCEPT ![g] = <<Head(queue)>>]
        /\ incomingQueue' = [incomingQueue EXCEPT ![client[g]] = Tail(@)]
        /\ UNCHANGED <<stored, permissions, messageQueue, client, peer, before>>

\* The deadline passes: an empty answer.
ReadTimeout(g) == End(g, "receiving", "ok") \/ End(g, "getting", "ok")
----
\* Deallocate and expiry; a refresh that had found the allocation before.
Leave(c) ==
    /\ c \in stored
    /\ stored' = stored \ {c}
    /\ UNCHANGED <<permissions, queues, pc, client, peer, read, before>>

Return(c) ==
    /\ c \notin stored
    /\ stored' = stored \cup {c}
    /\ UNCHANGED <<permissions, queues, pc, client, peer, read, before>>

Arrive ==
    \/ \E r \in Permits, c, p \in Clients : PermitFind(r, c, p)
    \/ \E m \in Messages, c, p \in Clients : SendFind(m, c, p) \/ PostFind(m, c, p)
    \/ \E g \in Readers, c \in Clients : ReadFind(g, c, "receiving") \/ ReadFind(g, c, "getting")
    \/ \E g \in Readers, c, owner \in Clients : GetForbidden(g, c, owner)
    \/ \E r \in Reqs, c \in Clients : Refused(r, c, "new")

SendStep(m) ==
    \/ SendPermitted(m) \/ SendForbidden(m)
    \/ SendFindPeer(m) \/ SendNoPeer(m)
    \/ SendAppend(m)

Next ==
    \/ Arrive
    \/ \E r \in Permits : Permit(r)
    \/ \E m \in Messages : SendStep(m) \/ PostPush(m) \/ PostFull(m)
    \/ \E g \in Readers : ReceiveTake(g) \/ GetTake(g) \/ ReadTimeout(g)
    \/ \E c \in Clients : Leave(c) \/ Return(c)

Spec == Init /\ [][Next]_vars
----
\* Where a message stands, in the queues of the clients and in the answers.
Spots(kind, seqs, m) ==
    UNION {{<<kind, owner, i>> : i \in {k \in 1..Len(seqs[owner]) : seqs[owner][k] = m}} :
             owner \in DOMAIN seqs}
Places(m) ==
    Spots("message", messageQueue, m) \cup Spots("relay", incomingQueue, m)
        \cup Spots("answer", read, m)

\* A message is in one place if its sender was told that it was sent, and nowhere
\* otherwise: no 403, 404 or 503 leaves anything behind, two receives that poll the
\* same queue do not share a message, and none falls between two answers
\* (handler.go:221-236, 171-177; relay.go:68-75).
HeldOnce ==
    \A m \in Messages :
        IF pc[m] \in {"sent", "posted"} THEN \E p \in Places(m) : Places(m) = {p}
        ELSE Places(m) = {}

\* A message is read by its addressee only, under whatever key it was looked up.
ReadByAddressee ==
    \A g \in Readers : \A i \in 1..Len(read[g]) : peer[read[g][i]] = client[g]

\* Messages are read in the order they were acknowledged: when one has been read,
\* every message for the same client on the same plane that was acknowledged before
\* this one was sent has been read too, and earlier in the same answer if there.
NoOvertaking ==
    \A g \in Readers : \A i \in 1..Len(read[g]) :
        \A m \in before[read[g][i]] :
            peer[m] = client[g] =>
                \/ \E j \in 1..(i - 1) : read[g][j] = m
                \/ \E h \in Readers \ {g} : \E j \in 1..Len(read[h]) : read[h][j] = m
====
