---- MODULE TcpRelay ----
(***************************************************************************)
(* The TCP-like connections of the hturnal relay: the dial, accept and     *)
(* relay handlers of hturnal/turn/tcp_handler.go, and the part of the      *)
(* cleanup goroutine of storage/memory.go that closes connections.         *)
(*                                                                         *)
(* A connection is one object that the allocations of both clients point   *)
(* to from their Connections maps; it is identified with the dial request  *)
(* that creates it.  A datum is identified with the POST that carries it.  *)
(* Each client has one allocation, which its requests name by relay ID, by *)
(* client ID or by relay port: TurnAllocation shows that each of the three *)
(* names one allocation only.  A handler is a sequence of steps, one for   *)
(* each stretch of code under one lock or one channel operation.           *)
(***************************************************************************)
EXTENDS Integers, Sequences

CONSTANTS Clients,      \* the clients, each with an allocation
          Dials,        \* dial requests, and the connections they create
          Accepts,      \* accept requests
          Posts,        \* POST /relay/tcp requests, and the data they carry
          Gets,         \* GET /relay/tcp requests
          Nil,
          ChanCap,      \* capacity of a connection's channels (65535 in the code)
          PendingCap,   \* capacity of PendingConnections (1024 in the code)
          MaxAttempts   \* sends a POST tries (10 in the code)

Reqs == Dials \cup Accepts \cup Posts \cup Gets

ASSUME TcpAssumption ==
    /\ Nil \notin Clients \cup Reqs
    /\ Dials \cap (Accepts \cup Posts \cup Gets) = {}
    /\ Accepts \cap (Posts \cup Gets) = {} /\ Posts \cap Gets = {}
    /\ ChanCap \in Nat \ {0}
    /\ PendingCap \in Nat \ {0}
    /\ MaxAttempts \in Nat \ {0}

VARIABLES
    stored,         \* the clients whose allocation the table holds
    permissions,    \* Permissions of each allocation
    connections,    \* Connections of each allocation
    pending,        \* PendingConnections of each allocation
    active,         \* connections whose LastActivity has been set
    idle,           \* connections unused, since dialled, for 5 minutes
    closed,         \* connections whose Closed flag is set
    closes,         \* how often the channels of a connection were closed
    outgoing,       \* Outgoing of each connection: data from owner to peer
    incoming,       \* Incoming of each connection: data from peer to owner
    pc,             \* where each handler stands
    client,         \* the client that made the request
    peer,           \* PeerID of each connection
    conn,           \* the connection an accept returns, a POST or GET found
    attempts,       \* sends a POST has tried in vain
    got,            \* the datum a GET took from a channel
    sweeping, todo  \* cleanup holds the table's lock; allocations it has yet to visit

tables == <<stored, permissions, connections, pending>>
states == <<active, idle, closed, closes>>
channels == <<outgoing, incoming>>
requests == <<client, peer, conn, attempts, got>>
sweep == <<sweeping, todo>>
vars == <<tables, states, channels, pc, requests, sweep>>

Steps == {"new", "refused",
          "caller", "got", "inPeer", "inBoth", "established", "timedOut",   \* dial
          "polling", "accepted",                                    \* accept
          "sending", "sent", "ok", "tooMany", "panicked",           \* POST
          "taken", "data", "gone", "noContent"}                     \* GET

\* Every variable has its type.
TypeOK ==
    /\ stored \subseteq Clients
    /\ permissions \in [Clients -> SUBSET Clients]
    /\ connections \in [Clients -> SUBSET Dials]
    /\ pending \in [Clients -> Seq(Dials)]
    /\ active \subseteq Dials /\ idle \subseteq Dials /\ closed \subseteq Dials
    /\ closes \in [Dials -> Nat]
    /\ outgoing \in [Dials -> Seq(Posts)] /\ incoming \in [Dials -> Seq(Posts)]
    /\ \A c \in Clients : Len(pending[c]) <= PendingCap
    /\ \A d \in Dials : Len(outgoing[d]) <= ChanCap /\ Len(incoming[d]) <= ChanCap
    /\ pc \in [Reqs -> Steps]
    /\ client \in [Reqs -> Clients \cup {Nil}]
    /\ peer \in [Dials -> Clients \cup {Nil}]
    /\ conn \in [Reqs -> Dials \cup {Nil}]
    /\ attempts \in [Posts -> 0..MaxAttempts]
    /\ got \in [Gets -> Posts \cup {Nil}]
    /\ sweeping \in BOOLEAN
    /\ todo \subseteq stored

\* Every client has allocated; nothing has been dialled.
Init ==
    /\ stored = Clients
    /\ permissions = [c \in Clients |-> {}]
    /\ connections = [c \in Clients |-> {}]
    /\ pending = [c \in Clients |-> <<>>]
    /\ active = {} /\ idle = {} /\ closed = {}
    /\ closes = [d \in Dials |-> 0]
    /\ outgoing = [d \in Dials |-> <<>>] /\ incoming = [d \in Dials |-> <<>>]
    /\ pc = [r \in Reqs |-> "new"]
    /\ client = [r \in Reqs |-> Nil]
    /\ peer = [d \in Dials |-> Nil]
    /\ conn = [r \in Reqs |-> Nil]
    /\ attempts = [q \in Posts |-> 0]
    /\ got = [g \in Gets |-> Nil]
    /\ sweeping = FALSE /\ todo = {}

Goto(r, from, to) == pc[r] = from /\ pc' = [pc EXCEPT ![r] = to]

\* The lookups of the table wait while cleanup holds its lock.
Found(c) == ~sweeping /\ c \in stored

Missing(c) == ~sweeping /\ c \notin stored
----
(* dial: two lookups, the permission, and the connection is stored in both   *)
(* allocations and only then offered to the peer.                            *)

DialGetCaller(d, c, p) ==
    /\ Goto(d, "new", "caller")
    /\ Found(c)
    /\ client' = [client EXCEPT ![d] = c]
    /\ peer' = [peer EXCEPT ![d] = p]
    /\ UNCHANGED <<tables, states, channels, conn, attempts, got, sweep>>

DialNoCaller(d, c) ==
    /\ Goto(d, "new", "refused")
    /\ Missing(c)
    /\ UNCHANGED <<tables, states, channels, requests, sweep>>

\* A caller that has no permission for the peer is given it; nothing here reads it.
DialGetPeer(d) ==
    /\ Goto(d, "caller", "got")
    /\ Found(peer[d])
    /\ permissions' = [permissions EXCEPT ![client[d]] = @ \cup {peer[d]}]
    /\ UNCHANGED <<stored, connections, pending, states, channels, requests, sweep>>

DialNoPeer(d) ==
    /\ Goto(d, "caller", "refused")
    /\ Missing(peer[d])
    /\ UNCHANGED <<tables, states, channels, requests, sweep>>

DialIntoPeer(d) ==
    /\ Goto(d, "got", "inPeer")
    /\ connections' = [connections EXCEPT ![peer[d]] = @ \cup {d}]
    /\ UNCHANGED <<stored, permissions, pending, states, channels, requests, sweep>>

\* Mutant: the caller's own table is forgotten.
DialNotIntoCaller(d) ==
    /\ Goto(d, "inPeer", "inBoth")
    /\ UNCHANGED <<tables, states, channels, requests, sweep>>

DialIntoCaller(d) ==
    /\ Goto(d, "inPeer", "inBoth")
    /\ connections' = [connections EXCEPT ![client[d]] = @ \cup {d}]
    /\ UNCHANGED <<stored, permissions, pending, states, channels, requests, sweep>>

DialPush(d) ==
    /\ Goto(d, "inBoth", "established")
    /\ Len(pending[peer[d]]) < PendingCap
    /\ pending' = [pending EXCEPT ![peer[d]] = Append(@, d)]
    /\ UNCHANGED <<stored, permissions, connections, states, channels, requests, sweep>>

\* Two seconds with a full queue: 503, and the connection stays in both tables.
DialTimeout(d) ==
    /\ Goto(d, "inBoth", "timedOut")
    /\ Len(pending[peer[d]]) = PendingCap
    /\ UNCHANGED <<tables, states, channels, requests, sweep>>
----
(* accept: a long poll of the allocation's queue of offers *)

AcceptGet(a, c) ==
    /\ Goto(a, "new", "polling")
    /\ Found(c)
    /\ client' = [client EXCEPT ![a] = c]
    /\ UNCHANGED <<tables, states, channels, peer, conn, attempts, got, sweep>>

AcceptRefused(a, c) ==
    /\ Goto(a, "new", "refused")
    /\ Missing(c)
    /\ UNCHANGED <<tables, states, channels, requests, sweep>>

\* Mutant: an offer is looked at and left in the queue.
AcceptPeeks(a) ==
    /\ a \in Accepts
    /\ Goto(a, "polling", "accepted")
    /\ pending[client[a]] # <<>>
    /\ conn' = [conn EXCEPT ![a] = Head(pending[client[a]])]
    /\ UNCHANGED <<tables, states, channels, client, peer, attempts, got, sweep>>

AcceptTake(a) ==
    /\ a \in Accepts
    /\ Goto(a, "polling", "accepted")
    /\ pending[client[a]] # <<>>
    /\ conn' = [conn EXCEPT ![a] = Head(pending[client[a]])]
    /\ pending' = [pending EXCEPT ![client[a]] = Tail(@)]
    /\ UNCHANGED <<stored, permissions, connections, states, channels,
                   client, peer, attempts, got, sweep>>

AcceptTimeout(a) ==
    /\ a \in Accepts
    /\ Goto(a, "polling", "refused")
    /\ UNCHANGED <<tables, states, channels, requests, sweep>>
----
(* relay: the clients of hturnal/client use the port of their own allocation *)

\* The lookup that precedes both methods: the allocation, then its table.
RelayGet(r, c, d, to) ==
    /\ Goto(r, "new", to)
    /\ Found(c)
    /\ d \in connections[c]
    /\ client' = [client EXCEPT ![r] = c]
    /\ conn' = [conn EXCEPT ![r] = d]
    /\ UNCHANGED <<tables, states, channels, peer, attempts, got, sweep>>

RelayRefused(r, c, d) ==
    /\ Goto(r, "new", "refused")
    /\ Missing(c) \/ (Found(c) /\ d \notin connections[c])
    /\ UNCHANGED <<tables, states, channels, requests, sweep>>

IsOwner(r) == client[r] = client[conn[r]]

\* The channel a POST writes to, and the one a GET reads from.
Target(q) == IF IsOwner(q) THEN outgoing[conn[q]] ELSE incoming[conn[q]]

Source(g) == IF IsOwner(g) THEN incoming[conn[g]] ELSE outgoing[conn[g]]

PostPanic(q) ==
    /\ Goto(q, "sending", "panicked")
    /\ closes[conn[q]] > 0
    /\ UNCHANGED <<tables, states, channels, requests, sweep>>

\* Mutant: both sides write to the channel of the owner.
EnqueueOutgoing(q) ==
    outgoing' = [outgoing EXCEPT ![conn[q]] = Append(@, q)] /\ UNCHANGED incoming

\* Mutant: what is written last is read first.
EnqueueInFront(q) ==
    IF IsOwner(q)
    THEN outgoing' = [outgoing EXCEPT ![conn[q]] = <<q>> \o @] /\ UNCHANGED incoming
    ELSE incoming' = [incoming EXCEPT ![conn[q]] = <<q>> \o @] /\ UNCHANGED outgoing

Enqueue(q) ==
    IF IsOwner(q)
    THEN outgoing' = [outgoing EXCEPT ![conn[q]] = Append(@, q)] /\ UNCHANGED incoming
    ELSE incoming' = [incoming EXCEPT ![conn[q]] = Append(@, q)] /\ UNCHANGED outgoing

PostSend(q) ==
    /\ Goto(q, "sending", "sent")
    /\ closes[conn[q]] = 0
    /\ Len(Target(q)) < ChanCap
    /\ Enqueue(q)
    /\ UNCHANGED <<tables, states, requests, sweep>>

\* Mutants: a POST sends once more after its last attempt; it never gives up.
PostLastTry(q) ==
    /\ pc[q] = "sending"
    /\ closes[conn[q]] = 0
    /\ attempts' = [attempts EXCEPT ![q] = @ + 1]
    /\ IF attempts'[q] = MaxAttempts
       THEN pc' = [pc EXCEPT ![q] = "tooMany"] /\ Enqueue(q)
       ELSE Len(Target(q)) = ChanCap /\ UNCHANGED <<pc, channels>>
    /\ UNCHANGED <<tables, states, client, peer, conn, got, sweep>>
PostForever(q) ==
    /\ pc[q] = "sending"
    /\ closes[conn[q]] = 0
    /\ Len(Target(q)) = ChanCap
    /\ UNCHANGED vars

\* The channel is full: back off and try again, or answer 429.
PostBackoff(q) ==
    /\ pc[q] = "sending"
    /\ closes[conn[q]] = 0
    /\ Len(Target(q)) = ChanCap
    /\ attempts' = [attempts EXCEPT ![q] = @ + 1]
    /\ pc' = IF attempts'[q] = MaxAttempts THEN [pc EXCEPT ![q] = "tooMany"] ELSE pc
    /\ UNCHANGED <<tables, states, channels, client, peer, conn, got, sweep>>

\* LastActivity = now.
Touch(d) ==
    /\ active' = active \cup {d}
    /\ idle' = idle \ {d}
    /\ UNCHANGED <<closed, closes>>

PostTouch(q) ==
    /\ Goto(q, "sent", "ok")
    /\ Touch(conn[q])
    /\ UNCHANGED <<tables, channels, requests, sweep>>

Dequeue(g) ==
    IF IsOwner(g)
    THEN incoming' = [incoming EXCEPT ![conn[g]] = Tail(@)] /\ UNCHANGED outgoing
    ELSE outgoing' = [outgoing EXCEPT ![conn[g]] = Tail(@)] /\ UNCHANGED incoming

\* Mutant: the read takes the datum and leaves it to the next one as well.
GetPeeks(g) ==
    /\ g \in Gets
    /\ Goto(g, "polling", "taken")
    /\ Source(g) # <<>>
    /\ got' = [got EXCEPT ![g] = Head(Source(g))]
    /\ UNCHANGED <<tables, states, channels, client, peer, conn, attempts, sweep>>

\* A closed channel still yields what was written before.
GetTake(g) ==
    /\ g \in Gets
    /\ Goto(g, "polling", "taken")
    /\ Source(g) # <<>>
    /\ got' = [got EXCEPT ![g] = Head(Source(g))]
    /\ Dequeue(g)
    /\ UNCHANGED <<tables, states, client, peer, conn, attempts, sweep>>

GetTouch(g) ==
    /\ Goto(g, "taken", "data")
    /\ Touch(conn[g])
    /\ UNCHANGED <<tables, channels, requests, sweep>>

\* Mutant: a closed channel ends the read at once, whatever it still holds.
GetGoneEarly(g) ==
    /\ g \in Gets
    /\ Goto(g, "polling", "gone")
    /\ closes[conn[g]] > 0
    /\ UNCHANGED <<tables, states, channels, requests, sweep>>

GetGone(g) ==
    /\ g \in Gets
    /\ Goto(g, "polling", "gone")
    /\ closes[conn[g]] > 0
    /\ Source(g) = <<>>
    /\ UNCHANGED <<tables, states, channels, requests, sweep>>

GetTimeout(g) ==
    /\ g \in Gets
    /\ Goto(g, "polling", "noContent")
    /\ UNCHANGED <<tables, states, channels, requests, sweep>>

----
(* cleanup, and what happens to allocations: the goroutine holds the table's *)
(* lock for the sweep and each allocation's lock while it visits it.         *)

\* A tick: what has expired leaves the table, the rest is visited in any order.
SweepStart(expired) ==
    /\ ~sweeping
    /\ stored' = stored \ expired
    /\ sweeping' = TRUE
    /\ todo' = stored'
    /\ UNCHANGED <<permissions, connections, pending, states, channels, pc, requests>>

\* A connection never used has the zero time for its LastActivity.
TimedOut(d) == d \notin active \/ d \in idle

\* Connections are closed, and leave the allocation that is being visited.
Close(c, dead) ==
    /\ c \in todo
    /\ todo' = todo \ {c}
    /\ closed' = closed \cup dead
    /\ closes' = [d \in Dials |-> IF d \in dead THEN closes[d] + 1 ELSE closes[d]]
    /\ connections' = [connections EXCEPT ![c] = @ \ dead]
    /\ UNCHANGED <<stored, permissions, pending, active, idle, channels, pc, requests, sweeping>>

\* Mutants: the Closed flag is not looked at; only what was used can time out.
SweepAgain(c) == Close(c, {d \in connections[c] : TimedOut(d) \/ d \in closed})
SweepUsed(c) == Close(c, {d \in connections[c] \cap active : d \in idle /\ d \notin closed})

\* What is timed out and not closed yet is closed; what was closed while another
\* allocation was visited is neither closed again nor removed.
SweepVisit(c) == Close(c, {d \in connections[c] : TimedOut(d) /\ d \notin closed})

SweepEnd ==
    /\ sweeping /\ todo = {}
    /\ sweeping' = FALSE
    /\ UNCHANGED <<tables, states, channels, pc, requests, todo>>

\* A deallocate takes an allocation from the table and touches nothing else;
\* a refresh that found it before puts it back.
Leave(c) ==
    /\ Found(c)
    /\ stored' = stored \ {c}
    /\ UNCHANGED <<permissions, connections, pending, states, channels, pc, requests, sweep>>

Return(c) ==
    /\ Missing(c)
    /\ stored' = stored \cup {c}
    /\ UNCHANGED <<permissions, connections, pending, states, channels, pc, requests, sweep>>

Used(d) == pc[d] \in {"established", "timedOut"}

\* Five minutes pass in which connection d is not used.
FiveMinutes(d) ==
    /\ Used(d)
    /\ d \notin idle
    /\ \A r \in Posts \cup Gets : conn[r] = d => pc[r] \notin {"sending", "sent", "taken"}
    /\ idle' = idle \cup {d}
    /\ UNCHANGED <<tables, active, closed, closes, channels, pc, requests, sweep>>
----
Arrive ==
    \/ \E d \in Dials, c, p \in Clients : DialGetCaller(d, c, p) \/ DialNoCaller(d, c)
    \/ \E a \in Accepts, c \in Clients : AcceptGet(a, c) \/ AcceptRefused(a, c)
    \/ \E q \in Posts, c \in Clients, d \in Dials :
            RelayGet(q, c, d, "sending") \/ RelayRefused(q, c, d)
    \/ \E g \in Gets, c \in Clients, d \in Dials :
            RelayGet(g, c, d, "polling") \/ RelayRefused(g, c, d)

DialLookup(d) == DialGetPeer(d) \/ DialNoPeer(d)

DialStep(d) ==
    DialIntoPeer(d) \/ DialIntoCaller(d) \/ DialPush(d) \/ DialTimeout(d)

AcceptStep(a) == AcceptTake(a) \/ AcceptTimeout(a)

PostStep(q) == PostPanic(q) \/ PostSend(q) \/ PostBackoff(q) \/ PostTouch(q)

GetStep(g) == GetTake(g) \/ GetTouch(g) \/ GetGone(g) \/ GetTimeout(g)

Sweep ==
    \/ \E expired \in SUBSET stored : SweepStart(expired)
    \/ \E c \in Clients : SweepVisit(c)
    \/ SweepEnd

Next ==
    \/ Arrive
    \/ \E d \in Dials : DialLookup(d) \/ DialStep(d) \/ FiveMinutes(d)
    \/ \E a \in Accepts : AcceptStep(a)
    \/ \E q \in Posts : PostStep(q)
    \/ \E g \in Gets : GetStep(g)
    \/ Sweep
    \/ \E c \in Clients : Leave(c) \/ Return(c)

\* A handler once begun runs on, its timers fire, and the ticker of the cleanup
\* goroutine keeps ticking; a reader that waits for the table's RWMutex is let in
\* when its writer leaves; clients need not do anything.
Fairness ==
    /\ \A d \in Dials : SF_vars(DialLookup(d)) /\ WF_vars(DialStep(d))
    /\ \A a \in Accepts : WF_vars(AcceptStep(a))
    /\ \A q \in Posts : WF_vars(PostStep(q))
    /\ \A g \in Gets : WF_vars(GetStep(g))
    /\ WF_vars(Sweep)

Spec == Init /\ [][Next]_vars /\ Fairness
----
(* Safety *)

\* Where an element stands in the queues of the owners.
Spots(kind, queues, e) ==
    UNION {{<<kind, owner, i>> : i \in {k \in 1..Len(queues[owner]) : queues[owner][k] = e}} :
             owner \in DOMAIN queues}

\* Where a datum is: in a channel, or with the GET that took it.
Places(q) ==
    Spots("outgoing", outgoing, q) \cup Spots("incoming", incoming, q)
        \cup {<<"got", g>> : g \in {h \in Gets : got[h] = q}}

\* A datum is in one place if its POST was answered 200 (or will be), and nowhere
\* if it was answered anything else: no 429 after all attempts (tcp_handler.go:
\* 402-458) is delivered, no 200 lost between the channels, none read twice.
SentExactlyOnce ==
    \A q \in Posts :
        IF pc[q] \in {"sent", "ok"} THEN \E p \in Places(q) : Places(q) = {p}
        ELSE Places(q) = {}

\* What a client reads was written to the same connection by the other end, who
\* is told apart by the client ID alone (tcp_handler.go:353, 385-389, 470-474).
ReadFromOtherEnd ==
    \A g \in Gets :
        got[g] # Nil => /\ conn[got[g]] = conn[g]
                        /\ LET d == conn[g] IN
                           IF client[g] = client[d]
                           THEN client[got[g]] # client[d]
                           ELSE client[got[g]] = client[d]

\* Where a connection is offered: in a queue, or with the accept that took it.
Offers(d) ==
    Spots("pending", pending, d) \cup {<<"accepted", a>> : a \in {b \in Accepts : conn[b] = d}}

\* An offer is made once, to the peer: a connection the dial reported as established
\* is in the queue of its peer or was handed to one accept of that client; one
\* reported as failed (503) is never accepted (tcp_handler.go:184-193, 243).
OfferedOnce ==
    /\ \A d \in Dials :
         IF pc[d] = "established" THEN \E p \in Offers(d) : Offers(d) = {p} ELSE Offers(d) = {}
    /\ \A c \in Clients : \A i \in 1..Len(pending[c]) : peer[pending[c][i]] = c
    /\ \A a \in Accepts : conn[a] # Nil => client[a] = peer[conn[a]]

\* A connection that both ends know of and that is not closed can be found through
\* either allocation (tcp_handler.go:166-189 stores it twice before it is offered).
Routable ==
    \A d \in Dials :
        Used(d) /\ d \notin closed => d \in connections[client[d]] \cap connections[peer[d]]

\* Cleanup meets a shared connection once for each of its two allocations, and yet
\* closes its channels once: the recover of memory.go:190-200 has nothing to catch.
ClosedOnce == \A d \in Dials : closes[d] = IF d \in closed THEN 1 ELSE 0

\* Gone (410) is final: what was written before cleanup closed the channels has been
\* read by then, and nothing is written after (tcp_handler.go:404, 478-483).
GoneIsFinal == \A g \in Gets : pc[g] = "gone" => Source(g) = <<>>
----
(* The connections as their clients see them *)

\* A handler that has had its effect, and one that has still to answer, are the
\* same to the other clients.
Outcome(step) ==
    CASE step = "new" -> "new"
      [] step = "refused" -> "rejected"
      [] step \in {"sending", "polling"} -> "called"
      [] step \in {"sent", "ok"} -> "written"
      [] step = "tooMany" -> "refused"
      [] step = "panicked" -> "broken"
      [] step \in {"taken", "data"} -> "read"
      [] step = "gone" -> "ended"
      [] OTHER -> "empty"

\* For each end of each connection, what is on its way there.
Pipe == [e \in Dials \X {"owner", "peer"} |->
           IF e[2] = "owner" THEN incoming[e[1]] ELSE outgoing[e[1]]]

\* The end at which a handler reads or writes, once it has found the connection.
At == [r \in Posts \cup Gets |->
         IF pc[r] \in {"new", "refused"} THEN Nil
         ELSE <<conn[r], IF IsOwner(r) THEN "owner" ELSE "peer">>]

State == [r \in Posts \cup Gets |-> Outcome(pc[r])]

Unclosed == {d \in Dials : closes[d] = 0}

Connection == INSTANCE Duplex
    WITH Conns <- Dials, Writes <- Posts, Reads <- Gets, Cap <- ChanCap, None <- Nil,
         pipe <- Pipe, open <- Unclosed, at <- At, state <- State

\* Retries, long polls, the two lookups and the sweep together are a pair of queues
\* that are written and read atomically, in order and by the two ends only
\* (tcp_handler.go:352-527, memory.go:167-212).
ImplementsDuplex == Connection!DuplexSpec
----
(* Liveness *)

Unfinished(r) ==
    pc[r] \in {"caller", "got", "inPeer", "inBoth", "polling", "sending", "sent", "taken"}

\* Every handler that has begun answers, when a queue stays full as well, or panics.
RequestsFinish == \A r \in Reqs : Unfinished(r) ~> ~Unfinished(r)

\* A connection nobody uses is closed in the end, as long as one of the allocations
\* that point to it stays in the table (memory.go:167-212).
IdleSwept ==
    \A d \in Dials, c \in Clients :
        d \in connections[c] /\ d \in idle /\ c \in stored
            ~> d \in closed \/ d \notin idle \/ c \notin stored
----
(* What comments and documents say and the code does not do *)

\* "Connection timed out (no activity for 5 minutes)" (memory.go:174): cleanup
\* closes only connections that five minutes have passed without use.
ClosesOnlyIdle == [][\A d \in Dials : d \in closed' \ closed => d \in idle]_vars

\* "Close channels to signal connection is dead" (memory.go:198): a POST is told
\* so, it does not panic on the closed channel.
NoSendOnClosed == \A q \in Posts : pc[q] # "panicked"
====
