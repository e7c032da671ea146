---- MODULE TurnAllocation ----
(***************************************************************************)
(* The control plane of the hturnal relay server: the handlers of          *)
(* hturnal/turn/handler.go (allocate, refresh, deallocate; the handlers of *)
(* tcp_handler.go that allocate and deallocate do the same), over the two  *)
(* port pools of portpool.go and the allocation table of                   *)
(* storage/memory.go with its cleanup goroutine.                           *)
(*                                                                         *)
(* Every HTTP request runs in a goroutine of its own: a handler is a       *)
(* sequence of steps, one for each stretch of code under one lock.  An     *)
(* allocation is identified with the allocate request that built it, and   *)
(* so is the relay ID that names it: generateID is taken to return         *)
(* distinct values.  Its client ID and relay port are that request's       *)
(* locals, which nothing changes afterwards.                               *)
(***************************************************************************)
EXTENDS RotatingPool

CONSTANTS Reqs,             \* the requests, each served once
          IPs,              \* the client addresses they come from
          Nil,              \* no allocation, no address
          ClientMax,        \* ports per client address (1024 in the code)
          RelayMax,         \* relay ports (65535 in the code)
          DefaultLifetime,  \* 10 minutes in the code
          Lifetimes,        \* lifetimes a refresh may ask for, 0 for the default
          MaxTime           \* bound on the clock

ASSUME AllocationAssumption ==
    /\ Nil \notin Reqs \cup IPs
    /\ ClientMax \in Nat \ {0}
    /\ RelayMax \in Nat \ {0}
    /\ DefaultLifetime \in Nat
    /\ Lifetimes \subseteq Int
    /\ MaxTime \in Nat

VARIABLES
    clientPools,        \* IPPortPool: for each address, its PerIPPool
    relayPool,          \* GlobalRelayPortPool
    turnAllocations,    \* the allocations memoryStorage holds
    expiresAt,          \* the ExpiresAt field of each allocation
    pc,                 \* where each handler stands
    ip, clientPort, relayPort,  \* locals of an allocate handler
    held,               \* the pointer a refresh handler got from the table
    now,                \* the clock
    deallocated         \* history: allocations a deallocate took from the table

pools == <<clientPools, relayPool>>
locals == <<ip, clientPort, relayPort>>
vars == <<pools, turnAllocations, expiresAt, pc, locals, held, now, deallocated>>

Pool(max) == [allocated : SUBSET (1..max), nextPort : 1..max]

EmptyPool == [allocated |-> {}, nextPort |-> 1]

Steps == {"new", "gotClient", "gotRelay", "purged", "giveBack", "allocated",
          "refresh", "refreshed", "done", "refused"}

\* Every variable has its type.
TypeOK ==
    /\ clientPools \in [IPs -> Pool(ClientMax)]
    /\ relayPool \in Pool(RelayMax)
    /\ turnAllocations \subseteq Reqs
    /\ expiresAt \in [Reqs -> Int]
    /\ pc \in [Reqs -> Steps]
    /\ ip \in [Reqs -> IPs \cup {Nil}]
    /\ clientPort \in [Reqs -> 0..ClientMax]
    /\ relayPort \in [Reqs -> 0..RelayMax]
    /\ held \in [Reqs -> Reqs \cup {Nil}]
    /\ now \in 0..MaxTime
    /\ deallocated \subseteq Reqs

Init ==
    /\ clientPools = [i \in IPs |-> EmptyPool]
    /\ relayPool = EmptyPool
    /\ turnAllocations = {}
    /\ expiresAt = [r \in Reqs |-> 0]
    /\ pc = [r \in Reqs |-> "new"]
    /\ ip = [r \in Reqs |-> Nil]
    /\ clientPort = [r \in Reqs |-> 0]
    /\ relayPort = [r \in Reqs |-> 0]
    /\ held = [r \in Reqs |-> Nil]
    /\ now = 0
    /\ deallocated = {}

Goto(r, from, to) == pc[r] = from /\ pc' = [pc EXCEPT ![r] = to]

ClientID(r) == <<ip[r], clientPort[r]>>

\* The relay IDs the server has answered with: those a client can name.
Issued == {r \in Reqs : pc[r] = "allocated"}

Expired(o) == now > expiresAt[o]
----
(* allocate *)

\* A port p of pool, if it is the one the rotation yields, and the pool without it.
Yields(pool, p, max) == FirstFree(p, pool.allocated, pool.nextPort, max)

Taken(pool, p, max) == [allocated |-> pool.allocated \cup {p},
                        nextPort  |-> Wrap(p + 1, max)]

TakeClientPort(r, i) ==
    /\ Goto(r, "new", "gotClient")
    /\ \E p \in 1..ClientMax :
        /\ Yields(clientPools[i], p, ClientMax)
        /\ clientPools' = [clientPools EXCEPT ![i] = Taken(@, p, ClientMax)]
        /\ clientPort' = [clientPort EXCEPT ![r] = p]
    /\ ip' = [ip EXCEPT ![r] = i]
    /\ UNCHANGED <<relayPool, turnAllocations, expiresAt, relayPort, held, now, deallocated>>

RefuseClient(r, i) ==
    /\ Goto(r, "new", "refused")
    /\ Full(clientPools[i].allocated, ClientMax)
    /\ UNCHANGED <<pools, turnAllocations, expiresAt, locals, held, now, deallocated>>

TakeRelayPort(r) ==
    /\ Goto(r, "gotClient", "gotRelay")
    /\ \E p \in 1..RelayMax :
        /\ Yields(relayPool, p, RelayMax)
        /\ relayPool' = Taken(relayPool, p, RelayMax)
        /\ relayPort' = [relayPort EXCEPT ![r] = p]
    /\ UNCHANGED <<clientPools, turnAllocations, expiresAt, ip, clientPort, held, now, deallocated>>

\* Mutant: the handler waits for a relay port instead of giving up.
RelayWaits(r) == FALSE

RelayExhausted(r) ==
    /\ Goto(r, "gotClient", "giveBack")
    /\ Full(relayPool.allocated, RelayMax)
    /\ UNCHANGED <<pools, turnAllocations, expiresAt, locals, held, now, deallocated>>

\* A per-address pool without ports is dropped and starts again from port 1.
WithoutPort(pool, p) == IF pool.allocated \ {p} = {}
                        THEN EmptyPool
                        ELSE [pool EXCEPT !.allocated = @ \ {p}]

ReleaseClientPort(r) ==
    /\ Goto(r, "giveBack", "refused")
    /\ clientPools' = [clientPools EXCEPT ![ip[r]] = WithoutPort(@, clientPort[r])]
    /\ UNCHANGED <<relayPool, turnAllocations, expiresAt, locals, held, now, deallocated>>

\* DeleteAllocationsByClientID; the memory table reports no error.
PurgeClient(r) ==
    /\ Goto(r, "gotRelay", "purged")
    /\ turnAllocations' = {o \in turnAllocations : ClientID(o) # ClientID(r)}
    /\ UNCHANGED <<pools, expiresAt, locals, held, now, deallocated>>

SaveNew(r) ==
    /\ Goto(r, "purged", "allocated")
    /\ turnAllocations' = turnAllocations \cup {r}
    /\ expiresAt' = [expiresAt EXCEPT ![r] = now + DefaultLifetime]
    /\ UNCHANGED <<pools, locals, held, now, deallocated>>
----
(* refresh *)

RefreshUnknown(r, o) ==
    /\ Goto(r, "new", "refused")
    /\ o \in Issued \ turnAllocations
    /\ UNCHANGED <<pools, turnAllocations, expiresAt, locals, held, now, deallocated>>

RefreshGet(r, o) ==
    /\ Goto(r, "new", "refresh")
    /\ o \in turnAllocations
    /\ held' = [held EXCEPT ![r] = o]
    /\ UNCHANGED <<pools, turnAllocations, expiresAt, locals, now, deallocated>>

\* Under no lock: the allocation may have left the table since it was found.
RefreshExpiry(r, lifetime) ==
    /\ Goto(r, "refresh", "refreshed")
    /\ expiresAt' = [expiresAt EXCEPT ![held[r]] =
                        now + IF lifetime = 0 THEN DefaultLifetime ELSE lifetime]
    /\ UNCHANGED <<pools, turnAllocations, locals, held, now, deallocated>>

\* Mutant: the pointer is in the table already, so saving it again is left out.
RefreshNoSave(r) ==
    /\ Goto(r, "refreshed", "done")
    /\ UNCHANGED <<pools, turnAllocations, expiresAt, locals, held, now, deallocated>>

RefreshSave(r) ==
    /\ Goto(r, "refreshed", "done")
    /\ turnAllocations' = turnAllocations \cup {held[r]}
    /\ UNCHANGED <<pools, expiresAt, locals, held, now, deallocated>>
----
(* deallocate, and the cleanup goroutine *)

\* Mutant: a deallocate that gives the ports back, and nothing else.
DeallocateReleases(r, o) ==
    /\ Goto(r, "new", "done")
    /\ o \in Issued
    /\ turnAllocations' = turnAllocations \ {o}
    /\ deallocated' = deallocated \cup ({o} \cap turnAllocations)
    /\ clientPools' = [clientPools EXCEPT ![ip[o]] = WithoutPort(@, clientPort[o])]
    /\ relayPool' = [relayPool EXCEPT !.allocated = @ \ {relayPort[o]}]
    /\ UNCHANGED <<expiresAt, locals, held, now>>

\* Answers "deallocated" whether or not the relay is there; the ports stay taken.
Deallocate(r, o) ==
    /\ Goto(r, "new", "done")
    /\ o \in Issued
    /\ turnAllocations' = turnAllocations \ {o}
    /\ deallocated' = deallocated \cup ({o} \cap turnAllocations)
    /\ UNCHANGED <<pools, expiresAt, locals, held, now>>

\* Mutants: the ports of what expired are released; only what expired just now goes.
CleanupReleases ==
    /\ turnAllocations' = {o \in turnAllocations : ~Expired(o)}
    /\ relayPool' = [relayPool EXCEPT !.allocated =
                        @ \ {relayPort[o] : o \in {x \in turnAllocations : Expired(x)}}]
    /\ UNCHANGED <<clientPools, expiresAt, pc, locals, held, now, deallocated>>
CleanupOnTheTick ==
    /\ turnAllocations' = {o \in turnAllocations : now # expiresAt[o] + 1}
    /\ UNCHANGED <<pools, expiresAt, pc, locals, held, now, deallocated>>

\* One tick of the cleanup goroutine, under the table's lock throughout.
CleanupExpired ==
    /\ turnAllocations' = {o \in turnAllocations : ~Expired(o)}
    /\ UNCHANGED <<pools, expiresAt, pc, locals, held, now, deallocated>>

Tick ==
    /\ now < MaxTime
    /\ now' = now + 1
    /\ UNCHANGED <<pools, turnAllocations, expiresAt, pc, locals, held, deallocated>>
----
\* The first step of a handler: a request arrives.
Arrive(r) ==
    \/ \E i \in IPs : TakeClientPort(r, i) \/ RefuseClient(r, i)
    \/ \E o \in Reqs : RefreshUnknown(r, o) \/ RefreshGet(r, o) \/ Deallocate(r, o)

\* The steps a handler takes once it has begun.
Proceed(r) ==
    \/ TakeRelayPort(r) \/ RelayExhausted(r) \/ ReleaseClientPort(r)
    \/ PurgeClient(r) \/ SaveNew(r)
    \/ \E l \in Lifetimes : RefreshExpiry(r, l)
    \/ RefreshSave(r)

Next ==
    \/ \E r \in Reqs : Arrive(r) \/ Proceed(r)
    \/ CleanupExpired
    \/ Tick

\* Clients need not send anything; a handler once begun runs on, and the ticker
\* of the cleanup goroutine keeps firing.
Fairness == /\ \A r \in Reqs : WF_vars(Proceed(r))
            /\ WF_vars(CleanupExpired)

Spec == Init /\ [][Next]_vars /\ Fairness
----
(* What the handlers own *)

HoldsClientPort(r) == pc[r] \in {"gotClient", "gotRelay", "purged", "giveBack", "allocated"}

HoldsRelayPort(r) == pc[r] \in {"gotRelay", "purged", "allocated"}

\* Every port an allocation or a handler at work relies on is marked in its pool.
PortsBacked ==
    \A r \in Reqs :
        /\ HoldsClientPort(r) => /\ ip[r] \in IPs
                                 /\ clientPort[r] \in clientPools[ip[r]].allocated
        /\ HoldsRelayPort(r) => relayPort[r] \in relayPool.allocated

\* No two of them rely on the same port.
PortsExclusive ==
    \A r, s \in Reqs :
        r # s => /\ HoldsClientPort(r) /\ HoldsClientPort(s) => ClientID(r) # ClientID(s)
                 /\ HoldsRelayPort(r) /\ HoldsRelayPort(s) => relayPort[r] # relayPort[s]

\* What is in the table, or in the hands of a refresh, has been issued.
PointersIssued ==
    /\ turnAllocations \cup deallocated \subseteq Issued
    /\ \A r \in Reqs : pc[r] \in {"refresh", "refreshed"} => held[r] \in Issued

IInv == TypeOK /\ PortsBacked /\ PortsExclusive /\ PointersIssued
----
(* Safety *)

\* GetAllocationByClientID (memory.go:62-71) returns the first match of a map
\* iteration: a peer is reached only if no two stored allocations, whatever
\* requests raced to store them, have the same client ID.
ClientIDUnique ==
    \A a, b \in turnAllocations : a # b => ClientID(a) # ClientID(b)

\* GetAllocationByPort (memory.go:73-82) likewise: no two stored allocations
\* share a relay port.
RelayPortUnique ==
    \A a, b \in turnAllocations : a # b => relayPort[a] # relayPort[b]

\* An allocate removes "old allocations of this client ID" (handler.go:45-51):
\* that never takes the relay of a client who still has it.
PurgeHarmless ==
    [][\A r \in Reqs : PurgeClient(r) => UNCHANGED turnAllocations]_vars

\* A relay nobody deallocated and whose time is not over can be found, whatever
\* cleanups and refreshes run meanwhile, or a refresh is about to put it back.
Resident ==
    \A o \in Issued \ deallocated :
        ~Expired(o) => \/ o \in turnAllocations
                       \/ \E r \in Reqs : pc[r] = "refreshed" /\ held[r] = o
----
(* Liveness *)

Finished(r) == pc[r] \in {"allocated", "done", "refused"}

\* A handler that has begun answers its request, when the pools are empty too.
RequestsFinish == \A r \in Reqs : pc[r] # "new" ~> Finished(r)

\* An expired allocation leaves the table unless a refresh extends it.
ExpiredRemoved ==
    \A o \in Reqs :
        o \in turnAllocations /\ Expired(o) ~> o \notin turnAllocations \/ ~Expired(o)
----
(* What the documents say and the code does not do *)

\* "Relay $RELAY_ID has been deallocated" (examples/05_turn_refresh_deallocate.sh:41):
\* once deallocate has removed an allocation it is not in the table again.
DeallocatedGone == deallocated \cap turnAllocations = {}

\* "/turn/deallocate: Release relay resources" (summary.md:87): every relay port
\* taken belongs to a stored allocation or to an allocate under way.
RelayPortsReleased ==
    relayPool.allocated \subseteq
        {relayPort[r] : r \in {s \in Reqs : HoldsRelayPort(s) /\ pc[s] # "allocated"}
                              \cup turnAllocations}
====
