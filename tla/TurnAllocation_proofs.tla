---- MODULE TurnAllocation_proofs ----
(***************************************************************************)
(* Proofs about TurnAllocation, for any set of requests, any sizes of the  *)
(* two pools and any lifetimes: whatever the interleaving of allocations,  *)
(* refreshes, deallocations and cleanups, every stored allocation owns its *)
(* client ID and its relay port alone.  The argument is the inductive      *)
(* invariant IInv: a port is marked in its pool from the step that takes   *)
(* it, and only the handler that took it and never answered unmarks it.    *)
(***************************************************************************)
EXTENDS TurnAllocation, TLAPS

\* Taking the next port keeps a pool well formed and marks that port only.
LEMMA TakenPool ==
    ASSUME NEW max \in Nat \ {0}, NEW pool \in Pool(max), NEW p \in 1..max
    PROVE  /\ Taken(pool, p, max) \in Pool(max)
           /\ Taken(pool, p, max).allocated = pool.allocated \cup {p}
BY DEF Taken, Pool, Wrap

\* Releasing a port keeps a pool well formed and unmarks that port only.
LEMMA WithoutPortPool ==
    ASSUME NEW max \in Nat \ {0}, NEW pool \in Pool(max), NEW p
    PROVE  /\ WithoutPort(pool, p) \in Pool(max)
           /\ WithoutPort(pool, p).allocated = pool.allocated \ {p}
BY DEF WithoutPort, Pool, EmptyPool

\* The initial state satisfies the invariant.
LEMMA InitInvariant == Init => IInv
<1> SUFFICES ASSUME Init PROVE IInv
  OBVIOUS
<1>1. EmptyPool \in Pool(ClientMax) /\ EmptyPool \in Pool(RelayMax)
  BY AllocationAssumption DEF EmptyPool, Pool
<1>2. TypeOK
  BY <1>1, AllocationAssumption DEF Init, TypeOK, Steps
<1>3. \A r \in Reqs : pc[r] = "new"
  BY DEF Init
<1>4. PortsBacked /\ PortsExclusive
  BY <1>3 DEF PortsBacked, PortsExclusive, HoldsClientPort, HoldsRelayPort
<1>5. PointersIssued
  BY <1>3 DEF PointersIssued, Init
<1>6. QED
  BY <1>2, <1>4, <1>5 DEF IInv

\* Taking a client port: no one else holds a port the pool yields.
LEMMA TakeClientPortInvariant ==
    ASSUME IInv, NEW r \in Reqs, NEW i \in IPs, TakeClientPort(r, i)
    PROVE  IInv'
<1> USE DEF IInv
<1>1. PICK p \in 1..ClientMax :
        /\ Yields(clientPools[i], p, ClientMax)
        /\ clientPools' = [clientPools EXCEPT ![i] = Taken(@, p, ClientMax)]
        /\ clientPort' = [clientPort EXCEPT ![r] = p]
  BY DEF TakeClientPort
<1>2. /\ clientPools[i] \in Pool(ClientMax)
      /\ p \notin clientPools[i].allocated
  BY <1>1 DEF TypeOK, Yields, FirstFree
<1>3. /\ clientPools'[i] \in Pool(ClientMax)
      /\ clientPools'[i].allocated = clientPools[i].allocated \cup {p}
      /\ \A j \in IPs \ {i} : clientPools'[j] = clientPools[j]
  BY <1>1, <1>2, TakenPool, AllocationAssumption DEF TypeOK
<1>4. /\ pc[r] = "new" /\ pc' = [pc EXCEPT ![r] = "gotClient"]
      /\ ip' = [ip EXCEPT ![r] = i]
      /\ UNCHANGED <<relayPool, turnAllocations, expiresAt, relayPort, held, now, deallocated>>
  BY DEF TakeClientPort, Goto
<1>5. TypeOK'
  BY <1>1, <1>3, <1>4, AllocationAssumption DEF TypeOK, Steps
<1>6. PortsBacked'
  BY <1>1, <1>3, <1>4 DEF PortsBacked, HoldsClientPort, HoldsRelayPort, TypeOK
<1>7. PortsExclusive'
  <2> SUFFICES ASSUME NEW a \in Reqs, NEW b \in Reqs, a # b
               PROVE  /\ HoldsClientPort(a)' /\ HoldsClientPort(b)' => ClientID(a)' # ClientID(b)'
                      /\ HoldsRelayPort(a)' /\ HoldsRelayPort(b)' => relayPort'[a] # relayPort'[b]
    BY DEF PortsExclusive
  <2>1. \A s \in Reqs \ {r} : HoldsClientPort(s)' => ClientID(s)' # <<i, p>>
    BY <1>1, <1>2, <1>4 DEF PortsBacked, HoldsClientPort, ClientID, TypeOK
  <2>2. ClientID(r)' = <<i, p>>
    BY <1>1, <1>4 DEF ClientID, TypeOK
  <2>3. \A s \in Reqs \ {r} : /\ ClientID(s)' = ClientID(s)
                              /\ HoldsClientPort(s)' = HoldsClientPort(s)
    BY <1>1, <1>4 DEF ClientID, TypeOK, HoldsClientPort
  <2>4. \A s \in Reqs : HoldsRelayPort(s)' => HoldsRelayPort(s)
    BY <1>4 DEF HoldsRelayPort, TypeOK
  <2>5. QED
    BY <1>4, <2>1, <2>2, <2>3, <2>4 DEF PortsExclusive
<1>8. PointersIssued'
  BY <1>4 DEF PointersIssued, Issued, TypeOK
<1>9. QED
  BY <1>5, <1>6, <1>7, <1>8

\* Taking a relay port: no one else holds a port the pool yields.
LEMMA TakeRelayPortInvariant ==
    ASSUME IInv, NEW r \in Reqs, TakeRelayPort(r)
    PROVE  IInv'
<1> USE DEF IInv
<1>1. PICK p \in 1..RelayMax :
        /\ Yields(relayPool, p, RelayMax)
        /\ relayPool' = Taken(relayPool, p, RelayMax)
        /\ relayPort' = [relayPort EXCEPT ![r] = p]
  BY DEF TakeRelayPort
<1>2. /\ relayPool \in Pool(RelayMax)
      /\ p \notin relayPool.allocated
  BY <1>1 DEF TypeOK, Yields, FirstFree
<1>3. /\ relayPool' \in Pool(RelayMax)
      /\ relayPool'.allocated = relayPool.allocated \cup {p}
  BY <1>1, <1>2, TakenPool, AllocationAssumption
<1>4. /\ pc[r] = "gotClient" /\ pc' = [pc EXCEPT ![r] = "gotRelay"]
      /\ UNCHANGED <<clientPools, turnAllocations, expiresAt, ip, clientPort, held, now, deallocated>>
  BY DEF TakeRelayPort, Goto
<1>5. TypeOK'
  BY <1>1, <1>3, <1>4, AllocationAssumption DEF TypeOK, Steps
<1>6. PortsBacked'
  BY <1>1, <1>3, <1>4 DEF PortsBacked, HoldsClientPort, HoldsRelayPort, TypeOK
<1>7. PortsExclusive'
  <2> SUFFICES ASSUME NEW a \in Reqs, NEW b \in Reqs, a # b
               PROVE  /\ HoldsClientPort(a)' /\ HoldsClientPort(b)' => ClientID(a)' # ClientID(b)'
                      /\ HoldsRelayPort(a)' /\ HoldsRelayPort(b)' => relayPort'[a] # relayPort'[b]
    BY DEF PortsExclusive
  <2>1. \A s \in Reqs \ {r} : HoldsRelayPort(s)' => relayPort'[s] # p
    BY <1>1, <1>2, <1>4 DEF PortsBacked, HoldsRelayPort, TypeOK
  <2>2. relayPort'[r] = p
    BY <1>1 DEF TypeOK
  <2>3. \A s \in Reqs \ {r} : /\ relayPort'[s] = relayPort[s]
                              /\ HoldsRelayPort(s)' = HoldsRelayPort(s)
    BY <1>1, <1>4 DEF TypeOK, HoldsRelayPort
  <2>4. \A s \in Reqs : HoldsClientPort(s)' => HoldsClientPort(s)
    BY <1>4 DEF HoldsClientPort, TypeOK
  <2>5. \A s \in Reqs : ClientID(s)' = ClientID(s)
    BY <1>4 DEF ClientID
  <2>6. QED
    BY <2>1, <2>2, <2>3, <2>4, <2>5 DEF PortsExclusive
<1>8. PointersIssued'
  BY <1>4 DEF PointersIssued, Issued, TypeOK
<1>9. QED
  BY <1>5, <1>6, <1>7, <1>8

\* Giving a client port back: the handler held it alone, and has not answered.
LEMMA ReleaseClientPortInvariant ==
    ASSUME IInv, NEW r \in Reqs, ReleaseClientPort(r)
    PROVE  IInv'
<1> USE DEF IInv
<1>1. /\ pc[r] = "giveBack" /\ pc' = [pc EXCEPT ![r] = "refused"]
      /\ clientPools' = [clientPools EXCEPT ![ip[r]] = WithoutPort(@, clientPort[r])]
      /\ UNCHANGED <<relayPool, turnAllocations, expiresAt, locals, held, now, deallocated>>
  BY DEF ReleaseClientPort, Goto
<1>2. ip[r] \in IPs
  BY <1>1 DEF PortsBacked, HoldsClientPort
<1>3. /\ clientPools'[ip[r]] \in Pool(ClientMax)
      /\ clientPools'[ip[r]].allocated = clientPools[ip[r]].allocated \ {clientPort[r]}
      /\ \A j \in IPs \ {ip[r]} : clientPools'[j] = clientPools[j]
  BY <1>1, <1>2, WithoutPortPool, AllocationAssumption DEF TypeOK
<1>4. TypeOK'
  BY <1>1, <1>2, <1>3 DEF TypeOK, Steps, locals
<1>5. \A s \in Reqs : /\ HoldsClientPort(s)' => s # r /\ HoldsClientPort(s)
                      /\ HoldsRelayPort(s)' => HoldsRelayPort(s)
                      /\ ClientID(s)' = ClientID(s)
  BY <1>1 DEF HoldsClientPort, HoldsRelayPort, ClientID, locals, TypeOK
<1>6. PortsBacked'
  <2> SUFFICES ASSUME NEW s \in Reqs
               PROVE  /\ HoldsClientPort(s)' => /\ ip'[s] \in IPs
                                                /\ clientPort'[s] \in clientPools'[ip'[s]].allocated
                      /\ HoldsRelayPort(s)' => relayPort'[s] \in relayPool'.allocated
    BY DEF PortsBacked
  <2>1. ASSUME HoldsClientPort(s)'
        PROVE  ip[s] \in IPs /\ clientPort[s] \in clientPools'[ip[s]].allocated
    <3>1. s # r /\ HoldsClientPort(s) /\ HoldsClientPort(r)
      BY <1>1, <1>5, <2>1 DEF HoldsClientPort
    <3>2. ip[s] # ip[r] \/ clientPort[s] # clientPort[r]
      BY <3>1 DEF PortsExclusive, ClientID
    <3>3. ip[s] \in IPs /\ clientPort[s] \in clientPools[ip[s]].allocated
      BY <3>1 DEF PortsBacked
    <3>4. QED
      BY <1>3, <3>2, <3>3
  <2>2. QED
    BY <1>1, <1>5, <2>1 DEF PortsBacked, locals
<1>7. PortsExclusive'
  BY <1>1, <1>5 DEF PortsExclusive, locals
<1>8. PointersIssued'
  BY <1>1 DEF PointersIssued, Issued, TypeOK
<1>9. QED
  BY <1>4, <1>6, <1>7, <1>8

\* A step that leaves the pools and the locals alone keeps the ports' invariants
\* if no handler comes to hold a port by it.
LEMMA PortsUntouched ==
    ASSUME PortsBacked, PortsExclusive, UNCHANGED <<pools, locals>>,
           \A s \in Reqs : /\ HoldsClientPort(s)' => HoldsClientPort(s)
                           /\ HoldsRelayPort(s)' => HoldsRelayPort(s)
    PROVE  PortsBacked' /\ PortsExclusive'
<1>1. PortsBacked'
  BY DEF PortsBacked, pools, locals
<1>2. \A s \in Reqs : ClientID(s)' = ClientID(s)
  BY DEF ClientID, locals
<1>3. PortsExclusive'
  BY <1>2 DEF PortsExclusive, locals
<1>4. QED
  BY <1>1, <1>3

\* The steps of a handler that touch neither pool.
LEMMA HandlerInvariant ==
    ASSUME IInv, NEW r \in Reqs,
           \/ \E i \in IPs : RefuseClient(r, i)
           \/ \E o \in Reqs : RefreshUnknown(r, o) \/ RefreshGet(r, o) \/ Deallocate(r, o)
           \/ RelayExhausted(r) \/ PurgeClient(r) \/ SaveNew(r) \/ RefreshSave(r)
           \/ \E l \in Lifetimes : RefreshExpiry(r, l)
    PROVE  IInv'
<1> USE DEF IInv
<1>1. UNCHANGED <<pools, locals, now>>
  BY DEF RefuseClient, RefreshUnknown, RefreshGet, Deallocate, RelayExhausted, PurgeClient,
         SaveNew, RefreshSave, RefreshExpiry
<1>2. \A s \in Reqs : /\ HoldsClientPort(s)' => HoldsClientPort(s)
                      /\ HoldsRelayPort(s)' => HoldsRelayPort(s)
  BY DEF RefuseClient, RefreshUnknown, RefreshGet, Deallocate, RelayExhausted, PurgeClient,
         SaveNew, RefreshSave, RefreshExpiry, Goto, HoldsClientPort, HoldsRelayPort, TypeOK
<1>3. PortsBacked' /\ PortsExclusive'
  BY <1>1, <1>2, PortsUntouched
<1>4. TypeOK' /\ PointersIssued'
  <2> USE <1>1 DEF pools, locals
  <2>1. CASE \E i \in IPs : RefuseClient(r, i)
    BY <2>1 DEF RefuseClient, Goto, TypeOK, Steps, PointersIssued, Issued
  <2>2. CASE \E o \in Reqs : RefreshUnknown(r, o)
    BY <2>2 DEF RefreshUnknown, Goto, TypeOK, Steps, PointersIssued, Issued
  <2>3. CASE \E o \in Reqs : RefreshGet(r, o)
    <3>1. PICK o \in Reqs : RefreshGet(r, o)
      BY <2>3
    <3>2. TypeOK'
      BY <3>1 DEF RefreshGet, Goto, TypeOK, Steps
    <3>3. PointersIssued'
      BY <3>1 DEF RefreshGet, Goto, TypeOK, PointersIssued, Issued
    <3>4. QED
      BY <3>2, <3>3
  <2>4. CASE \E o \in Reqs : Deallocate(r, o)
    <3>1. PICK o \in Reqs : Deallocate(r, o)
      BY <2>4
    <3>2. TypeOK'
      BY <3>1 DEF Deallocate, Goto, TypeOK, Steps
    <3>3. PointersIssued'
      BY <3>1 DEF Deallocate, Goto, TypeOK, PointersIssued, Issued
    <3>4. QED
      BY <3>2, <3>3
  <2>5. CASE RelayExhausted(r)
    BY <2>5 DEF RelayExhausted, Goto, TypeOK, Steps, PointersIssued, Issued
  <2>6. CASE PurgeClient(r)
    BY <2>6 DEF PurgeClient, Goto, TypeOK, Steps, PointersIssued, Issued
  <2>7. CASE SaveNew(r)
    <3>1. now + DefaultLifetime \in Int
      BY AllocationAssumption DEF TypeOK
    <3>2. TypeOK'
      BY <2>7, <3>1 DEF SaveNew, Goto, TypeOK, Steps
    <3>3. PointersIssued'
      BY <2>7 DEF SaveNew, Goto, TypeOK, PointersIssued, Issued
    <3>4. QED
      BY <3>2, <3>3
  <2>8. CASE RefreshSave(r)
    BY <2>8 DEF RefreshSave, Goto, TypeOK, Steps, PointersIssued, Issued
  <2>9. CASE \E l \in Lifetimes : RefreshExpiry(r, l)
    <3>1. PICK l \in Lifetimes : RefreshExpiry(r, l)
      BY <2>9
    <3>2. now + (IF l = 0 THEN DefaultLifetime ELSE l) \in Int
      BY AllocationAssumption DEF TypeOK
    <3>3. TypeOK'
      BY <3>1, <3>2 DEF RefreshExpiry, Goto, TypeOK, Steps
    <3>4. PointersIssued'
      BY <3>1 DEF RefreshExpiry, Goto, TypeOK, PointersIssued, Issued
    <3>5. QED
      BY <3>3, <3>4
  <2>10. QED
    BY <2>1, <2>2, <2>3, <2>4, <2>5, <2>6, <2>7, <2>8, <2>9
<1>5. QED
  BY <1>3, <1>4

\* The steps of the cleanup goroutine and of the clock.
LEMMA BackgroundInvariant ==
    ASSUME IInv, CleanupExpired \/ Tick \/ UNCHANGED vars
    PROVE  IInv'
<1> USE DEF IInv
<1>1. UNCHANGED <<pools, locals, pc, held, deallocated>> /\ turnAllocations' \subseteq turnAllocations
  BY DEF CleanupExpired, Tick, vars
<1>2. PortsBacked' /\ PortsExclusive'
  BY <1>1, PortsUntouched DEF HoldsClientPort, HoldsRelayPort
<1>3. PointersIssued'
  BY <1>1 DEF PointersIssued, Issued
<1>4. TypeOK'
  BY <1>1, AllocationAssumption DEF CleanupExpired, Tick, vars, TypeOK, pools, locals
<1>5. QED
  BY <1>2, <1>3, <1>4

\* IInv is an invariant: types, and ports marked and owned by one handler each.
THEOREM Invariance == Spec => []IInv
<1>1. IInv /\ [Next]_vars => IInv'
  <2> SUFFICES ASSUME IInv, [Next]_vars PROVE IInv'
    OBVIOUS
  <2>1. ASSUME NEW r \in Reqs, Arrive(r) \/ Proceed(r) PROVE IInv'
    BY <2>1, TakeClientPortInvariant, TakeRelayPortInvariant, ReleaseClientPortInvariant,
       HandlerInvariant DEF Arrive, Proceed
  <2>2. QED
    BY <2>1, BackgroundInvariant DEF Next
<1>2. QED
  BY InitInvariant, <1>1, PTL DEF Spec

\* GetAllocationByClientID has at most one answer.
THEOREM ClientIDUniqueAlways == Spec => []ClientIDUnique
<1>1. IInv => ClientIDUnique
  BY DEF IInv, PointersIssued, PortsExclusive, Issued, HoldsClientPort, ClientIDUnique
<1>2. QED
  BY <1>1, Invariance, PTL

\* GetAllocationByPort has at most one answer.
THEOREM RelayPortUniqueAlways == Spec => []RelayPortUnique
<1>1. IInv => RelayPortUnique
  BY DEF IInv, PointersIssued, PortsExclusive, Issued, HoldsRelayPort, RelayPortUnique
<1>2. QED
  BY <1>1, Invariance, PTL

\* The purge of an allocate finds nothing to remove.
LEMMA PurgeFindsNothing ==
    ASSUME IInv, NEW r \in Reqs, PurgeClient(r)
    PROVE  turnAllocations' = turnAllocations
<1>1. \A o \in turnAllocations : o # r /\ HoldsClientPort(o) /\ HoldsClientPort(r)
  BY DEF IInv, PointersIssued, Issued, HoldsClientPort, PurgeClient, Goto
<1>2. \A o \in turnAllocations : ClientID(o) # ClientID(r)
  BY <1>1 DEF IInv, PortsExclusive, TypeOK
<1>3. QED
  BY <1>2 DEF PurgeClient

\* The purge of an allocate never takes a stored allocation away.
THEOREM PurgeHarmlessAlways == Spec => PurgeHarmless
<1>1. IInv /\ [Next]_vars => [\A r \in Reqs : PurgeClient(r) => UNCHANGED turnAllocations]_vars
  BY PurgeFindsNothing
<1>2. QED
  BY <1>1, Invariance, PTL DEF Spec, PurgeHarmless

\* An allocation in time that nobody deallocated is in the table, or about to be.
THEOREM ResidentAlways == Spec => []Resident
<1>1. Init => Resident
  BY DEF Init, Resident, Issued
<1>2. IInv /\ Resident /\ [Next]_vars => Resident'
  <2> SUFFICES ASSUME IInv, Resident, [Next]_vars,
                      NEW o \in Reqs, (o \in Issued \ deallocated)', ~Expired(o)'
               PROVE  \/ o \in turnAllocations'
                      \/ \E r \in Reqs : pc'[r] = "refreshed" /\ held'[r] = o
    BY DEF Resident, Issued
  <2> USE DEF IInv, TypeOK, Issued, Expired, Resident
  <2>1. ASSUME NEW r \in Reqs, NEW i \in IPs, TakeClientPort(r, i) \/ RefuseClient(r, i)
        PROVE  o \in turnAllocations' \/ \E s \in Reqs : pc'[s] = "refreshed" /\ held'[s] = o
    BY <2>1 DEF TakeClientPort, RefuseClient, Goto
  <2>2. ASSUME NEW r \in Reqs, NEW x \in Reqs,
               RefreshUnknown(r, x) \/ RefreshGet(r, x) \/ Deallocate(r, x)
        PROVE  o \in turnAllocations' \/ \E s \in Reqs : pc'[s] = "refreshed" /\ held'[s] = o
    BY <2>2 DEF RefreshUnknown, RefreshGet, Deallocate, Goto
  <2>3. ASSUME NEW r \in Reqs, TakeRelayPort(r) \/ RelayExhausted(r) \/ ReleaseClientPort(r)
        PROVE  o \in turnAllocations' \/ \E s \in Reqs : pc'[s] = "refreshed" /\ held'[s] = o
    BY <2>3 DEF TakeRelayPort, RelayExhausted, ReleaseClientPort, Goto
  <2>4. ASSUME NEW r \in Reqs, PurgeClient(r)
        PROVE  o \in turnAllocations' \/ \E s \in Reqs : pc'[s] = "refreshed" /\ held'[s] = o
    BY <2>4, PurgeFindsNothing DEF PurgeClient, Goto
  <2>5. ASSUME NEW r \in Reqs, SaveNew(r)
        PROVE  o \in turnAllocations' \/ \E s \in Reqs : pc'[s] = "refreshed" /\ held'[s] = o
    BY <2>5 DEF SaveNew, Goto
  <2>6. ASSUME NEW r \in Reqs, NEW l \in Lifetimes, RefreshExpiry(r, l)
        PROVE  o \in turnAllocations' \/ \E s \in Reqs : pc'[s] = "refreshed" /\ held'[s] = o
    BY <2>6 DEF RefreshExpiry, Goto
  <2>7. ASSUME NEW r \in Reqs, RefreshSave(r)
        PROVE  o \in turnAllocations' \/ \E s \in Reqs : pc'[s] = "refreshed" /\ held'[s] = o
    BY <2>7 DEF RefreshSave, Goto
  <2>8. CASE CleanupExpired
    BY <2>8 DEF CleanupExpired
  <2>9. CASE Tick
    BY <2>9, AllocationAssumption DEF Tick
  <2>10. CASE UNCHANGED vars
    BY <2>10 DEF vars
  <2>11. QED
    BY <2>1, <2>2, <2>3, <2>4, <2>5, <2>6, <2>7, <2>8, <2>9, <2>10 DEF Next, Arrive, Proceed
<1>3. QED
  BY <1>1, <1>2, Invariance, PTL DEF Spec
====
