---- MODULE PortScan ----
(***************************************************************************)
(* The search loop of AllocateClientPort and GlobalRelayPortPool.Allocate  *)
(* (hturnal/turn/portpool.go), one step per iteration, for one pool.  The  *)
(* pool's mutex is held from the call to the return, so no release happens *)
(* while a search is under way; what could be wrong is the loop itself:    *)
(* its wrap-around, and the test that ends it after one lap.               *)
(***************************************************************************)
EXTENDS RotatingPool, FiniteSets

CONSTANT Max        \* the highest port: 1024 per IP, 65535 for the relay

ASSUME ScanAssumption == Max \in Nat \ {0}

VARIABLES perIP,        \* TRUE: a PerIPPool; FALSE: the GlobalRelayPortPool
          allocated,    \* the ports in use
          nextPort,     \* the pool's field, moved by the search as it goes
          start,        \* the local of the search: where the lap began
          answer,       \* what the last search returned, 0 with an error
          pc            \* "idle" or "scan"

vars == <<perIP, allocated, nextPort, start, answer, pc>>

\* Every variable has its type.
TypeOK == /\ perIP \in BOOLEAN
          /\ allocated \subseteq 1..Max
          /\ nextPort \in 1..Max
          /\ start \in 1..Max
          /\ answer \in 0..Max
          /\ pc \in {"idle", "scan"}

Init == /\ perIP \in BOOLEAN
        /\ allocated = {}
        /\ nextPort = 1
        /\ start = 1
        /\ answer = 0
        /\ pc = "idle"

\* The per-IP pool counts its ports before it searches.
AtLimit == perIP /\ Cardinality(allocated) >= Max

Call ==
    /\ pc = "idle"
    /\ ~AtLimit
    /\ start' = nextPort
    /\ pc' = "scan"
    /\ UNCHANGED <<perIP, allocated, nextPort, answer>>

Refuse ==
    /\ pc = "idle"
    /\ AtLimit
    /\ answer' = 0
    /\ UNCHANGED <<perIP, allocated, nextPort, start, pc>>

\* The body's first branch; every exit of the loop leaves nextPort in range,
\* so that it is never taken.
Normalize ==
    /\ nextPort > Max
    /\ nextPort' = 1
    /\ UNCHANGED <<perIP, allocated, start, answer, pc>>

TakePort ==
    /\ nextPort \notin allocated
    /\ allocated' = allocated \cup {nextPort}
    /\ nextPort' = Wrap(nextPort + 1, Max)
    /\ answer' = nextPort
    /\ pc' = "idle"
    /\ UNCHANGED <<perIP, start>>

\* Mutants: the lap ends one port too soon; it never ends; a free port is passed.
SkipShort ==
    /\ nextPort \in allocated
    /\ nextPort' = Wrap(nextPort + 1, Max)
    /\ IF Wrap(nextPort' + 1, Max) = start
       THEN pc' = "idle" /\ answer' = 0
       ELSE UNCHANGED <<pc, answer>>
    /\ UNCHANGED <<perIP, allocated, start>>
SkipForever ==
    /\ nextPort \in allocated
    /\ nextPort' = Wrap(nextPort + 1, Max)
    /\ UNCHANGED <<perIP, allocated, start, pc, answer>>
SkipFree ==
    /\ nextPort' = Wrap(nextPort + 1, Max)
    /\ IF nextPort' = start
       THEN pc' = "idle" /\ answer' = 0
       ELSE UNCHANGED <<pc, answer>>
    /\ UNCHANGED <<perIP, allocated, start>>

SkipPort ==
    /\ nextPort \in allocated
    /\ nextPort' = Wrap(nextPort + 1, Max)
    /\ IF nextPort' = start
       THEN pc' = "idle" /\ answer' = 0
       ELSE UNCHANGED <<pc, answer>>
    /\ UNCHANGED <<perIP, allocated, start>>

Iterate ==
    /\ pc = "scan"
    /\ IF nextPort > Max THEN Normalize ELSE TakePort \/ SkipPort

\* Only the holder of a port releases it, and the mutex keeps it out of a scan.
Release(p) ==
    /\ pc = "idle"
    /\ p \in allocated
    /\ allocated' = allocated \ {p}
    /\ nextPort' = IF perIP /\ allocated = {p} THEN 1 ELSE nextPort
    /\ UNCHANGED <<perIP, start, answer, pc>>

Next == Call \/ Refuse \/ Iterate \/ \E p \in 1..Max : Release(p)

\* The goroutine that holds the mutex keeps running.
Spec == Init /\ [][Next]_vars /\ WF_vars(Iterate)
----
\* Every port the search has passed since it started is taken: a port freed or
\* skipped by mistake would be lost to it (portpool.go:48-70).
PassedTaken ==
    pc = "scan" =>
        \A q \in 1..Max :
            Ahead(start, q, Max) < Ahead(start, nextPort, Max) => q \in allocated

\* A search always comes back: the lap test `nextPort == start` is met even when
\* the pool is full, because start is in range (portpool.go:67, 122).
ScanReturns == pc = "scan" ~> pc = "idle"

\* The loop does in several steps what PortPool promises in one.  A search has
\* not moved the pool's pointer until it returns.
Pool == INSTANCE PortPool
            WITH nextPort <- IF pc = "scan" THEN start ELSE nextPort

\* Allocate returns the first free port in rotation, and fails only when none is
\* free (portpool.go:30-72, 99-127).
ImplementsPool == Pool!PoolSpec
====
