---- MODULE PortPool ----
(***************************************************************************)
(* What one port pool of hturnal/turn/portpool.go promises its callers:    *)
(* each operation is one atomic step, Allocate returns the first free port *)
(* in rotation and fails only when every port is taken.  perIP selects the *)
(* pool: TRUE is one PerIPPool of IPPortPool, which is dropped when its    *)
(* last port is released and made anew on demand; FALSE is the             *)
(* GlobalRelayPortPool.  PortScan is the search loop that implements it.   *)
(***************************************************************************)
EXTENDS RotatingPool

CONSTANT Max        \* the highest port: 1024 per IP, 65535 for the relay

VARIABLES perIP,        \* which of the two pools this is
          allocated,    \* the ports in use
          nextPort,     \* where the next search starts
          answer        \* what the last Allocate returned, 0 with an error

poolVars == <<perIP, allocated, nextPort, answer>>

PoolInit == /\ perIP \in BOOLEAN
            /\ allocated = {}
            /\ nextPort = 1
            /\ answer = 0

Allocate ==
    \E p \in 1..Max :
        /\ FirstFree(p, allocated, nextPort, Max)
        /\ allocated' = allocated \cup {p}
        /\ nextPort' = Wrap(p + 1, Max)
        /\ answer' = p
        /\ UNCHANGED perIP

Exhausted ==
    /\ Full(allocated, Max)
    /\ answer' = 0
    /\ UNCHANGED <<perIP, allocated, nextPort>>

\* Only the holder of a port releases it.
Release(p) ==
    /\ p \in allocated
    /\ allocated' = allocated \ {p}
    /\ nextPort' = IF perIP /\ allocated = {p} THEN 1 ELSE nextPort
    /\ UNCHANGED <<perIP, answer>>

PoolNext == Allocate \/ Exhausted \/ \E p \in 1..Max : Release(p)

PoolSpec == PoolInit /\ [][PoolNext]_poolVars
====
