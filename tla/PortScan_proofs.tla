---- MODULE PortScan_proofs ----
(***************************************************************************)
(* Proofs about PortScan, for every Max and both pools: the search     *)
(* loop keeps the pool well formed, never passes a free port, and          *)
(* implements the atomic PortPool.                                         *)
(***************************************************************************)
EXTENDS PortScan, FiniteSetTheorems, TLAPS

\* The inductive invariant: every port behind the search is taken.
IInv == TypeOK /\ PassedTaken

\* The next port in rotation is in range.
LEMMA WrapInRange ==
    ASSUME NEW p \in 1..Max
    PROVE  Wrap(p + 1, Max) \in 1..Max
BY ScanAssumption DEF Wrap

\* Moving on by one port that does not close the lap passes that port only.
LEMMA AheadStep ==
    ASSUME NEW s \in 1..Max, NEW n \in 1..Max, NEW q \in 1..Max,
           Wrap(n + 1, Max) # s,
           Ahead(s, q, Max) < Ahead(s, Wrap(n + 1, Max), Max)
    PROVE  q = n \/ Ahead(s, q, Max) < Ahead(s, n, Max)
BY ScanAssumption DEF Wrap, Ahead

\* When the next port closes the lap, every other port has been passed.
LEMMA LapClosed ==
    ASSUME NEW s \in 1..Max, NEW n \in 1..Max, NEW q \in 1..Max,
           Wrap(n + 1, Max) = s
    PROVE  q = n \/ Ahead(s, q, Max) < Ahead(s, n, Max)
BY ScanAssumption DEF Wrap, Ahead

---------------------------------------------------------------------------
(* Each operation keeps the types and what a search has passed. *)

LEMMA CallKeeps == ASSUME IInv, Call PROVE IInv'
<1>1. \A q \in 1..Max : ~(Ahead(nextPort, q, Max) < Ahead(nextPort, nextPort, Max))
  BY ScanAssumption DEF IInv, TypeOK, Ahead
<1>2. QED
  BY <1>1 DEF IInv, TypeOK, PassedTaken, Call

LEMMA RefuseKeeps == ASSUME IInv, Refuse PROVE IInv'
BY ScanAssumption DEF IInv, TypeOK, PassedTaken, Refuse

LEMMA TakeKeeps == ASSUME IInv, TakePort PROVE IInv'
BY WrapInRange DEF IInv, TypeOK, PassedTaken, TakePort

\* A port that is skipped was taken; and with it all that are behind are.
LEMMA SkipKeeps == ASSUME IInv, pc = "scan", SkipPort PROVE IInv'
<1>1. TypeOK'
  BY WrapInRange, ScanAssumption DEF IInv, TypeOK, SkipPort
<1>2. ASSUME pc' = "scan", NEW q \in 1..Max,
             Ahead(start, q, Max) < Ahead(start, nextPort', Max)
      PROVE  q \in allocated
  <2>1. nextPort' = Wrap(nextPort + 1, Max) /\ nextPort' # start
    BY <1>2 DEF SkipPort
  <2>2. q = nextPort \/ Ahead(start, q, Max) < Ahead(start, nextPort, Max)
    BY <1>2, <2>1, AheadStep DEF IInv, TypeOK
  <2>3. QED
    BY <2>2 DEF IInv, PassedTaken, SkipPort
<1>3. start' = start /\ allocated' = allocated
  BY DEF SkipPort
<1>4. QED
  BY <1>1, <1>2, <1>3 DEF IInv, PassedTaken

\* Nothing is released while a search goes on.
LEMMA ReleaseKeeps == ASSUME IInv, NEW p \in 1..Max, Release(p) PROVE IInv'
BY ScanAssumption DEF IInv, TypeOK, PassedTaken, Release

\* The branch for a pointer out of range is never taken.
LEMMA IterateCases == ASSUME IInv, Iterate PROVE pc = "scan" /\ (TakePort \/ SkipPort)
BY ScanAssumption DEF IInv, TypeOK, Iterate

\* The search loop keeps the pool's fields in range and every port behind it taken.
THEOREM Invariance == Spec => []IInv
<1>init. Init => IInv
  BY ScanAssumption DEF Init, IInv, TypeOK, PassedTaken
<1>step. ASSUME IInv, Next PROVE IInv'
  BY <1>step, IterateCases, TakeKeeps, SkipKeeps, CallKeeps, RefuseKeeps, ReleaseKeeps DEF Next
<1>rest. ASSUME IInv, UNCHANGED vars PROVE IInv'
  BY <1>rest DEF vars, IInv, TypeOK, PassedTaken
<1>. QED
  BY <1>init, <1>step, <1>rest, PTL DEF Spec

\* The pool's fields and the locals of a search stay in range.
THEOREM TypeCorrect == Spec => []TypeOK
<1>1. IInv => TypeOK
  BY DEF IInv
<1>2. QED
  BY <1>1, Invariance, PTL

\* A search never leaves a free port behind it.
THEOREM NeverPassesFree == Spec => []PassedTaken
<1>1. IInv => PassedTaken
  BY DEF IInv
<1>2. QED
  BY <1>1, Invariance, PTL

---------------------------------------------------------------------------
(* What the loop does is what the atomic pool promises. *)

\* The per-IP pool's count reaches its limit only when every port is taken.
LEMMA LimitMeansFull ==
    ASSUME TypeOK, Cardinality(allocated) >= Max
    PROVE  Full(allocated, Max)
<1>1. IsFiniteSet(1..Max) /\ Cardinality(1..Max) = Max
  BY ScanAssumption, FS_Interval
<1>2. /\ IsFiniteSet(allocated)
      /\ Cardinality(allocated) <= Cardinality(1..Max)
      /\ Cardinality(allocated) = Cardinality(1..Max) => allocated = 1..Max
  BY <1>1, FS_Subset DEF TypeOK
<1>3. Cardinality(allocated) \in Nat
  BY <1>2, FS_CardinalityType
<1>4. allocated = 1..Max
  BY <1>1, <1>2, <1>3, ScanAssumption
<1>5. QED
  BY <1>4 DEF Full

\* A pool that is at its limit is the one that has no port to give.
LEMMA RefuseSeen == ASSUME IInv, Refuse PROVE Pool!Exhausted
<1>1. Full(allocated, Max)
  BY LimitMeansFull DEF IInv, Refuse, AtLimit
<1>2. QED
  BY <1>1 DEF Refuse, Pool!Exhausted, Pool!Full, Full

\* The port that is taken is the first free one, since all before it were passed.
LEMMA TakeSeen == ASSUME IInv, pc = "scan", TakePort PROVE Pool!Allocate
<1>1. FirstFree(nextPort, allocated, start, Max)
  BY DEF IInv, TypeOK, TakePort, FirstFree, PassedTaken
<1>2. QED
  BY <1>1 DEF TakePort, IInv, TypeOK, Pool!Allocate, Pool!FirstFree, FirstFree,
              Pool!Wrap, Wrap, Pool!Ahead, Ahead

\* Skipping a port is not seen, unless it closes the lap.
LEMMA SkipSeen ==
    ASSUME IInv, pc = "scan", SkipPort
    PROVE  Pool!Exhausted \/ UNCHANGED Pool!poolVars
<1>1. CASE nextPort' = start
  <2>1. ASSUME NEW q \in 1..Max PROVE q \in allocated
    <3>1. q = nextPort \/ Ahead(start, q, Max) < Ahead(start, nextPort, Max)
      BY <1>1, LapClosed DEF IInv, TypeOK, SkipPort
    <3>2. QED
      BY <3>1 DEF IInv, PassedTaken, SkipPort
  <2>2. Full(allocated, Max)
    BY <2>1 DEF Full
  <2>3. QED
    BY <1>1, <2>2 DEF SkipPort, Pool!Exhausted, Pool!Full, Full
<1>2. CASE nextPort' # start
  BY <1>2 DEF SkipPort, Pool!poolVars
<1>3. QED
  BY <1>1, <1>2

\* A step of the loop is a step of the pool or none.
LEMMA NextSeen == ASSUME IInv, Next PROVE [Pool!PoolNext]_(Pool!poolVars)
<1>1. CASE Call
  BY <1>1 DEF Call, Pool!poolVars
<1>2. CASE Refuse
  BY <1>2, RefuseSeen DEF Pool!PoolNext
<1>3. CASE Iterate
  BY <1>3, IterateCases, TakeSeen, SkipSeen DEF Pool!PoolNext
<1>4. CASE \E p \in 1..Max : Release(p)
  BY <1>4 DEF Release, Pool!Release, Pool!PoolNext
<1>5. QED
  BY <1>1, <1>2, <1>3, <1>4 DEF Next

\* The loop implements the atomic pool: it returns the first free port in
\* rotation and fails only when there is none.
THEOREM ScanImplementsPool == Spec => ImplementsPool
<1>init. Init => Pool!PoolInit
  BY DEF Init, Pool!PoolInit
<1>rest. UNCHANGED vars => UNCHANGED Pool!poolVars
  BY DEF vars, Pool!poolVars
<1>. QED
  BY <1>init, <1>rest, NextSeen, Invariance, PTL DEF Spec, ImplementsPool, Pool!PoolSpec
====
