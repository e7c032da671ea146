---- MODULE CurlQueue_proofs ----
(***************************************************************************)
(* A request that curlrq_add accepts is in one place until its callback,   *)
(* which is called once, and no cleanup loses one: for any number of       *)
(* requests and threads and any length of the queue.                       *)
(*                                                                         *)
(* HeldOnce counts places; Count says how one operation on a list of       *)
(* requests changes what it counts.  The rest of the invariant says what   *)
(* the worker's place tells about the lists.                               *)
(***************************************************************************)
EXTENDS CurlQueue, FiniteSetTheorems, SequenceTheorems, TLAPS

Count(s, r) == Cardinality(Positions(s, r))

\* What the worker holds, by where it stands.
WorkerHolds ==
    /\ thread_running <=> pc \notin {"none", "exited"}
    /\ hand # None <=> pc \in {"failed", "done"}
    /\ drained # <<>> => pc = "drain"
    /\ pc \in {"none", "drain", "exited"} => active_list = {}
    /\ pc \in {"drain", "exited"} => shutdown /\ queue = <<>>

\* Without a worker nothing accepted is due, and only then is a freed node queued.
NoneDue == pc = "none" => \A r \in Accepted : calls[r] = 1
DanglingRefused ==
    /\ dangling # {} => pc = "none"
    /\ \A r \in dangling : answer[r] = "-1"

\* Only a cleanup shuts down, and only a live engine drives transfers.
ShutByCleanup ==
    /\ engine \in {"none", "live"} => ~shutdown
    /\ engine = "closing" => shutdown
    /\ engine = "none" => max_concurrent = 0

IInv ==
    /\ TypeOK
    /\ WorkerHolds /\ NoneDue /\ DanglingRefused /\ ShutByCleanup
    /\ HeldOnce /\ CalledOnce
    /\ IsFiniteSet(active_list) /\ ConcurrencyBound

---------------------------------------------------------------------------
(* How often a request stands in a list *)

LEMMA CountType ==
    ASSUME NEW s \in Seq(Reqs), NEW r
    PROVE  /\ IsFiniteSet(Positions(s, r))
           /\ Count(s, r) \in Nat
<1>1. IsFiniteSet(1..Len(s))
  BY FS_Interval, LenProperties
<1>2. Positions(s, r) \in SUBSET (1..Len(s))
  BY DEF Positions
<1>3. IsFiniteSet(Positions(s, r))
  BY <1>1, <1>2, FS_Subset
<1>4. QED
  BY <1>3, FS_CardinalityType DEF Count

LEMMA CountEmpty == ASSUME NEW r PROVE Count(<<>>, r) = 0
<1>1. Positions(<<>>, r) = {}
  BY DEF Positions
<1>2. QED
  BY <1>1, FS_EmptySet DEF Count

LEMMA CountAppend ==
    ASSUME NEW s \in Seq(Reqs), NEW e \in Reqs, NEW r
    PROVE  Count(Append(s, e), r) = Count(s, r) + (IF e = r THEN 1 ELSE 0)
<1>1. Len(s) \in Nat /\ Len(Append(s, e)) = Len(s) + 1
  BY AppendProperties, LenProperties
<1>2. \A i \in 1..Len(s) : Append(s, e)[i] = s[i]
  BY AppendProperties
<1>3. Append(s, e)[Len(s) + 1] = e
  BY AppendProperties
<1>4. CASE e = r
  <2>1. Positions(Append(s, e), r) = Positions(s, r) \cup {Len(s) + 1}
    BY <1>1, <1>2, <1>3, <1>4 DEF Positions
  <2>2. Len(s) + 1 \notin Positions(s, r)
    BY <1>1 DEF Positions
  <2>3. QED
    BY <1>4, <2>1, <2>2, CountType, FS_AddElement DEF Count
<1>5. CASE e # r
  <2>1. Positions(Append(s, e), r) = Positions(s, r)
    BY <1>1, <1>2, <1>3, <1>5 DEF Positions
  <2>2. QED
    BY <1>5, <2>1, CountType DEF Count
<1>6. QED
  BY <1>4, <1>5

LEMMA CountTail ==
    ASSUME NEW s \in Seq(Reqs), s # <<>>, NEW r
    PROVE  Count(s, r) = Count(Tail(s), r) + (IF Head(s) = r THEN 1 ELSE 0)
<1>1. /\ Tail(s) \in Seq(Reqs) /\ Len(Tail(s)) = Len(s) - 1
      /\ \A i \in 1..Len(Tail(s)) : Tail(s)[i] = s[i + 1]
  BY HeadTailProperties
<1>2. Len(s) \in Nat /\ Len(s) > 0 /\ Head(s) = s[1]
  BY EmptySeq, LenProperties
<1>. DEFINE after == {i \in 2..Len(s) : s[i] = r}
            next == [i \in Positions(Tail(s), r) |-> i + 1]
<1>3. next \in [Positions(Tail(s), r) -> after]
  BY <1>1, <1>2 DEF Positions
<1>4. \A i, j \in Positions(Tail(s), r) : next[i] = next[j] => i = j
  BY <1>1, <1>2 DEF Positions
<1>5. \A i \in after : i - 1 \in Positions(Tail(s), r) /\ next[i - 1] = i
  BY <1>1, <1>2 DEF Positions
<1>6. next \in Bijection(Positions(Tail(s), r), after)
  <2>. HIDE DEF next, after
  <2>1. DOMAIN next = Positions(Tail(s), r)
    BY <1>3
  <2>2. \A i \in after : \E j \in Positions(Tail(s), r) : next[j] = i
    BY <1>5
  <2>3. QED
    BY <1>3, <1>4, <2>1, <2>2 DEF Bijection, Injection, Surjection, IsInjective
<1>7. ExistsBijection(Positions(Tail(s), r), after)
  BY <1>6 DEF ExistsBijection
<1>8. IsFiniteSet(after) /\ Cardinality(after) = Count(Tail(s), r) /\ Count(Tail(s), r) \in Nat
  <2>. HIDE DEF after, next
  <2>1. IsFiniteSet(Positions(Tail(s), r)) /\ Count(Tail(s), r) \in Nat
    BY <1>1, CountType
  <2>2. QED
    BY <1>7, <2>1, FS_Bijection DEF Count
<1>9. CASE Head(s) = r
  <2>1. Positions(s, r) = after \cup {1}
    BY <1>2, <1>9 DEF Positions
  <2>2. 1 \notin after
    OBVIOUS
  <2>. HIDE DEF after
  <2>3. QED
    BY <1>8, <1>9, <2>1, <2>2, FS_AddElement DEF Count
<1>10. CASE Head(s) # r
  <2>1. Positions(s, r) = after
    BY <1>2, <1>10 DEF Positions
  <2>. HIDE DEF after
  <2>2. QED
    BY <1>8, <1>10, <2>1 DEF Count
<1>11. QED
  BY <1>9, <1>10

---------------------------------------------------------------------------
(* Steps that leave the places of all requests alone *)

LEMMA PlacesSame ==
    ASSUME HeldOnce, CalledOnce, UNCHANGED <<queue, drained, active_list, hand, dangling, calls>>,
           Accepted' = Accepted
    PROVE  HeldOnce' /\ CalledOnce'
BY DEF HeldOnce, CalledOnce, Positions

\* The worker stands where it stood, with all it holds.
LEMMA QuietKeeps ==
    ASSUME IInv, TypeOK', ShutByCleanup',
           UNCHANGED <<thread_running, lists, pc, hand, drained, calls>>,
           \A r \in Reqs : answer[r] # "none" => answer'[r] = answer[r],
           \A r \in Reqs : answer'[r] = "0" => answer[r] = "0",
           shutdown => shutdown',
           max_concurrent <= max_concurrent'
    PROVE  IInv'
<1>1. Accepted' = Accepted
  BY DEF Accepted, IInv, TypeOK
<1>2. HeldOnce' /\ CalledOnce'
  BY <1>1, PlacesSame DEF IInv, lists
<1>3. WorkerHolds' /\ NoneDue'
  BY <1>1 DEF IInv, WorkerHolds, NoneDue, lists
<1>4. DanglingRefused'
  BY DEF IInv, DanglingRefused, TypeOK, lists
<1>5. IsFiniteSet(active_list)' /\ Cardinality(active_list) \in Nat
  BY FS_CardinalityType DEF IInv, lists
<1>6. max_concurrent \in Nat /\ max_concurrent' \in 0..CURLRQ_MAX_CONCURRENT
  BY DEF IInv, TypeOK, CURLRQ_MAX_CONCURRENT
<1>7. ConcurrencyBound'
  BY <1>5, <1>6 DEF IInv, ConcurrencyBound, curlrq_active, curlrq_pending, lists, CURLRQ_MAX_CONCURRENT
<1>8. QED
  BY <1>2, <1>3, <1>4, <1>5, <1>7 DEF IInv

LEMMA ConfigKeeps ==
    ASSUME QueueAssumption, IInv,
           \/ \E n \in Asked : curlrq_init(n)
           \/ \E n \in Limits : curlrq_set_max_queue_len(n)
           \/ \E o \in Options : curlrq_set_default(o)
    PROVE  IInv'
<1>1. UNCHANGED <<shutdown, thread_running, lists, worker, requests, waiter>>
  BY DEF curlrq_init, curlrq_set_max_queue_len, curlrq_set_default, flags
<1>2. max_queue_len' \in Limits \cup {0} /\ defaults' \subseteq Options
  BY DEF IInv, TypeOK, curlrq_init, curlrq_set_max_queue_len, curlrq_set_default, config, flags
<1>3. max_concurrent' \in 0..CURLRQ_MAX_CONCURRENT /\ max_concurrent <= max_concurrent'
  <2>1. max_concurrent \in 0..CURLRQ_MAX_CONCURRENT
    BY DEF IInv, TypeOK
  <2>2. ASSUME NEW n \in Asked, curlrq_init(n)
        PROVE  max_concurrent = 0 /\ max_concurrent' \in 0..CURLRQ_MAX_CONCURRENT
    <3>1. max_concurrent = 0 /\ max_concurrent' = Clamp(n) /\ n \in Int
      BY <2>2 DEF IInv, ShutByCleanup, curlrq_init, QueueAssumption
    <3>2. QED
      BY <3>1 DEF Clamp, CURLRQ_MAX_CONCURRENT
  <2>3. QED
    BY <2>1, <2>2 DEF curlrq_set_max_queue_len, curlrq_set_default, CURLRQ_MAX_CONCURRENT
<1>4. ShutByCleanup' /\ engine' \in {"none", "live"}
  BY DEF IInv, ShutByCleanup, curlrq_init, curlrq_set_max_queue_len, curlrq_set_default, flags
<1>5. TypeOK'
  BY <1>1, <1>2, <1>3, <1>4 DEF IInv, TypeOK, lists, worker, requests
<1>6. QED
  BY <1>1, <1>3, <1>4, <1>5, QuietKeeps DEF worker, requests

\* A broadcast keeps the threads' types.
LEMMA BroadcastType == ASSUME TypeOK, Broadcast PROVE
    /\ woken' \in BOOLEAN
    /\ waiter' \in [Waiters -> {"idle", "waiting", "woken", "returned"}]
BY DEF TypeOK, Broadcast

\* Calls that change no list: a refusal, a wait, the stages of a cleanup.
LEMMA CallerKeeps ==
    ASSUME IInv,
           \/ \E r \in Reqs : answer[r] = "none" /\ Refuse(r)
           \/ \E w \in Waiters : curlrq_wait(w)
           \/ curlrq_cleanup \/ Joined \/ FreeEngine \/ Corrupt
    PROVE  IInv'
<1>1. UNCHANGED <<thread_running, config, lists, pc, hand, drained, opts, body, calls, result>>
  BY DEF Refuse, curlrq_wait, curlrq_cleanup, Joined, FreeEngine, Corrupt, Broadcast,
         flags, worker, requests
<1>2. /\ \A r \in Reqs : answer[r] # "none" => answer'[r] = answer[r]
      /\ \A r \in Reqs : answer'[r] = "0" => answer[r] = "0"
      /\ answer' \in [Reqs -> {"none", "0", "-1"}]
  BY DEF IInv, TypeOK, Refuse, curlrq_wait, curlrq_cleanup, Joined, FreeEngine, Corrupt, requests
<1>3. /\ engine' \in {"none", "live", "closing", "freeing", "freed", "undefined"}
      /\ shutdown' \in BOOLEAN /\ (shutdown => shutdown')
      /\ ShutByCleanup'
  <2>. USE DEF ShutByCleanup
  <2>1. TypeOK /\ ShutByCleanup /\ max_concurrent' = max_concurrent
    BY <1>1 DEF IInv, config
  <2>2. ASSUME NEW r \in Reqs, Refuse(r) PROVE engine' = engine /\ shutdown' = shutdown
    BY <2>2 DEF Refuse, flags
  <2>3. ASSUME NEW w \in Waiters, curlrq_wait(w) PROVE engine' = engine /\ shutdown' = shutdown
    BY <2>3 DEF curlrq_wait, flags
  <2>4. CASE curlrq_cleanup
    <3>1. CASE thread_running
      BY <2>1, <2>4, <3>1 DEF TypeOK, curlrq_cleanup
    <3>2. CASE ~thread_running
      BY <2>1, <2>4, <3>2 DEF TypeOK, curlrq_cleanup
    <3>3. QED
      BY <3>1, <3>2
  <2>5. CASE Joined
    BY <2>1, <2>5 DEF TypeOK, Joined
  <2>6. CASE FreeEngine
    BY <2>1, <2>6 DEF TypeOK, FreeEngine
  <2>7. CASE Corrupt
    BY <2>1, <2>7 DEF TypeOK, Corrupt
  <2>8. CASE engine' = engine /\ shutdown' = shutdown
    BY <2>1, <2>8 DEF TypeOK
  <2>9. QED
    BY <2>2, <2>3, <2>4, <2>5, <2>6, <2>7, <2>8
<1>4. woken' \in BOOLEAN /\ waiter' \in [Waiters -> {"idle", "waiting", "woken", "returned"}]
  BY BroadcastType DEF IInv, TypeOK, Refuse, curlrq_wait, curlrq_cleanup, Joined, FreeEngine, Corrupt,
     worker, requests
<1>5. TypeOK'
  BY <1>1, <1>2, <1>3, <1>4 DEF IInv, TypeOK, config, lists
<1>6. max_concurrent \in Nat
  BY DEF IInv, TypeOK, CURLRQ_MAX_CONCURRENT
<1>7. QED
  BY <1>1, <1>2, <1>3, <1>5, <1>6, QuietKeeps DEF config

---------------------------------------------------------------------------
(* Adding a request *)

\* A request that had no answer is in no place, and one added is in the queue.
LEMMA EnqueueKeeps ==
    ASSUME IInv, NEW r \in Reqs, NEW own \in SUBSET Options, answer[r] = "none", Enqueue(r, own)
    PROVE  /\ queue' \in Seq(Reqs) /\ queue_len' = Len(queue') /\ queue_len' \in Nat
           /\ opts' \in [Reqs -> SUBSET Options]
           /\ r \notin dangling /\ calls[r] = 0
           /\ Count(queue, r) + Count(drained, r)
                + (IF r \in active_list THEN 1 ELSE 0) + (IF hand = r THEN 1 ELSE 0) = 0
           /\ \A x \in Reqs : Count(queue', x) = Count(queue, x) + (IF r = x THEN 1 ELSE 0)
<1>1. queue \in Seq(Reqs) /\ queue' = Append(queue, r)
  BY DEF IInv, TypeOK, Enqueue
<1>2. queue' \in Seq(Reqs) /\ Len(queue') = Len(queue) + 1 /\ Len(queue) \in Nat
  BY <1>1, AppendProperties, LenProperties
<1>3. queue_len' = Len(queue') /\ queue_len' \in Nat
  BY <1>2 DEF IInv, TypeOK, ConcurrencyBound, curlrq_pending, Enqueue
<1>4. r \notin dangling /\ r \notin Accepted
  BY DEF IInv, DanglingRefused, Accepted
<1>5. calls[r] = 0
  BY <1>4 DEF IInv, TypeOK, CalledOnce
<1>6. opts' \in [Reqs -> SUBSET Options]
  BY DEF IInv, TypeOK, Enqueue, Inherited
<1>7. QED
  BY <1>1, <1>2, <1>3, <1>4, <1>5, <1>6, CountAppend DEF IInv, HeldOnce, Count

\* What is counted in a list stands in it.
LEMMA CountedStands ==
    ASSUME NEW s \in Seq(Reqs), NEW r, Count(s, r) # 0
    PROVE  \E i \in 1..Len(s) : s[i] = r
<1>1. Positions(s, r) # {}
  BY FS_EmptySet DEF Count
<1>2. QED
  BY <1>1 DEF Positions

\* A freed node is still on the queue.
LEMMA DanglingQueued == ASSUME QueueAssumption, IInv, dangling # {} PROVE Touched
<1>1. PICK x \in Reqs : x \in dangling
  BY DEF IInv, TypeOK
<1>2. pc = "none" /\ active_list = {} /\ hand = None /\ drained = <<>>
  BY DEF IInv, DanglingRefused, WorkerHolds
<1>3. Count(queue, x) + Count(drained, x)
        + (IF x \in active_list THEN 1 ELSE 0) + (IF hand = x THEN 1 ELSE 0) = 1
  BY <1>1 DEF IInv, HeldOnce, Count
<1>4. Count(drained, x) = 0 /\ Count(queue, x) \in Nat /\ queue \in Seq(Reqs)
  BY <1>2, CountEmpty, CountType DEF IInv, TypeOK
<1>5. hand # x /\ x \notin active_list
  BY <1>1, <1>2 DEF QueueAssumption
<1>6. Count(queue, x) # 0
  BY <1>3, <1>4, <1>5
<1>7. PICK i \in 1..Len(queue) : queue[i] = x
  BY <1>4, <1>6, CountedStands
<1>8. QED
  BY <1>1, <1>7 DEF Touched

LEMMA AcceptKeeps ==
    ASSUME QueueAssumption, IInv, NEW r \in Reqs, NEW own \in SUBSET Options,
           answer[r] = "none", ~Touched, Accept(r, own)
    PROVE  IInv'
<1>1. /\ ~shutdown /\ Enqueue(r, own)
      /\ answer' = [answer EXCEPT ![r] = "0"] /\ thread_running' = TRUE
      /\ UNCHANGED <<engine, shutdown, config, dangling, active_list, hand, drained, body, calls, result>>
  BY DEF Accept
<1>2. /\ pc' = IF thread_running THEN pc ELSE "top"
      /\ woken' \in BOOLEAN
      /\ waiter' \in [Waiters -> {"idle", "waiting", "woken", "returned"}]
  BY BroadcastType DEF IInv, TypeOK, Accept
<1>3. dangling = {}
  BY DanglingQueued
<1>4. /\ queue' \in Seq(Reqs) /\ queue_len' = Len(queue') /\ queue_len' \in Nat
      /\ opts' \in [Reqs -> SUBSET Options]
      /\ calls[r] = 0
      /\ Count(queue, r) + Count(drained, r)
           + (IF r \in active_list THEN 1 ELSE 0) + (IF hand = r THEN 1 ELSE 0) = 0
      /\ \A x \in Reqs : Count(queue', x) = Count(queue, x) + (IF r = x THEN 1 ELSE 0)
  BY <1>1, EnqueueKeeps
<1>5. TypeOK'
  BY <1>1, <1>2, <1>4 DEF IInv, TypeOK, config
<1>6. pc \notin {"drain", "exited"} /\ pc' \notin {"none", "drain", "exited"}
  BY <1>1, <1>2 DEF IInv, WorkerHolds
<1>7. WorkerHolds' /\ NoneDue'
  BY <1>1, <1>2, <1>6 DEF IInv, WorkerHolds, NoneDue
<1>8. DanglingRefused'
  BY <1>1, <1>3 DEF DanglingRefused
<1>9. ShutByCleanup'
  BY <1>1 DEF IInv, ShutByCleanup, config
<1>10. Accepted' = Accepted \cup {r}
  BY <1>1 DEF Accepted, IInv, TypeOK
<1>11. \A x \in Reqs : Count(queue, x) \in Nat /\ Count(drained, x) \in Nat
  BY CountType DEF IInv, TypeOK
<1>12. HeldOnce'
  <2>1. SUFFICES ASSUME NEW x \in Reqs
                 PROVE  Count(queue', x) + Count(drained', x)
                          + (IF x \in active_list' THEN 1 ELSE 0) + (IF hand' = x THEN 1 ELSE 0)
                        = IF (x \in Accepted' /\ calls'[x] = 0) \/ x \in dangling' THEN 1 ELSE 0
    BY DEF HeldOnce, Count
  <2>2. CASE x = r
    BY <1>1, <1>4, <1>10, <1>11, <2>2
  <2>3. CASE x # r
    <3>1. Count(queue', x) = Count(queue, x)
      BY <1>4, <1>11, <2>3
    <3>2. (x \in Accepted') <=> (x \in Accepted)
      BY <1>10, <2>3
    <3>3. Count(queue, x) + Count(drained, x)
            + (IF x \in active_list THEN 1 ELSE 0) + (IF hand = x THEN 1 ELSE 0)
          = IF (x \in Accepted /\ calls[x] = 0) \/ x \in dangling THEN 1 ELSE 0
      BY DEF IInv, HeldOnce, Count
    <3>4. QED
      BY <1>1, <3>1, <3>2, <3>3
  <2>4. QED
    BY <2>2, <2>3
<1>13. CalledOnce'
  BY <1>1, <1>10 DEF IInv, CalledOnce
<1>14. IsFiniteSet(active_list)' /\ ConcurrencyBound'
  BY <1>1, <1>4 DEF IInv, ConcurrencyBound, curlrq_active, curlrq_pending, config
<1>15. QED
  BY <1>5, <1>7, <1>8, <1>9, <1>12, <1>13, <1>14 DEF IInv

LEMMA CreateThreadFailsKeeps ==
    ASSUME QueueAssumption, IInv, NEW r \in Reqs, NEW own \in SUBSET Options,
           answer[r] = "none", CreateThreadFails(r, own)
    PROVE  IInv'
<1>1. /\ ~shutdown /\ ~thread_running /\ Enqueue(r, own)
      /\ answer' = [answer EXCEPT ![r] = "-1"] /\ dangling' = dangling \cup {r}
      /\ UNCHANGED <<flags, config, active_list, worker, body, calls, result, waiter>>
  BY DEF CreateThreadFails
<1>2. pc = "none"
  BY <1>1 DEF IInv, WorkerHolds
<1>3. /\ queue' \in Seq(Reqs) /\ queue_len' = Len(queue') /\ queue_len' \in Nat
      /\ opts' \in [Reqs -> SUBSET Options]
      /\ Count(queue, r) + Count(drained, r)
           + (IF r \in active_list THEN 1 ELSE 0) + (IF hand = r THEN 1 ELSE 0) = 0
      /\ \A x \in Reqs : Count(queue', x) = Count(queue, x) + (IF r = x THEN 1 ELSE 0)
  BY <1>1, EnqueueKeeps
<1>4. TypeOK'
  BY <1>1, <1>3 DEF IInv, TypeOK, config, flags, worker
<1>5. Accepted' = Accepted
  BY <1>1 DEF Accepted, IInv, TypeOK
<1>6. WorkerHolds' /\ NoneDue'
  BY <1>1, <1>2, <1>5 DEF IInv, WorkerHolds, NoneDue, flags, worker
<1>7. DanglingRefused'
  BY <1>1, <1>2 DEF IInv, DanglingRefused, TypeOK, worker
<1>8. ShutByCleanup'
  BY <1>1 DEF IInv, ShutByCleanup, config, flags
<1>9. \A x \in Reqs : Count(queue, x) \in Nat /\ Count(drained, x) \in Nat
  BY CountType DEF IInv, TypeOK
<1>10. HeldOnce'
  <2>1. SUFFICES ASSUME NEW x \in Reqs
                 PROVE  Count(queue', x) + Count(drained', x)
                          + (IF x \in active_list' THEN 1 ELSE 0) + (IF hand' = x THEN 1 ELSE 0)
                        = IF (x \in Accepted' /\ calls'[x] = 0) \/ x \in dangling' THEN 1 ELSE 0
    BY DEF HeldOnce, Count
  <2>2. drained' = drained /\ hand' = hand /\ active_list' = active_list /\ calls' = calls
    BY <1>1 DEF worker
  <2>3. CASE x = r
    BY <1>1, <1>3, <1>9, <2>2, <2>3
  <2>4. CASE x # r
    <3>1. Count(queue', x) = Count(queue, x)
      BY <1>3, <1>9, <2>4
    <3>2. Count(queue, x) + Count(drained, x)
            + (IF x \in active_list THEN 1 ELSE 0) + (IF hand = x THEN 1 ELSE 0)
          = IF (x \in Accepted /\ calls[x] = 0) \/ x \in dangling THEN 1 ELSE 0
      BY DEF IInv, HeldOnce, Count
    <3>3. QED
      BY <1>1, <1>5, <2>2, <2>4, <3>1, <3>2
  <2>5. QED
    BY <2>3, <2>4
<1>11. CalledOnce'
  BY <1>1, <1>5 DEF IInv, CalledOnce
<1>12. IsFiniteSet(active_list)' /\ ConcurrencyBound'
  BY <1>1, <1>3 DEF IInv, ConcurrencyBound, curlrq_active, curlrq_pending, config
<1>13. QED
  BY <1>4, <1>6, <1>7, <1>8, <1>10, <1>11, <1>12 DEF IInv

LEMMA AddKeeps ==
    ASSUME QueueAssumption, IInv, NEW r \in Reqs, NEW own \in SUBSET Options, curlrq_add(r, own)
    PROVE  IInv'
<1>1. CASE Corrupt
  BY <1>1, CallerKeeps
<1>2. CASE Refuse(r)
  BY <1>2, CallerKeeps DEF curlrq_add
<1>3. CASE Accept(r, own) /\ ~Touched
  BY <1>3, AcceptKeeps DEF curlrq_add
<1>4. CASE CreateThreadFails(r, own)
  BY <1>4, CreateThreadFailsKeeps DEF curlrq_add
<1>5. QED
  BY <1>1, <1>2, <1>3, <1>4 DEF curlrq_add, Accept

---------------------------------------------------------------------------
(* The worker *)

Place(r) ==
    Count(queue, r) + Count(drained, r)
      + (IF r \in active_list THEN 1 ELSE 0) + (IF hand = r THEN 1 ELSE 0)

LEMMA PlaceIs ==
    ASSUME IInv, dangling = {}, NEW r \in Reqs
    PROVE  /\ Place(r) = IF r \in Accepted /\ calls[r] = 0 THEN 1 ELSE 0
           /\ Count(queue, r) \in Nat /\ Count(drained, r) \in Nat
<1>1. Count(queue, r) \in Nat /\ Count(drained, r) \in Nat
  BY CountType DEF IInv, TypeOK
<1>2. QED
  BY <1>1 DEF IInv, HeldOnce, Place, Count

\* A request that changes its place keeps one.
LEMMA MoveKeeps ==
    ASSUME IInv, dangling = {}, UNCHANGED <<answer, calls, dangling>>,
           \A x \in Reqs : Place(x)' = Place(x)
    PROVE  HeldOnce' /\ CalledOnce'
<1>1. Accepted' = Accepted
  BY DEF Accepted
<1>2. \A x \in Reqs : Place(x)' = IF x \in Accepted /\ calls[x] = 0 THEN 1 ELSE 0
  BY PlaceIs
<1>3. HeldOnce'
  BY <1>1, <1>2 DEF HeldOnce, Place, Count
<1>4. QED
  BY <1>1, <1>3 DEF IInv, CalledOnce

\* A request whose callback is called leaves its place.
LEMMA CallKeeps ==
    ASSUME IInv, dangling = {}, UNCHANGED dangling, NEW r \in Reqs, NEW code, Deliver(r, code),
           Place(r)' = Place(r) - 1, Place(r) # 0,
           \A x \in Reqs \ {r} : Place(x)' = Place(x)
    PROVE  HeldOnce' /\ CalledOnce'
<1>1. Accepted' = Accepted
  BY DEF Accepted, Deliver
<1>2. r \in Accepted /\ calls[r] = 0 /\ Place(r) = 1
  BY PlaceIs
<1>3. calls' = [calls EXCEPT ![r] = 1]
  BY <1>2 DEF Deliver, IInv, TypeOK
<1>4. CalledOnce'
  BY <1>1, <1>2, <1>3 DEF IInv, CalledOnce, TypeOK
<1>5. ASSUME NEW x \in Reqs
      PROVE  Place(x)' = IF x \in Accepted /\ calls'[x] = 0 THEN 1 ELSE 0
  <2>1. CASE x = r
    BY <1>2, <1>3, <2>1 DEF IInv, TypeOK
  <2>2. CASE x # r
    <3>1. Place(x) = IF x \in Accepted /\ calls[x] = 0 THEN 1 ELSE 0
      BY PlaceIs
    <3>2. QED
      BY <1>3, <2>2, <3>1 DEF IInv, TypeOK
  <2>3. QED
    BY <2>1, <2>2
<1>6. HeldOnce'
  BY <1>1, <1>5 DEF HeldOnce, Place, Count
<1>7. QED
  BY <1>4, <1>6

\* Where no request has a place, none is due.
LEMMA NothingDue ==
    ASSUME QueueAssumption, IInv, dangling = {},
           queue = <<>>, drained = <<>>, active_list = {}, hand = None
    PROVE  \A r \in Accepted : calls[r] = 1
<1>1. SUFFICES ASSUME NEW r \in Reqs, r \in Accepted PROVE calls[r] = 1
  BY DEF Accepted
<1>2. Place(r) = 0
  BY CountEmpty DEF Place, QueueAssumption
<1>3. calls[r] # 0
  BY <1>1, <1>2, PlaceIs
<1>4. QED
  BY <1>3 DEF IInv, CalledOnce, TypeOK

\* A step of the worker that moves no request.
LEMMA WorkerMoves ==
    ASSUME IInv, pc # "none",
           UNCHANGED <<engine, shutdown, config, lists, hand, drained, answer, calls>>,
           TypeOK', WorkerHolds', NoneDue'
    PROVE  IInv'
<1>1. dangling = {} /\ Accepted' = Accepted
  BY DEF IInv, DanglingRefused, Accepted
<1>2. HeldOnce' /\ CalledOnce'
  BY <1>1, PlacesSame DEF IInv, lists
<1>3. DanglingRefused' /\ ShutByCleanup'
  BY <1>1 DEF IInv, DanglingRefused, ShutByCleanup, lists, config
<1>4. IsFiniteSet(active_list)' /\ ConcurrencyBound'
  BY DEF IInv, ConcurrencyBound, curlrq_active, curlrq_pending, lists, config
<1>5. QED
  BY <1>2, <1>3, <1>4 DEF IInv

LEMMA QuietWorkerKeeps ==
    ASSUME QueueAssumption, IInv,
           \/ TakeMutex /\ ~drain_queue
           \/ WakeUp \/ IdleTimeout \/ StartLoopEnds \/ MultiWait \/ ThreadExits
           \/ \E r \in Reqs : write_body_cb(r)
    PROVE  IInv'
<1>1. pc \notin {"none", "exited", "failed", "done"} /\ hand = None /\ dangling = {}
  BY DEF TakeMutex, WakeUp, IdleTimeout, StartLoopEnds, MultiWait, ThreadExits, write_body_cb, Goto,
         IInv, WorkerHolds, DanglingRefused
<1>2. CASE TakeMutex /\ ~drain_queue
  <2>1. /\ UNCHANGED <<engine, shutdown, thread_running, config, lists, hand, drained, requests, waiter>>
        /\ pc = "top" /\ pc' \in {"idle", "multi", "starting"} /\ woken' \in BOOLEAN
    BY <1>2 DEF TakeMutex, Goto, flags, lists, IInv, TypeOK
  <2>2. TypeOK'
    BY <2>1 DEF IInv, TypeOK, config, lists, requests
  <2>3. WorkerHolds' /\ NoneDue'
    BY <1>1, <2>1 DEF IInv, WorkerHolds, NoneDue, lists
  <2>4. QED
    BY <1>1, <2>1, <2>2, <2>3, WorkerMoves DEF requests
<1>3. CASE WakeUp \/ StartLoopEnds \/ MultiWait
  <2>1. /\ UNCHANGED <<flags, config, lists, woken, hand, drained, requests, waiter>>
        /\ pc \in {"idle", "starting", "multi"} /\ pc' \in {"top", "multi"}
    BY <1>3 DEF WakeUp, StartLoopEnds, MultiWait, Goto
  <2>2. TypeOK'
    BY <2>1 DEF IInv, TypeOK, config, lists, requests, flags
  <2>3. WorkerHolds' /\ NoneDue'
    BY <1>1, <2>1 DEF IInv, WorkerHolds, NoneDue, lists, flags
  <2>4. QED
    BY <1>1, <2>1, <2>2, <2>3, WorkerMoves DEF requests, flags
<1>4. CASE IdleTimeout
  <2>1. UNCHANGED <<engine, shutdown, config, lists, woken, hand, drained, requests, waiter>>
    BY <1>4 DEF IdleTimeout
  <2>2. drained = <<>>
    BY <1>4 DEF IdleTimeout, IInv, WorkerHolds
  <2>3. CASE Idle
    <3>1. pc' = "none" /\ thread_running' = FALSE /\ queue = <<>> /\ active_list = {}
      BY <1>4, <2>3 DEF IdleTimeout, Idle
    <3>2. \A r \in Accepted : calls[r] = 1
      BY <1>1, <2>2, <3>1, NothingDue
    <3>3. TypeOK'
      BY <2>1, <3>1 DEF IInv, TypeOK, config, lists, requests
    <3>4. WorkerHolds' /\ NoneDue'
      BY <1>1, <2>1, <2>2, <3>1, <3>2 DEF WorkerHolds, NoneDue, lists, requests, Accepted
    <3>5. QED
      BY <1>1, <2>1, <3>3, <3>4, WorkerMoves DEF requests
  <2>4. CASE ~Idle
    <3>1. pc' = "top" /\ thread_running' = thread_running
      BY <1>4, <2>4 DEF IdleTimeout
    <3>2. TypeOK'
      BY <2>1, <3>1 DEF IInv, TypeOK, config, lists, requests
    <3>3. WorkerHolds' /\ NoneDue'
      BY <1>1, <2>1, <2>2, <3>1 DEF IInv, WorkerHolds, NoneDue, lists
    <3>4. QED
      BY <1>1, <2>1, <3>2, <3>3, WorkerMoves DEF requests
  <2>5. QED
    BY <2>3, <2>4
<1>5. CASE ThreadExits
  <2>1. /\ UNCHANGED <<engine, shutdown, config, lists, woken, hand, drained, requests, waiter>>
        /\ pc = "drain" /\ drained = <<>> /\ pc' = "exited" /\ thread_running' = FALSE
    BY <1>5 DEF ThreadExits, Goto
  <2>2. TypeOK'
    BY <2>1 DEF IInv, TypeOK, config, lists, requests
  <2>3. WorkerHolds' /\ NoneDue'
    BY <1>1, <2>1 DEF IInv, WorkerHolds, NoneDue, lists
  <2>4. QED
    BY <1>1, <2>1, <2>2, <2>3, WorkerMoves DEF requests
<1>6. ASSUME NEW r \in Reqs, write_body_cb(r) PROVE IInv'
  <2>1. UNCHANGED <<flags, config, lists, worker, answer, opts, calls, waiter>>
    BY <1>6 DEF write_body_cb
  <2>2. /\ body' \in [Reqs -> Nat]
        /\ result' \in [Reqs -> {"none", "OK", "WRITE_ERROR", "FAILED_INIT", "TIMEDOUT"}]
    <3>1. body \in [Reqs -> Nat] /\ \A x \in Reqs : body[x] \in Nat
      BY DEF IInv, TypeOK
    <3>2. result \in [Reqs -> {"none", "OK", "WRITE_ERROR", "FAILED_INIT", "TIMEDOUT"}]
      BY DEF IInv, TypeOK
    <3>3. \/ result' = [result EXCEPT ![r] = "WRITE_ERROR"] /\ body' = body
          \/ body' = [body EXCEPT ![r] = @ + 1] /\ result' = result
      BY <1>6 DEF write_body_cb
    <3>4. QED
      BY <3>1, <3>2, <3>3
  <2>3. TypeOK'
    BY <2>1, <2>2 DEF IInv, TypeOK, config, lists, flags, worker
  <2>4. WorkerHolds' /\ NoneDue'
    BY <1>1, <2>1 DEF IInv, WorkerHolds, NoneDue, lists, flags, worker, Accepted
  <2>5. QED
    BY <1>1, <2>1, <2>3, <2>4, WorkerMoves DEF flags, worker
<1>7. QED
  BY <1>2, <1>3, <1>4, <1>5, <1>6

\* Taking the head of the queue.
LEMMA DequeueMoves ==
    ASSUME IInv, Room, Dequeue
    PROVE  /\ Head(queue) \in Reqs
           /\ queue' \in Seq(Reqs) /\ queue_len' = Len(queue') /\ queue_len' \in Nat
           /\ \A x \in Reqs : Count(queue, x) = Count(queue', x) + (IF Head(queue) = x THEN 1 ELSE 0)
           /\ \A x \in Reqs : Count(queue', x) \in Nat
<1>1. queue \in Seq(Reqs) /\ queue # <<>> /\ queue' = Tail(queue)
  BY DEF IInv, TypeOK, Room, Dequeue
<1>2. Head(queue) \in Reqs /\ queue' \in Seq(Reqs) /\ Len(queue') = Len(queue) - 1
  BY <1>1, HeadTailProperties
<1>3. queue_len' = Len(queue') /\ queue_len' \in Nat
  BY <1>2, LenProperties DEF IInv, ConcurrencyBound, curlrq_pending, Dequeue
<1>4. QED
  BY <1>1, <1>2, <1>3, CountTail, CountType

LEMMA StartKeeps ==
    ASSUME QueueAssumption, IInv, start_request
    PROVE  IInv'
<1>. DEFINE r == Head(queue)
<1>1. /\ pc = "starting" /\ Room /\ Dequeue /\ active_list' = active_list \cup {r}
      /\ UNCHANGED <<flags, config, dangling, worker, requests, waiter>>
  BY DEF start_request
<1>2. dangling = {} /\ hand = None
  BY <1>1 DEF IInv, DanglingRefused, WorkerHolds
<1>3. /\ r \in Reqs
      /\ queue' \in Seq(Reqs) /\ queue_len' = Len(queue') /\ queue_len' \in Nat
      /\ \A x \in Reqs : Count(queue, x) = Count(queue', x) + (IF r = x THEN 1 ELSE 0)
      /\ \A x \in Reqs : Count(queue', x) \in Nat
  BY <1>1, DequeueMoves
<1>. HIDE DEF r
<1>4. r \notin active_list
  <2>1. Count(queue, r) >= 1 /\ Count(drained, r) \in Nat /\ Place(r) <= 1
    BY <1>2, <1>3, PlaceIs
  <2>2. hand # r
    BY <1>2, <1>3 DEF QueueAssumption
  <2>3. QED
    BY <2>1, <2>2, <1>3, PlaceIs DEF Place
<1>5. \A x \in Reqs : Place(x)' = Place(x)
  <2>1. drained' = drained /\ hand' = hand
    BY <1>1 DEF worker
  <2>2. ASSUME NEW x \in Reqs PROVE Place(x)' = Place(x)
    <3>1. Count(queue, x) = Count(queue', x) + (IF r = x THEN 1 ELSE 0) /\ Count(queue', x) \in Nat
      BY <1>3
    <3>2. Count(drained, x) \in Nat
      BY <1>2, PlaceIs
    <3>3. CASE r = x
      BY <1>1, <1>4, <2>1, <3>1, <3>2, <3>3 DEF Place
    <3>4. CASE r # x
      BY <1>1, <2>1, <3>1, <3>2, <3>4 DEF Place
    <3>5. QED
      BY <3>3, <3>4
  <2>3. QED
    BY <2>2
<1>6. HeldOnce' /\ CalledOnce'
  BY <1>1, <1>2, <1>5, MoveKeeps DEF requests
<1>7. TypeOK'
  BY <1>1, <1>3 DEF IInv, TypeOK, config, flags, worker, requests
<1>8. WorkerHolds' /\ NoneDue' /\ DanglingRefused' /\ ShutByCleanup'
  BY <1>1, <1>2 DEF IInv, WorkerHolds, NoneDue, DanglingRefused, ShutByCleanup, flags, worker, config
<1>9. IsFiniteSet(active_list)' /\ ConcurrencyBound'
  <2>1. IsFiniteSet(active_list') /\ Cardinality(active_list') = Cardinality(active_list) + 1
    BY <1>1, <1>4, FS_AddElement DEF IInv
  <2>2. Cardinality(active_list) \in Nat /\ Cardinality(active_list) < max_concurrent
    BY <1>1, FS_CardinalityType DEF IInv, Room
  <2>3. max_concurrent \in Nat /\ max_concurrent' = max_concurrent
    BY <1>1 DEF IInv, TypeOK, config, CURLRQ_MAX_CONCURRENT
  <2>4. QED
    BY <1>3, <2>1, <2>2, <2>3 DEF IInv, ConcurrencyBound, curlrq_active, curlrq_pending
<1>10. QED
  BY <1>6, <1>7, <1>8, <1>9 DEF IInv

LEMMA StartFailsKeeps ==
    ASSUME QueueAssumption, IInv, StartFails
    PROVE  IInv'
<1>. DEFINE r == Head(queue)
<1>1. /\ pc = "starting" /\ Room /\ Dequeue /\ hand' = r /\ pc' = "failed"
      /\ UNCHANGED <<flags, config, dangling, active_list, woken, drained, requests, waiter>>
  BY DEF StartFails
<1>2. dangling = {} /\ hand = None
  BY <1>1 DEF IInv, DanglingRefused, WorkerHolds
<1>3. /\ r \in Reqs
      /\ queue' \in Seq(Reqs) /\ queue_len' = Len(queue') /\ queue_len' \in Nat
      /\ \A x \in Reqs : Count(queue, x) = Count(queue', x) + (IF r = x THEN 1 ELSE 0)
      /\ \A x \in Reqs : Count(queue', x) \in Nat
  BY <1>1, DequeueMoves
<1>. HIDE DEF r
<1>4. ASSUME NEW x \in Reqs PROVE Place(x)' = Place(x)
  <2>1. Count(queue, x) = Count(queue', x) + (IF r = x THEN 1 ELSE 0) /\ Count(queue', x) \in Nat
    BY <1>3
  <2>2. Count(drained, x) \in Nat /\ hand # x
    BY <1>2, PlaceIs DEF QueueAssumption
  <2>3. CASE r = x
    BY <1>1, <2>1, <2>2, <2>3 DEF Place
  <2>4. CASE r # x
    BY <1>1, <2>1, <2>2, <2>4 DEF Place
  <2>5. QED
    BY <2>3, <2>4
<1>5. HeldOnce' /\ CalledOnce'
  BY <1>1, <1>2, <1>4, MoveKeeps DEF requests
<1>6. TypeOK'
  BY <1>1, <1>3 DEF IInv, TypeOK, config, flags, requests
<1>7. r # None
  BY <1>3 DEF QueueAssumption
<1>8. WorkerHolds' /\ NoneDue' /\ DanglingRefused' /\ ShutByCleanup'
  BY <1>1, <1>2, <1>7 DEF IInv, WorkerHolds, NoneDue, DanglingRefused, ShutByCleanup, flags, config
<1>9. IsFiniteSet(active_list)' /\ ConcurrencyBound'
  BY <1>1, <1>3 DEF IInv, ConcurrencyBound, curlrq_active, curlrq_pending, config
<1>10. QED
  BY <1>5, <1>6, <1>8, <1>9 DEF IInv

\* The callback of the request in the worker's hand.
LEMMA HandCallbackKeeps ==
    ASSUME QueueAssumption, IInv, FailedCallback \/ DoneCallback
    PROVE  IInv'
<1>1. hand \in Reqs
  BY DEF FailedCallback, DoneCallback, IInv, TypeOK, WorkerHolds
<1>2. PICK r \in Reqs : r = hand
  BY <1>1
<1>3. /\ pc \in {"failed", "done"} /\ hand' = None /\ pc' \in {"starting", "multi"}
      /\ UNCHANGED <<flags, config, lists, woken, drained, waiter>>
  BY DEF FailedCallback, DoneCallback
<1>4. PICK code \in {"none", "OK", "WRITE_ERROR", "FAILED_INIT", "TIMEDOUT"} : Deliver(r, code)
  BY <1>2 DEF IInv, TypeOK, FailedCallback, DoneCallback
<1>5. dangling = {} /\ drained = <<>> /\ r # None
  BY <1>3 DEF IInv, DanglingRefused, WorkerHolds, QueueAssumption
<1>6. Place(r)' = Place(r) - 1 /\ Place(r) # 0
  <2>1. Count(queue, r) \in Nat /\ Count(drained, r) \in Nat
    BY <1>5, PlaceIs
  <2>2. Place(r) = Count(queue, r) + Count(drained, r) + (IF r \in active_list THEN 1 ELSE 0) + 1
    BY <1>2 DEF Place
  <2>3. Place(r)' = Count(queue, r) + Count(drained, r) + (IF r \in active_list THEN 1 ELSE 0) + 0
    BY <1>3, <1>5 DEF Place, lists
  <2>4. QED
    BY <2>1, <2>2, <2>3
<1>7. ASSUME NEW x \in Reqs \ {r} PROVE Place(x)' = Place(x)
  <2>1. hand # x /\ hand' # x
    BY <1>2, <1>3, <1>7 DEF QueueAssumption
  <2>2. QED
    BY <1>3, <2>1 DEF Place, lists
<1>8. HeldOnce' /\ CalledOnce'
  BY <1>3, <1>4, <1>5, <1>6, <1>7, CallKeeps DEF lists
<1>9. /\ calls' \in [Reqs -> Nat]
      /\ result' \in [Reqs -> {"none", "OK", "WRITE_ERROR", "FAILED_INIT", "TIMEDOUT"}]
      /\ UNCHANGED <<answer, opts, body>>
  <2>1. /\ calls \in [Reqs -> Nat] /\ calls[r] \in Nat
        /\ result \in [Reqs -> {"none", "OK", "WRITE_ERROR", "FAILED_INIT", "TIMEDOUT"}]
    BY DEF IInv, TypeOK
  <2>2. QED
    BY <1>4, <2>1 DEF Deliver
<1>10. TypeOK'
  BY <1>3, <1>9 DEF IInv, TypeOK, config, flags, lists
<1>11. WorkerHolds' /\ NoneDue' /\ DanglingRefused' /\ ShutByCleanup'
  BY <1>3, <1>5, <1>9 DEF IInv, WorkerHolds, NoneDue, DanglingRefused, ShutByCleanup, flags, config, lists
<1>12. IsFiniteSet(active_list)' /\ ConcurrencyBound'
  BY <1>3 DEF IInv, ConcurrencyBound, curlrq_active, curlrq_pending, config, lists
<1>13. QED
  BY <1>8, <1>10, <1>11, <1>12 DEF IInv

LEMMA DrainKeeps ==
    ASSUME QueueAssumption, IInv, TakeMutex, drain_queue
    PROVE  IInv'
<1>1. /\ pc = "top" /\ shutdown /\ active_list = {}
      /\ drained' = queue /\ queue' = <<>> /\ queue_len' = 0 /\ pc' = "drain"
      /\ UNCHANGED <<woken, hand, flags, config, dangling, active_list, requests, waiter>>
  BY DEF TakeMutex, drain_queue
<1>2. dangling = {} /\ drained = <<>> /\ hand = None
  BY <1>1 DEF IInv, DanglingRefused, WorkerHolds
<1>3. ASSUME NEW x \in Reqs PROVE Place(x)' = Place(x)
  <2>1. Count(queue', x) = 0 /\ Count(drained, x) = 0 /\ Count(queue, x) \in Nat
    BY <1>1, <1>2, CountEmpty, PlaceIs
  <2>2. QED
    BY <1>1, <2>1 DEF Place
<1>4. HeldOnce' /\ CalledOnce'
  BY <1>1, <1>2, <1>3, MoveKeeps DEF requests
<1>5. queue' \in Seq(Reqs) /\ Len(queue') = 0
  BY <1>1, EmptySeq
<1>6. TypeOK'
  BY <1>1, <1>5 DEF IInv, TypeOK, config, flags, requests
<1>7. WorkerHolds' /\ NoneDue' /\ DanglingRefused' /\ ShutByCleanup'
  BY <1>1, <1>2 DEF IInv, WorkerHolds, NoneDue, DanglingRefused, ShutByCleanup, flags, config
<1>8. IsFiniteSet(active_list)' /\ ConcurrencyBound'
  BY <1>1, <1>5 DEF IInv, ConcurrencyBound, curlrq_active, curlrq_pending, config
<1>9. QED
  BY <1>4, <1>6, <1>7, <1>8 DEF IInv

LEMMA DrainCallbackKeeps ==
    ASSUME QueueAssumption, IInv, DrainCallback
    PROVE  IInv'
<1>1. /\ pc = "drain" /\ drained # <<>> /\ drained \in Seq(Reqs)
      /\ Deliver(Head(drained), "TIMEDOUT") /\ drained' = Tail(drained)
      /\ UNCHANGED <<flags, config, lists, pc, woken, hand, waiter>>
  BY DEF DrainCallback, IInv, TypeOK
<1>2. PICK r \in Reqs : r = Head(drained)
  BY <1>1, HeadTailProperties
<1>3. dangling = {} /\ drained' \in Seq(Reqs)
  BY <1>1, HeadTailProperties DEF IInv, DanglingRefused
<1>4. ASSUME NEW x \in Reqs
      PROVE  /\ Count(drained, x) = Count(drained', x) + (IF r = x THEN 1 ELSE 0)
             /\ Count(drained', x) \in Nat /\ Count(queue, x) \in Nat
  BY <1>1, <1>2, <1>3, CountTail, CountType, PlaceIs
<1>5. Place(r)' = Place(r) - 1 /\ Place(r) # 0
  <2>1. /\ Count(drained, r) = Count(drained', r) + 1
        /\ Count(drained', r) \in Nat /\ Count(queue, r) \in Nat
    BY <1>4
  <2>2. Place(r)' = Count(queue, r) + Count(drained', r)
                     + (IF r \in active_list THEN 1 ELSE 0) + (IF hand = r THEN 1 ELSE 0)
    BY <1>1 DEF Place, lists
  <2>3. QED
    BY <2>1, <2>2 DEF Place
<1>6. ASSUME NEW x \in Reqs \ {r} PROVE Place(x)' = Place(x)
  <2>1. Count(drained, x) = Count(drained', x)
    BY <1>4, <1>6
  <2>2. QED
    BY <1>1, <2>1 DEF Place, lists
<1>7. HeldOnce' /\ CalledOnce'
  BY <1>1, <1>2, <1>3, <1>5, <1>6, CallKeeps DEF lists
<1>8. /\ calls' \in [Reqs -> Nat]
      /\ result' \in [Reqs -> {"none", "OK", "WRITE_ERROR", "FAILED_INIT", "TIMEDOUT"}]
      /\ UNCHANGED <<answer, opts, body>>
  <2>1. /\ calls \in [Reqs -> Nat] /\ calls[r] \in Nat
        /\ result \in [Reqs -> {"none", "OK", "WRITE_ERROR", "FAILED_INIT", "TIMEDOUT"}]
    BY DEF IInv, TypeOK
  <2>2. QED
    BY <1>1, <1>2, <2>1 DEF Deliver
<1>9. TypeOK'
  BY <1>1, <1>3, <1>8 DEF IInv, TypeOK, config, flags, lists
<1>10. WorkerHolds' /\ NoneDue' /\ DanglingRefused' /\ ShutByCleanup'
  BY <1>1, <1>3, <1>8 DEF IInv, WorkerHolds, NoneDue, DanglingRefused, ShutByCleanup, flags, config, lists
<1>11. IsFiniteSet(active_list)' /\ ConcurrencyBound'
  BY <1>1 DEF IInv, ConcurrencyBound, curlrq_active, curlrq_pending, config, lists
<1>12. QED
  BY <1>7, <1>9, <1>10, <1>11 DEF IInv

LEMMA CompleteKeeps ==
    ASSUME QueueAssumption, IInv, NEW r \in Reqs, complete_request(r)
    PROVE  IInv'
<1>1. /\ pc = "multi" /\ r \in active_list /\ active_list' = active_list \ {r} /\ Broadcast
      /\ hand' = r /\ pc' = "done"
      /\ result' = [result EXCEPT ![r] = IF @ = "WRITE_ERROR" THEN @ ELSE "OK"]
      /\ UNCHANGED <<flags, config, queue, queue_len, dangling, drained, answer, opts, body, calls>>
  BY DEF complete_request, cleanup_active
<1>2. dangling = {} /\ hand = None /\ drained = <<>> /\ r # None
  BY <1>1 DEF IInv, DanglingRefused, WorkerHolds, QueueAssumption
<1>3. ASSUME NEW x \in Reqs PROVE Place(x)' = Place(x)
  <2>1. Count(queue, x) \in Nat /\ Count(drained, x) \in Nat /\ hand # x
    BY <1>2, PlaceIs DEF QueueAssumption
  <2>2. CASE x = r
    BY <1>1, <2>1, <2>2 DEF Place
  <2>3. CASE x # r
    BY <1>1, <2>1, <2>3 DEF Place
  <2>4. QED
    BY <2>2, <2>3
<1>4. HeldOnce' /\ CalledOnce'
  BY <1>1, <1>2, <1>3, MoveKeeps
<1>5. /\ woken' \in BOOLEAN
      /\ waiter' \in [Waiters -> {"idle", "waiting", "woken", "returned"}]
  BY <1>1, BroadcastType DEF IInv
<1>6. result' \in [Reqs -> {"none", "OK", "WRITE_ERROR", "FAILED_INIT", "TIMEDOUT"}]
  BY <1>1 DEF IInv, TypeOK
<1>7. TypeOK'
  BY <1>1, <1>5, <1>6 DEF IInv, TypeOK, config, flags
<1>8. WorkerHolds' /\ NoneDue' /\ DanglingRefused' /\ ShutByCleanup'
  BY <1>1, <1>2 DEF IInv, WorkerHolds, NoneDue, DanglingRefused, ShutByCleanup, flags, config
<1>9. IsFiniteSet(active_list)' /\ ConcurrencyBound'
  <2>1. IsFiniteSet(active_list') /\ Cardinality(active_list') = Cardinality(active_list) - 1
    BY <1>1, FS_RemoveElement DEF IInv
  <2>2. Cardinality(active_list) \in Nat
    BY FS_CardinalityType DEF IInv
  <2>3. max_concurrent \in Nat /\ max_concurrent' = max_concurrent
    BY <1>1 DEF IInv, TypeOK, config, CURLRQ_MAX_CONCURRENT
  <2>4. QED
    BY <1>1, <2>1, <2>2, <2>3 DEF IInv, ConcurrencyBound, curlrq_active, curlrq_pending, config
<1>10. QED
  BY <1>4, <1>7, <1>8, <1>9 DEF IInv

---------------------------------------------------------------------------
(* The theorems *)

LEMMA InitKeeps == ASSUME QueueAssumption, Init PROVE IInv
<1>1. <<>> \in Seq(Reqs) /\ Len(<<>>) = 0
  BY EmptySeq
<1>2. IsFiniteSet(active_list) /\ Cardinality(active_list) = 0
  BY FS_EmptySet DEF Init
<1>3. TypeOK
  <2>1. /\ queue \in Seq(Reqs) /\ drained \in Seq(Reqs) /\ queue_len \in Nat
        /\ max_concurrent \in 0..CURLRQ_MAX_CONCURRENT /\ max_queue_len \in Limits \cup {0}
    BY <1>1 DEF Init, CURLRQ_MAX_CONCURRENT
  <2>2. /\ defaults \subseteq Options /\ dangling \subseteq Reqs /\ active_list \subseteq Reqs
        /\ hand \in Reqs \cup {None}
        /\ shutdown \in BOOLEAN /\ thread_running \in BOOLEAN /\ woken \in BOOLEAN
    BY DEF Init
  <2>3. answer \in [Reqs -> {"none", "0", "-1"}] /\ opts \in [Reqs -> SUBSET Options]
    BY DEF Init
  <2>4. body \in [Reqs -> Nat] /\ calls \in [Reqs -> Nat]
    BY DEF Init
  <2>5. /\ result \in [Reqs -> {"none", "OK", "WRITE_ERROR", "FAILED_INIT", "TIMEDOUT"}]
        /\ waiter \in [Waiters -> {"idle", "waiting", "woken", "returned"}]
    BY DEF Init
  <2>6. QED
    BY <2>1, <2>2, <2>3, <2>4, <2>5 DEF Init, TypeOK
<1>4. WorkerHolds /\ NoneDue /\ DanglingRefused /\ ShutByCleanup
  BY DEF Init, WorkerHolds, NoneDue, DanglingRefused, ShutByCleanup, Accepted
<1>5. HeldOnce /\ CalledOnce
  <2>1. \A r \in Reqs : Count(<<>>, r) = 0
    BY CountEmpty
  <2>2. Accepted = {}
    BY DEF Init, Accepted
  <2>3. QED
    BY <2>1, <2>2 DEF Init, HeldOnce, CalledOnce, Count, QueueAssumption
<1>6. ConcurrencyBound
  BY <1>1, <1>2 DEF Init, ConcurrencyBound, curlrq_active, curlrq_pending, CURLRQ_MAX_CONCURRENT
<1>7. QED
  BY <1>2, <1>3, <1>4, <1>5, <1>6 DEF IInv

LEMMA CallerStepKeeps == ASSUME QueueAssumption, IInv, Caller PROVE IInv'
<1>1. ASSUME NEW r \in Reqs, NEW own \in SUBSET Options, curlrq_add(r, own) PROVE IInv'
  BY <1>1, AddKeeps
<1>2. QED
  BY <1>1, ConfigKeeps, CallerKeeps DEF Caller

LEMMA WorkerStepKeeps == ASSUME QueueAssumption, IInv, worker_thread \/ libcurl PROVE IInv'
BY QuietWorkerKeeps, DrainKeeps, StartKeeps, StartFailsKeeps, HandCallbackKeeps, DrainCallbackKeeps,
   CompleteKeeps DEF worker_thread, libcurl

LEMMA StutterKeeps == ASSUME IInv, UNCHANGED vars PROVE IInv'
<1>1. UNCHANGED <<flags, config, lists, worker, requests, waiter>>
  BY DEF vars
<1>2. TypeOK'
  BY <1>1 DEF IInv, TypeOK, flags, config, lists, worker, requests
<1>3. ShutByCleanup'
  BY <1>1 DEF IInv, ShutByCleanup, flags, config
<1>4. max_concurrent \in Nat
  BY DEF IInv, TypeOK, CURLRQ_MAX_CONCURRENT
<1>5. QED
  BY <1>1, <1>2, <1>3, <1>4, QuietKeeps DEF flags, config, worker, requests

LEMMA StepKeeps == ASSUME QueueAssumption, IInv, [Next]_vars PROVE IInv'
BY CallerStepKeeps, WorkerStepKeeps, StutterKeeps DEF Next, Finished

\* The invariant holds throughout.
THEOREM Invariance == ASSUME QueueAssumption PROVE Spec => []IInv
<1>1. Init => IInv
  BY InitKeeps
<1>2. IInv /\ [Next]_vars => IInv'
  BY StepKeeps
<1>3. QED
  BY <1>1, <1>2, PTL DEF Spec

\* Every variable of the engine has its type.
THEOREM TypeCorrect == ASSUME QueueAssumption PROVE Spec => []TypeOK
<1>1. IInv => TypeOK
  BY DEF IInv
<1>2. QED
  BY <1>1, Invariance, PTL

\* A request whose callback is due is in exactly one of the queue, the active
\* list, the worker's hand and the list drain_queue took.
THEOREM HeldOnceAlways == ASSUME QueueAssumption PROVE Spec => []HeldOnce
<1>1. IInv => HeldOnce
  BY DEF IInv
<1>2. QED
  BY <1>1, Invariance, PTL

\* No callback is called twice, or for a request that curlrq_add turned down.
THEOREM CalledOnceAlways == ASSUME QueueAssumption PROVE Spec => []CalledOnce
<1>1. IInv => CalledOnce
  BY DEF IInv
<1>2. QED
  BY <1>1, Invariance, PTL

\* The worker never starts more transfers than asked for, nor more than three,
\* and queue_len counts the nodes of the queue.
THEOREM ConcurrencyBoundAlways == ASSUME QueueAssumption PROVE Spec => []ConcurrencyBound
<1>1. IInv => ConcurrencyBound
  BY DEF IInv
<1>2. QED
  BY <1>1, Invariance, PTL

\* What IInv says of an engine without a worker.
LEMMA WorkHasWorker == ASSUME QueueAssumption, IInv PROVE WorkNeedsWorker
<1>1. ASSUME ~thread_running, dangling = {} PROVE queue = <<>> /\ active_list = {}
  <2>1. pc \in {"none", "exited"} /\ active_list = {} /\ hand = None /\ drained = <<>>
    BY <1>1 DEF IInv, WorkerHolds
  <2>2. CASE pc = "exited"
    BY <2>1, <2>2, <1>1 DEF IInv, WorkerHolds
  <2>3. CASE pc = "none"
    <3>1. SUFFICES ASSUME queue # <<>> PROVE FALSE
      BY <2>1
    <3>2. queue \in Seq(Reqs)
      BY <1>1 DEF IInv, TypeOK
    <3>3. PICK r \in Reqs : r = Head(queue)
      BY <3>1, <3>2, HeadTailProperties
    <3>4. Count(queue, r) # 0 /\ Count(queue, r) \in Nat
      <4>1. Tail(queue) \in Seq(Reqs)
        BY <3>1, <3>2, HeadTailProperties
      <4>2. Count(Tail(queue), r) \in Nat
        BY <4>1, CountType
      <4>3. Count(queue, r) = Count(Tail(queue), r) + 1
        BY <3>1, <3>2, <3>3, CountTail
      <4>4. QED
        BY <4>2, <4>3
    <3>5. Place(r) # 0
      BY <2>1, <3>4, CountEmpty DEF Place, QueueAssumption
    <3>6. r \in Accepted /\ calls[r] = 0
      BY <1>1, <3>5, PlaceIs
    <3>7. QED
      BY <1>1, <2>3, <3>6 DEF IInv, NoneDue
  <2>4. QED
    BY <2>1, <2>2, <2>3
<1>2. ASSUME ~thread_running PROVE active_list = {}
  BY <1>2 DEF IInv, WorkerHolds
<1>3. QED
  BY <1>1, <1>2 DEF WorkNeedsWorker, IInv, TypeOK

\* Work that waits has a worker: an idle worker leaves only an empty engine.
THEOREM WorkNeedsWorkerAlways == ASSUME QueueAssumption PROVE Spec => []WorkNeedsWorker
<1>1. IInv => WorkNeedsWorker
  BY WorkHasWorker
<1>2. QED
  BY <1>1, Invariance, PTL

---------------------------------------------------------------------------
(* What a cleanup leaves behind, where no curlrq_add races one that finds  *)
(* no thread.                                                              *)

\* One step calls no callback or one.
LEMMA CallsGrow ==
    ASSUME IInv, IInv', [Next]_vars, NEW r \in Reqs, calls[r] = 1
    PROVE  calls'[r] = 1
<1>1. calls' = calls \/ \E x, code : Deliver(x, code)
  BY DEF Next, Finished, Caller, worker_thread, libcurl, vars, requests,
         curlrq_init, curlrq_set_max_queue_len, curlrq_set_default, curlrq_add, Corrupt, Refuse, Accept,
         CreateThreadFails, curlrq_wait, curlrq_cleanup, Joined, FreeEngine,
         TakeMutex, WakeUp, IdleTimeout, start_request, StartFails, FailedCallback,
         StartLoopEnds, DoneCallback, MultiWait, DrainCallback, ThreadExits, write_body_cb, complete_request
<1>2. calls'[r] \in Nat /\ calls'[r] <= 1 /\ calls'[r] >= calls[r]
  BY <1>1 DEF IInv, TypeOK, CalledOnce, Deliver
<1>3. QED
  BY <1>2

\* The stages of a cleanup, and what stays refused meanwhile.
LEMMA CleanupStages ==
    ASSUME QueueAssumption, IInv, ~LateAdd, [Next]_vars, engine' \in {"freeing", "freed"}
    PROVE  \/ curlrq_cleanup /\ ~thread_running
           \/ Joined
           \/ engine \in {"freeing", "freed"}
BY DEF Next, Finished, Caller, worker_thread, libcurl, vars, flags,
       curlrq_init, curlrq_set_max_queue_len, curlrq_set_default, curlrq_add, Corrupt, Refuse, Accept,
       CreateThreadFails, curlrq_wait, curlrq_cleanup, Joined, FreeEngine,
       TakeMutex, WakeUp, IdleTimeout, start_request, StartFails, FailedCallback,
       StartLoopEnds, DoneCallback, MultiWait, DrainCallback, ThreadExits, write_body_cb, complete_request

LEMMA ClosedStep ==
    ASSUME IInv, ~LateAdd, [Next]_vars, engine \in {"closing", "freeing", "freed"}
    PROVE  Accepted' = Accepted
<1>1. ASSUME NEW r \in Reqs, NEW own \in SUBSET Options, curlrq_add(r, own)
      PROVE  Accepted' = Accepted
  <2>1. shutdown
    BY <1>1 DEF IInv, ShutByCleanup, curlrq_add, Usable
  <2>2. CASE Corrupt
    BY <2>2 DEF Corrupt, requests, Accepted
  <2>3. CASE Refuse(r)
    BY <1>1, <2>3 DEF Refuse, Accepted, curlrq_add, IInv, TypeOK
  <2>4. QED
    BY <1>1, <2>1, <2>2, <2>3 DEF curlrq_add, Accept, CreateThreadFails
<1>2. CASE answer' = answer
  BY <1>2 DEF Accepted
<1>3. answer' = answer \/ \E r \in Reqs, own \in SUBSET Options : curlrq_add(r, own)
  BY DEF Next, Finished, Caller, worker_thread, libcurl, vars, requests, Deliver,
         curlrq_init, curlrq_set_max_queue_len, curlrq_set_default, curlrq_wait, curlrq_cleanup, Joined,
         FreeEngine, TakeMutex, WakeUp, IdleTimeout, start_request, StartFails, FailedCallback,
         StartLoopEnds, DoneCallback, MultiWait, DrainCallback, ThreadExits, write_body_cb, complete_request
<1>4. QED
  BY <1>1, <1>2, <1>3

\* Once curlrq_cleanup has been called no request is accepted.
THEOREM ClosedRefusesAlways ==
    ASSUME QueueAssumption, ~LateAdd
    PROVE  Spec => ClosedRefuses
<1>1. IInv /\ [Next]_vars => [(engine \in {"closing", "freeing"}) => (Accepted' = Accepted)]_vars
  BY ClosedStep
<1>2. QED
  BY <1>1, Invariance, PTL DEF Spec, ClosedRefuses

\* A cleanup goes on only where nothing accepted is due any more.
LEMMA CleanupStep ==
    ASSUME QueueAssumption, IInv, IInv', ~LateAdd, CleanupLosesNothing, [Next]_vars
    PROVE  CleanupLosesNothing'
<1>1. SUFFICES ASSUME engine' \in {"freeing", "freed"}
               PROVE  \A r \in Accepted' : calls'[r] = 1
  BY DEF CleanupLosesNothing
<1>2. CASE curlrq_cleanup /\ ~thread_running
  <2>1. pc = "none" /\ UNCHANGED requests
    BY <1>2 DEF curlrq_cleanup, IInv, WorkerHolds, ShutByCleanup
  <2>2. QED
    BY <2>1 DEF IInv, NoneDue, requests, Accepted
<1>3. CASE Joined
  <2>1. pc = "exited" /\ UNCHANGED requests
    BY <1>3 DEF Joined
  <2>2. /\ dangling = {} /\ queue = <<>> /\ drained = <<>>
        /\ active_list = {} /\ hand = None
    BY <2>1 DEF IInv, WorkerHolds, DanglingRefused
  <2>3. \A r \in Accepted : calls[r] = 1
    BY <2>2, NothingDue
  <2>4. QED
    BY <2>1, <2>3 DEF requests, Accepted
<1>4. CASE engine \in {"freeing", "freed"}
  <2>1. Accepted' = Accepted /\ Accepted \subseteq Reqs
    BY <1>4, ClosedStep DEF Accepted
  <2>2. \A r \in Accepted : calls[r] = 1
    BY <1>4 DEF CleanupLosesNothing
  <2>3. QED
    BY <2>1, <2>2, CallsGrow
<1>5. QED
  BY <1>1, <1>2, <1>3, <1>4, CleanupStages

\* curlrq_cleanup frees the engine only after every accepted request was called
\* back: those in flight, and those drain_queue found never started.
THEOREM CleanupLosesNothingAlways ==
    ASSUME QueueAssumption, ~LateAdd
    PROVE  Spec => []CleanupLosesNothing
<1>1. Init => CleanupLosesNothing
  BY DEF Init, CleanupLosesNothing
<1>2. QED
  BY <1>1, CleanupStep, Invariance, PTL DEF Spec
====
