---- MODULE CurlQueue ----
(***************************************************************************)
(* The rolling request queue of curlrq/curlrq.c: callers add requests to a *)
(* queue under the engine's mutex, one lazily created worker thread moves  *)
(* them to libcurl's multi handle and calls each request's callback.       *)
(*                                                                         *)
(* A step is a stretch of code that holds the mutex, or one that runs      *)
(* without it.  The worker holds the mutex across its steps only while pc  *)
(* is "starting"; a thread in pthread_cond_wait is woken by a broadcast.   *)
(***************************************************************************)
EXTENDS Integers, Sequences, FiniteSets

CONSTANTS Reqs,         \* requests, each added at most once
          Waiters,      \* threads that call curlrq_wait
          Options,      \* the option fields of a request that are set somewhere
          Limits,       \* values given to curlrq_set_max_queue_len
          Asked,        \* values given to curlrq_init
          InitFails,    \* curl_easy_init or calloc may fail in start_request
          CreateFails,  \* pthread_create may fail
          LateAdd,      \* curlrq_add may race a curlrq_cleanup that finds no thread
          None

CURLRQ_MAX_CONCURRENT == 3

\* What an instance has to satisfy.
QueueAssumption ==
    /\ None \notin Reqs
    /\ Limits \subseteq Nat
    /\ Asked \subseteq Int
    /\ {InitFails, CreateFails, LateAdd} \subseteq BOOLEAN

VARIABLES
    engine,          \* none, live, closing (cleanup joins), freeing, freed; undefined after a use of freed memory
    max_concurrent,
    max_queue_len,   \* 0: no limit
    defaults,        \* the options set for the whole engine
    queue,           \* the requests behind queue_head
    queue_len,
    dangling,        \* queued nodes that have been freed
    active_list,     \* requests handed to libcurl
    shutdown,
    thread_running,
    pc,              \* where the worker stands; none: it does not exist
    woken,           \* a broadcast reached the worker's cond_timedwait
    hand,            \* the request whose callback the worker is about to call
    drained          \* requests that drain_queue has taken from the queue

VARIABLES
    answer,          \* what curlrq_add returned: none, 0 or -1
    opts,            \* the options a node was queued with
    body,            \* chunks of body received
    calls,           \* times a request's callback has been called
    result,          \* the curl_code its callback was given
    waiter           \* idle, waiting, woken or returned

worker == <<pc, woken, hand, drained>>
requests == <<answer, opts, body, calls, result>>
config == <<max_concurrent, max_queue_len, defaults>>
lists == <<queue, queue_len, dangling, active_list>>
flags == <<engine, shutdown, thread_running>>
vars == <<flags, config, lists, worker, requests, waiter>>

MutexFree == pc # "starting"
Usable == engine \in {"live", "closing"} \/ (engine = "freeing" /\ (LateAdd \/ shutdown))
Idle == queue = <<>> /\ active_list = {} /\ ~shutdown
Touched == {queue[i] : i \in 1..Len(queue)} \cap dangling # {}

Init ==
    /\ engine = "none" /\ shutdown = FALSE /\ thread_running = FALSE
    /\ max_concurrent = 0 /\ max_queue_len = 0 /\ defaults = {}
    /\ queue = <<>> /\ queue_len = 0 /\ dangling = {} /\ active_list = {}
    /\ pc = "none" /\ woken = FALSE /\ hand = None /\ drained = <<>>
    /\ answer = [r \in Reqs |-> "none"] /\ opts = [r \in Reqs |-> {}]
    /\ body = [r \in Reqs |-> 0] /\ calls = [r \in Reqs |-> 0]
    /\ result = [r \in Reqs |-> "none"]
    /\ waiter = [w \in Waiters |-> "idle"]

(***************************************************************************)
(* pthread_cond_broadcast: one condition serves the worker and the waiters.*)
(***************************************************************************)
Broadcast ==
    /\ woken' = (woken \/ pc = "idle")
    /\ waiter' = [w \in Waiters |-> IF waiter[w] = "waiting" THEN "woken" ELSE waiter[w]]

\* A list that still holds a freed node is walked.
Corrupt == engine' = "undefined" /\ UNCHANGED <<shutdown, thread_running, config, lists, worker, requests, waiter>>

---------------------------------------------------------------------------
\* The callers' operations.

Clamp_above_only(n) == IF n > CURLRQ_MAX_CONCURRENT THEN CURLRQ_MAX_CONCURRENT ELSE n

Clamp(n) == IF n < 1 THEN 1 ELSE IF n > CURLRQ_MAX_CONCURRENT THEN CURLRQ_MAX_CONCURRENT ELSE n

curlrq_init(n) ==
    /\ engine = "none"
    /\ engine' = "live"
    /\ max_concurrent' = Clamp(n)
    /\ UNCHANGED <<shutdown, thread_running, max_queue_len, defaults, lists, worker, requests, waiter>>

curlrq_set_max_queue_len(n) ==
    /\ engine = "live" /\ MutexFree
    /\ max_queue_len' = n
    /\ UNCHANGED <<flags, max_concurrent, defaults, lists, worker, requests, waiter>>

\* The four setters of the engine's defaults, on and off.
curlrq_set_default(o) ==
    /\ engine = "live" /\ MutexFree
    /\ defaults' = IF o \in defaults THEN defaults \ {o} ELSE defaults \cup {o}
    /\ UNCHANGED <<flags, max_concurrent, max_queue_len, lists, worker, requests, waiter>>

\* A field left at zero takes the engine's default.
Inherited(own) == own \cup defaults

Full == max_queue_len > 0 /\ queue_len >= max_queue_len

Refuse(r) ==
    /\ shutdown \/ Full
    /\ answer' = [answer EXCEPT ![r] = "-1"]
    /\ UNCHANGED <<flags, config, lists, worker, opts, body, calls, result, waiter>>

Enqueue(r, own) ==
    /\ queue' = Append(queue, r)
    /\ queue_len' = queue_len + 1
    /\ opts' = [opts EXCEPT ![r] = Inherited(own)]

\* The first request creates the worker, a later one wakes it.
Accept(r, own) ==
    /\ ~shutdown /\ ~Full
    /\ Enqueue(r, own)
    /\ answer' = [answer EXCEPT ![r] = "0"]
    /\ thread_running' = TRUE
    /\ IF thread_running THEN Broadcast /\ UNCHANGED pc
       ELSE pc' = "top" /\ woken' = FALSE /\ UNCHANGED waiter
    /\ UNCHANGED <<engine, shutdown, config, dangling, active_list, hand, drained, body, calls, result>>

\* pthread_create fails: the node is freed but not taken off the queue.
CreateThreadFails(r, own) ==
    /\ CreateFails /\ ~shutdown /\ ~Full /\ ~thread_running
    /\ Enqueue(r, own)
    /\ answer' = [answer EXCEPT ![r] = "-1"]
    /\ dangling' = dangling \cup {r}
    /\ UNCHANGED <<flags, config, active_list, worker, body, calls, result, waiter>>

curlrq_add(r, own) ==
    /\ Usable /\ MutexFree
    /\ answer[r] = "none"
    /\ IF Touched /\ ~shutdown /\ ~Full THEN Corrupt
       ELSE Refuse(r) \/ Accept(r, own) \/ CreateThreadFails(r, own)

\* curlrq_pending walks the queue; curlrq_active reads the counter.
curlrq_pending == Len(queue)
curlrq_active == Cardinality(active_list)

WaitOver == queue = <<>> /\ active_list = {}

curlrq_wait(w) ==
    /\ engine = "live" /\ MutexFree
    /\ waiter[w] \in {"idle", "woken"}
    /\ waiter' = [waiter EXCEPT ![w] = IF WaitOver THEN "returned" ELSE "waiting"]
    /\ UNCHANGED <<flags, config, lists, worker, requests>>

\* Whoever destroys the engine does not let other threads wait on it.
curlrq_cleanup ==
    /\ engine = "live" /\ MutexFree
    /\ \A w \in Waiters : waiter[w] \notin {"waiting", "woken"}
    /\ IF thread_running
       THEN engine' = "closing" /\ shutdown' = TRUE /\ Broadcast
       ELSE engine' = "freeing" /\ UNCHANGED <<shutdown, woken, waiter>>
    /\ UNCHANGED <<thread_running, config, lists, pc, hand, drained, requests>>

\* pthread_join returns.
Joined ==
    /\ engine = "closing" /\ pc = "exited"
    /\ engine' = "freeing"
    /\ UNCHANGED <<shutdown, thread_running, config, lists, worker, requests, waiter>>

FreeEngine ==
    /\ engine = "freeing"
    /\ engine' = "freed"
    /\ UNCHANGED <<shutdown, thread_running, config, lists, worker, requests, waiter>>

---------------------------------------------------------------------------
\* worker_thread.

Goto(next) == pc' = next /\ UNCHANGED <<woken, hand, drained>>

drain_forgets ==
    /\ shutdown /\ active_list = {}
    /\ drained' = <<>>
    /\ queue' = <<>> /\ queue_len' = 0
    /\ pc' = "drain" /\ UNCHANGED <<woken, hand>>

drain_queue ==
    /\ shutdown /\ active_list = {}
    /\ drained' = queue
    /\ queue' = <<>> /\ queue_len' = 0
    /\ pc' = "drain" /\ UNCHANGED <<woken, hand>>

\* The worker takes the mutex at the top of its loop.
TakeMutex ==
    /\ pc = "top"
    /\ \/ Idle /\ pc' = "idle" /\ woken' = FALSE /\ UNCHANGED <<queue, queue_len, hand, drained>>
       \/ shutdown /\ active_list # {} /\ Goto("multi") /\ UNCHANGED <<queue, queue_len>>
       \/ ~Idle /\ ~shutdown /\ Goto("starting") /\ UNCHANGED <<queue, queue_len>>
       \/ drain_queue
    /\ UNCHANGED <<flags, config, dangling, active_list, requests, waiter>>

WakeUp ==
    /\ pc = "idle" /\ woken
    /\ Goto("top")
    /\ UNCHANGED <<flags, config, lists, requests, waiter>>

IdleTimeout_unchecked ==
    /\ pc = "idle"
    /\ pc' = "none" /\ thread_running' = FALSE
    /\ UNCHANGED <<engine, shutdown, config, lists, woken, hand, drained, requests, waiter>>

\* Five seconds without work: the conditions are read again under the mutex.
IdleTimeout ==
    /\ pc = "idle"
    /\ IF Idle THEN pc' = "none" /\ thread_running' = FALSE
       ELSE pc' = "top" /\ UNCHANGED thread_running
    /\ UNCHANGED <<engine, shutdown, config, lists, woken, hand, drained, requests, waiter>>

Room == Cardinality(active_list) < max_concurrent /\ queue # <<>>

Dequeue == queue' = Tail(queue) /\ queue_len' = queue_len - 1

start_request ==
    /\ pc = "starting" /\ Room
    /\ Dequeue
    /\ active_list' = active_list \cup {Head(queue)}
    /\ UNCHANGED <<flags, config, dangling, worker, requests, waiter>>

\* start_request fails: the mutex is released for the callback.
StartFails ==
    /\ InitFails /\ pc = "starting" /\ Room
    /\ Dequeue
    /\ hand' = Head(queue)
    /\ pc' = "failed"
    /\ UNCHANGED <<flags, config, dangling, active_list, woken, drained, requests, waiter>>

Deliver(r, code) ==
    /\ calls' = [calls EXCEPT ![r] = @ + 1]
    /\ result' = [result EXCEPT ![r] = code]
    /\ UNCHANGED <<answer, opts, body>>

FailedCallback ==
    /\ pc = "failed"
    /\ Deliver(hand, "FAILED_INIT")
    /\ hand' = None /\ pc' = "starting"
    /\ UNCHANGED <<flags, config, lists, woken, drained, waiter>>

StartLoopEnds ==
    /\ pc = "starting" /\ ~Room
    /\ Goto(IF active_list = {} THEN "top" ELSE "multi")
    /\ UNCHANGED <<flags, config, lists, requests, waiter>>

\* A chunk arrives; one that would pass max_response_size (one chunk) aborts the transfer.
write_body_cb(r) ==
    /\ pc = "multi" /\ r \in active_list
    /\ body[r] < 2 /\ result[r] = "none"
    /\ IF "max_response_size" \in opts[r] /\ body[r] + 1 > 1
       THEN result' = [result EXCEPT ![r] = "WRITE_ERROR"] /\ UNCHANGED body
       ELSE body' = [body EXCEPT ![r] = @ + 1] /\ UNCHANGED result
    /\ UNCHANGED <<flags, config, lists, worker, answer, opts, calls, waiter>>

cleanup_active(r) == active_list' = active_list \ {r} /\ Broadcast

\* curl_multi_info_read returns a finished transfer; cleanup_active takes it off the list.
complete_request(r) ==
    /\ pc = "multi" /\ r \in active_list
    /\ cleanup_active(r)
    /\ hand' = r /\ pc' = "done"
    /\ result' = [result EXCEPT ![r] = IF @ = "WRITE_ERROR" THEN @ ELSE "OK"]
    /\ UNCHANGED <<flags, config, queue, queue_len, dangling, drained, answer, opts, body, calls>>

\* The callback of a finished transfer, without the mutex.
DoneCallback ==
    /\ pc = "done"
    /\ Deliver(hand, result[hand])
    /\ hand' = None /\ pc' = "multi"
    /\ UNCHANGED <<flags, config, lists, woken, drained, waiter>>

\* No more finished transfers: curl_multi_wait, then the top of the loop.
MultiWait ==
    /\ pc = "multi"
    /\ Goto("top")
    /\ UNCHANGED <<flags, config, lists, requests, waiter>>

DrainCallback ==
    /\ pc = "drain" /\ drained # <<>>
    /\ Deliver(Head(drained), "TIMEDOUT")
    /\ drained' = Tail(drained)
    /\ UNCHANGED <<flags, config, lists, pc, woken, hand, waiter>>

ThreadExits ==
    /\ pc = "drain" /\ drained = <<>>
    /\ thread_running' = FALSE
    /\ Goto("exited")
    /\ UNCHANGED <<engine, shutdown, config, lists, requests, waiter>>

worker_thread ==
    \/ TakeMutex \/ WakeUp \/ IdleTimeout \/ start_request \/ StartFails \/ FailedCallback
    \/ StartLoopEnds \/ DoneCallback \/ MultiWait \/ DrainCallback \/ ThreadExits

\* Nothing is left to do: the engine is freed, or what follows is undefined.
Finished == engine \in {"freed", "undefined"} /\ UNCHANGED vars

Caller ==
    \/ \E n \in Asked : curlrq_init(n)
    \/ \E n \in Limits : curlrq_set_max_queue_len(n)
    \/ \E o \in Options : curlrq_set_default(o)
    \/ \E r \in Reqs, own \in SUBSET Options : curlrq_add(r, own)
    \/ \E w \in Waiters : curlrq_wait(w)
    \/ curlrq_cleanup \/ Joined \/ FreeEngine

libcurl == \E r \in Reqs : write_body_cb(r) \/ complete_request(r)

Next ==
    \/ engine # "undefined" /\ (Caller \/ worker_thread \/ libcurl)
    \/ Finished

\* Every transfer ends, because the server answers or a timeout is set, and
\* curl_multi_info_read reports it; threads that can run do run.
Fairness ==
    /\ WF_vars(worker_thread) /\ WF_vars(Joined) /\ WF_vars(FreeEngine)
    /\ \A r \in Reqs : SF_vars(complete_request(r))
    /\ \A w \in Waiters : WF_vars(waiter[w] = "woken" /\ curlrq_wait(w))

Spec == Init /\ [][Next]_vars /\ Fairness

---------------------------------------------------------------------------
Accepted == {r \in Reqs : answer[r] = "0"}
Positions(s, r) == {i \in 1..Len(s) : s[i] = r}

\* Every variable has its type.
TypeOK ==
    /\ engine \in {"none", "live", "closing", "freeing", "freed", "undefined"}
    /\ max_concurrent \in 0..CURLRQ_MAX_CONCURRENT
    /\ max_queue_len \in Limits \cup {0}
    /\ defaults \subseteq Options
    /\ queue \in Seq(Reqs) /\ queue_len \in Nat
    /\ dangling \subseteq Reqs /\ active_list \subseteq Reqs
    /\ shutdown \in BOOLEAN /\ thread_running \in BOOLEAN /\ woken \in BOOLEAN
    /\ pc \in {"none", "top", "idle", "starting", "failed", "multi", "done", "drain", "exited"}
    /\ hand \in Reqs \cup {None} /\ drained \in Seq(Reqs)
    /\ answer \in [Reqs -> {"none", "0", "-1"}]
    /\ opts \in [Reqs -> SUBSET Options]
    /\ body \in [Reqs -> Nat] /\ calls \in [Reqs -> Nat]
    /\ result \in [Reqs -> {"none", "OK", "WRITE_ERROR", "FAILED_INIT", "TIMEDOUT"}]
    /\ waiter \in [Waiters -> {"idle", "waiting", "woken", "returned"}]

\* A request whose callback is still due is in exactly one place: the queue,
\* the active list, the worker's hand or the list drain_queue took; and the
\* places hold nothing else but nodes freed by a failed pthread_create.
HeldOnce ==
    \A r \in Reqs :
        Cardinality(Positions(queue, r)) + Cardinality(Positions(drained, r))
          + (IF r \in active_list THEN 1 ELSE 0) + (IF hand = r THEN 1 ELSE 0)
        = IF (r \in Accepted /\ calls[r] = 0) \/ r \in dangling THEN 1 ELSE 0

\* A callback is called once, and never for a request curlrq_add turned down.
CalledOnce == \A r \in Reqs : calls[r] <= 1 /\ (calls[r] = 1 => r \in Accepted)

\* curlrq_cleanup gives the engine back only after every accepted request has
\* been called back, those never started included.
CleanupLosesNothing ==
    engine \in {"freeing", "freed"} => \A r \in Accepted : calls[r] = 1

\* libcurl drives at most the number of transfers asked for, and at most three;
\* the counter a full queue is told by agrees with the nodes there are.
ConcurrencyBound ==
    /\ curlrq_active <= max_concurrent /\ max_concurrent <= CURLRQ_MAX_CONCURRENT
    /\ queue_len = curlrq_pending

\* No worker, no work: an idle worker only goes when nothing waits for it.
WorkNeedsWorker == (queue # <<>> /\ dangling = {}) \/ active_list # {} => thread_running

\* A request that curlrq_add accepted is called back.
AcceptedCalledBack ==
    \A r \in Reqs : answer[r] = "0" ~> (calls[r] = 1 \/ engine = "undefined")

\* curlrq_cleanup returns once it has begun.
CleanupReturns == engine = "closing" ~> engine = "freed"

\* A thread in curlrq_wait returns once queue and active list are empty for good.
WaitReturns ==
    \A w \in Waiters :
        (waiter[w] = "waiting" /\ WaitOver) ~> (waiter[w] # "waiting" \/ ~WaitOver)

\* No request is accepted once curlrq_cleanup has been called.
ClosedRefuses == [][(engine \in {"closing", "freeing"}) => (Accepted' = Accepted)]_vars
====
