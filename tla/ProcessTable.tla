---- MODULE ProcessTable ----
(***************************************************************************)
(* psutil: process_threads.c, process_memory.c and psutil_macos.c read the *)
(* operating system's process table while processes start, end, change     *)
(* their program and reuse each other's numbers.  A call is several reads; *)
(* a program makes the calls of `todo` one after the other.                *)
(***************************************************************************)
EXTENDS Integers, Sequences, FiniteSets, SequencesExt

CONSTANTS Pids,     \* process numbers
          Names,    \* programs
          Shown,    \* the last part of a program's argv[0], up to its first space
          Argv0,    \* the last part of its argv[0]
          Kernel,   \* the programs without a command line: kernel threads
          Threads,  \* numbers of threads
          Churn,    \* changes of the table while one call runs
          Batch,    \* directory entries one system call returns
          Slack,    \* entries by which sysctl may overstate its first size
          Calls,    \* the calls a program may make
          Demo,     \* the demonstration's own number, its limits and its arguments
          None

\* What an instance has to satisfy.
ProcessAssumption ==
    /\ Pids \subseteq Nat \ {0} /\ IsFiniteSet(Pids)
    /\ 1 \in Threads /\ Threads \subseteq Nat \ {0}
    /\ Kernel \subseteq Names
    /\ {Churn, Batch} \subseteq Nat \ {0} /\ Slack \in Nat
    /\ \A c \in Calls : c.kind = "all" => c.max \in Int
    /\ \A c \in Calls : c.kind \in {"enumerate", "top"} => c.max \in Nat \ {0}
    /\ {Demo.first, Demo.top} \subseteq Nat \ {0}

\* The demonstration: its own threads, the first processes, the top ones, a
\* name's sum, a number's threads, and the process with the most.
main_demo_process_threads_count ==
    <<[kind |-> "count", os |-> "linux", pid |-> Demo.self],
      [kind |-> "enumerate", max |-> Demo.first], [kind |-> "top", max |-> Demo.top],
      [kind |-> "by_name", name |-> Demo.name], [kind |-> "count", os |-> "linux", pid |-> Demo.pid],
      [kind |-> "find_max"]>>

Programs == {main_demo_process_threads_count} \cup {<<c>> : c \in Calls}

VARIABLES
    table,   \* the processes: name and threads, or none
    churn,   \* changes since the call began
    todo,    \* calls still to make
    at,      \* the running call's place, or none
    out,     \* what it has gathered
    answer,  \* the last call's answer
    steady,  \* history: processes that did not end while the call ran
    held     \* history: what each process number was called, and its threads

vars == <<table, churn, todo, at, out, answer, steady, held>>

Alive == {p \in Pids : table[p] # None}
InOrder(s) == SetToSortSeq(s, <)
Least(s) == CHOOSE p \in s : \A q \in s : p <= q
Facts(t) == {<<p, t[p]>> : p \in {q \in Pids : t[q] # None}}
Call == Head(todo)

Init ==
    /\ \E s \in SUBSET Pids, n \in Names :
         table = [p \in Pids |-> IF p \in s THEN [name |-> n, threads |-> 1] ELSE None]
    /\ churn = 0 /\ todo \in Programs /\ at = None /\ out = <<>> /\ answer = None
    /\ steady = {} /\ held = {}

---------------------------------------------------------------------------
\* The system: a process starts, ends, executes another program, or changes
\* its threads.
Change(p, new) ==
    /\ at # None /\ churn < Churn /\ new # table[p]
    /\ table' = [table EXCEPT ![p] = new]
    /\ churn' = churn + 1
    /\ steady' = IF new = None THEN steady \ {p} ELSE steady
    /\ held' = held \cup Facts(table')
    /\ UNCHANGED <<todo, at, out, answer>>

Processes == {None} \cup [name : Names, threads : Threads]

---------------------------------------------------------------------------
Begin(place) ==
    /\ todo # <<>> /\ at = None
    /\ at' = place /\ out' = <<>> /\ churn' = 0
    /\ steady' = Alive /\ held' = Facts(table) /\ answer' = None
    /\ UNCHANGED <<table, todo>>

Return(result) ==
    /\ answer' = [call |-> Call, result |-> result] /\ todo' = Tail(todo) /\ at' = None
    /\ UNCHANGED <<table, churn, out, steady, held>>

Go(place, gathered) ==
    /\ at' = place /\ out' = gathered
    /\ UNCHANGED <<table, churn, todo, answer, steady, held>>


missing_has_none(os, p) == IF p \in Alive THEN table[p].threads ELSE 0

\* /proc/<pid>/status, once more /proc/<pid>/task: -1 for no such process.  On
\* Windows the threads of a snapshot are counted: none for no such process.
psutil_get_process_thread_count(os, p) ==
    IF p \in Alive THEN table[p].threads ELSE IF os = "windows" THEN 0 ELSE -1

\* The name in /proc/<pid>/cmdline; kernel threads and ended processes have none.
CommandName(p) ==
    IF p \in Alive /\ table[p].name \notin Kernel THEN Shown[table[p].name] ELSE "unknown"

finder_keeps_least(found, e) ==
    IF found = <<>> \/ e.threads < Head(found).threads THEN <<e>> ELSE found

\* The first of those with the most threads.
psutil_finder_callback(found, e) ==
    IF found = <<>> \/ e.threads > Head(found).threads THEN <<e>> ELSE found

psutil_limited_callback(printed, e, max) ==
    IF Len(printed) < max THEN Append(printed, e) ELSE printed

psutil_compare_by_threads_desc(a, b) == a.threads > b.threads

AtMost(s, n) == SubSeq(s, 1, IF n < Len(s) THEN n ELSE Len(s))

\* What qsort may make of the list: those with as many threads in any order.
psutil_show_top_processes_by_threads(list, n) ==
    {AtMost([i \in DOMAIN list |-> list[f[i]]], n) :
       f \in {f \in Bijection(DOMAIN list, DOMAIN list) :
                \A i, j \in DOMAIN list :
                  i < j => ~psutil_compare_by_threads_desc(list[f[j]], list[f[i]])}}

---------------------------------------------------------------------------
\* Linux walks /proc.  One system call returns the next entries, and readdir hands
\* them out in the order of their numbers.
Scans == {"by_name", "enumerate", "find_max", "all", "top"}

After(pid) == {p \in Alive : p > pid}
NextEntries(pid) ==
    {p \in After(pid) : Cardinality({q \in After(pid) : q < p}) < Batch}

BeginScan ==
    /\ todo # <<>> /\ Call.kind \in Scans
    /\ Begin([next |-> "dir", pid |-> 0, batch |-> {}, name |-> None])

Readdir ==
    /\ at # None /\ Call.kind \in Scans /\ at.next = "dir"
    /\ LET entries == IF at.batch # {} THEN at.batch ELSE NextEntries(at.pid)
       IN IF entries # {}
            THEN Go([next |-> "name", pid |-> Least(entries), batch |-> entries \ {Least(entries)},
                     name |-> None], out)
            ELSE IF Call.kind = "top"
                   THEN \E shown \in psutil_show_top_processes_by_threads(out, Call.max) : Return(shown)
                   ELSE Return(out)

Next_entry == [at EXCEPT !.next = "dir"]

\* The command line is read first and the threads after it.
psutil_enumerate_process_threads ==
    /\ at # None /\ Call.kind \in Scans \ {"by_name"} /\ at.next = "name"
    /\ Go([at EXCEPT !.next = "threads", !.name = CommandName(at.pid)], out)

psutil_get_thread_count_by_name ==
    /\ at # None /\ Call.kind = "by_name" /\ at.next = "name"
    /\ IF at.pid \in Alive /\ table[at.pid].name \notin Kernel /\ Argv0[table[at.pid].name] = Call.name
         THEN Go([at EXCEPT !.next = "threads", !.name = Call.name], out)
         ELSE Go(Next_entry, out)

\* The entry, kept as the call wants it, or nothing of a process that has ended.
Kept(e) ==
    CASE Call.kind = "find_max"  -> psutil_finder_callback(out, e)
      [] Call.kind = "enumerate" -> psutil_limited_callback(out, e, Call.max)
      [] OTHER                   -> Append(out, e)

\* Entries without a thread count are left out.
Counted(p) == psutil_get_process_thread_count("linux", p) > 0

psutil_get_all_processes ==
    /\ at # None /\ Call.kind \in Scans /\ at.next = "threads"
    /\ LET kept == IF Counted(at.pid)
                     THEN Kept([pid |-> at.pid, name |-> at.name,
                                threads |-> psutil_get_process_thread_count("linux", at.pid)])
                     ELSE out
       IN IF Call.kind = "all" /\ Call.max > 0 /\ Len(kept) >= Call.max
            THEN Return(kept)
            ELSE Go(Next_entry, kept)

---------------------------------------------------------------------------
\* One process asked for once.
Count ==
    /\ todo # <<>> /\ Call.kind = "count"
    /\ IF at = None THEN Begin([next |-> "look"])
       ELSE Return(psutil_get_process_thread_count(Call.os, Call.pid))

\* A look every interval_seconds, reported when the number differs, until it is
\* below zero.
psutil_monitor_threads ==
    /\ todo # <<>> /\ Call.kind = "monitor"
    /\ IF at = None THEN Begin([next |-> "look"])
       ELSE LET n == psutil_get_process_thread_count(Call.os, Call.pid) IN
            IF n >= 0 THEN Go(at, <<n>>) ELSE Return(out)

psutil_process_exists(p) == p \in Alive

\* main of process_memory.c asks whether the process exists, then reads its
\* memory, which fails for a process that has ended since.
psutil_get_process_memory ==
    /\ todo # <<>> /\ Call.kind = "memory"
    /\ \/ at = None /\ Begin([next |-> "exists"])
       \/ /\ at # None /\ at.next = "exists"
          /\ IF psutil_process_exists(Call.pid) THEN Go([next |-> "memory"], <<>>)
                                                ELSE Return([error |-> "gone"])
       \/ /\ at # None /\ at.next = "memory"
          /\ Return([error |-> IF Call.pid \in Alive THEN "none" ELSE "unreadable"])

\* A Windows snapshot is one read: both walks over it see the same.
Win_snapshot ==
    /\ todo # <<>> /\ Call.kind = "windows"
    /\ IF at = None THEN Begin([next |-> "snapshot"])
       ELSE LET all == [i \in 1..Cardinality(Alive) |->
                          LET p == InOrder(Alive)[i]
                          IN [pid |-> p, name |-> table[p].name, threads |-> table[p].threads]]
            IN Return(IF Call.max > 0 THEN AtMost(all, Call.max) ELSE all)

---------------------------------------------------------------------------
\* macOS asks sysctl for a size, which may be generous, and then for the list,
\* which fails when it has outgrown the size.
Garbage == [pid |-> None, name |-> None]

Mac_size ==
    /\ todo # <<>> /\ at = None /\ Call.kind \in {"mac_list", "mac_stub"}
    /\ \E slack \in 0..Slack :
         Begin([next |-> "list", size |-> Cardinality(Alive) + slack, pid |-> 0])

\* The entries counted are those of the first size: what the second call did not
\* fill is whatever the memory held.  A number below one is skipped, any other
\* becomes an entry.
psutil_get_all_processes_duped ==
    /\ at # None /\ Call.kind = "mac_list" /\ at.next = "list"
    /\ LET got == InOrder(Alive) IN
       IF Len(got) > at.size THEN Return(<<>>)
       ELSE \E tail \in 0..(at.size - Len(got)) :
              Return([i \in 1..(Len(got) + tail) |->
                        IF i <= Len(got) THEN [pid |-> got[i], name |-> table[got[i]].name]
                                         ELSE Garbage])

\* The thread listings of macOS end the program with assert(0) at the first
\* entry they would report.
Mac_stub ==
    /\ at # None /\ Call.kind = "mac_stub" /\ at.next = "list"
    /\ IF Cardinality(Alive) > at.size \/ Alive = {} THEN Return(<<>>)
       ELSE /\ todo' = <<>> /\ at' = None /\ answer' = None
            /\ UNCHANGED <<table, churn, out, steady, held>>

\* Three ways to ask in turn; the first yes is the answer.
psutil_process_exists_duped ==
    /\ todo # <<>> /\ Call.kind = "mac_exists"
    /\ \/ at = None /\ Begin([next |-> 1])
       \/ at # None /\ Call.pid \in Alive /\ Return(TRUE)
       \/ /\ at # None /\ Call.pid \notin Alive
          /\ IF at.next < 3 THEN Go([next |-> at.next + 1], <<>>) ELSE Return(FALSE)

\* Name, path, owner and arguments are four reads: without the first or the
\* third there is no answer, without the others a blank.
psutil_get_full_process_info ==
    /\ todo # <<>> /\ Call.kind = "mac_info"
    /\ \/ at = None /\ Begin([next |-> 1])
       \/ at # None /\ Call.pid \notin Alive /\ at.next \in {1, 3} /\ Return(<<>>)
       \/ /\ at # None /\ (Call.pid \in Alive \/ at.next \in {2, 4})
          /\ LET read == Append(out, IF Call.pid \in Alive THEN table[Call.pid].name ELSE None)
             IN IF at.next < 4 THEN Go([next |-> at.next + 1], read) ELSE Return(read)

Step ==
    \/ BeginScan \/ Readdir
    \/ psutil_enumerate_process_threads \/ psutil_get_thread_count_by_name \/ psutil_get_all_processes
    \/ Count \/ psutil_monitor_threads \/ psutil_get_process_memory \/ Win_snapshot
    \/ Mac_size \/ psutil_get_all_processes_duped \/ Mac_stub
    \/ psutil_process_exists_duped \/ psutil_get_full_process_info

Next == Step \/ \E p \in Pids, new \in Processes : Change(p, new)

Spec == Init /\ [][Next]_vars /\ WF_vars(Step)

---------------------------------------------------------------------------
Entries == [pid : Pids, threads : Threads,
            name : Names \cup {"unknown"} \cup {Shown[n] : n \in Names} \cup {Argv0[n] : n \in Names}]

\* Every variable has its type.
TypeOK ==
    /\ table \in [Pids -> Processes] /\ churn \in 0..Churn
    /\ at # None => todo # <<>>
    /\ steady \subseteq Pids /\ held \subseteq Pids \X (Processes \ {None})
    /\ (at # None /\ Call.kind \in Scans) => out \in Seq(Entries)

\* What a process number was, while the call ran, and so its threads and its name.
Was(p) == {x \in Processes \ {None} : <<p, x>> \in held}
HadThreads(p, n) == \E x \in Was(p) : x.threads = n
HadName(p, n) == n = "unknown" \/ \E x \in Was(p) : Shown[x.name] = n

\* The call that has just returned.
Lists(kinds) == answer # None /\ answer.call.kind \in kinds

\* A finished listing names no process twice, and none under a name or with a
\* count it did not have while the call ran.
\* Unless it was full, it names every process that was there all along.
Listed ==
    /\ Lists({"all", "enumerate", "top"}) =>
         LET l == answer.result IN
         /\ \A i, j \in DOMAIN l : l[i].pid = l[j].pid => i = j
         /\ \A i \in DOMAIN l : HadThreads(l[i].pid, l[i].threads) /\ HadName(l[i].pid, l[i].name)
         /\ (answer.call.max = 0 \/ Len(l) < answer.call.max) =>
               steady \subseteq {l[i].pid : i \in DOMAIN l}
    /\ Lists({"find_max"}) =>
         /\ steady # {} => answer.result # <<>>
         /\ \A p \in steady : \E x \in Was(p) : x.threads <= answer.result[1].threads

\* Watching a process that has gone ends, or its number is in use again, whatever
\* number of times that happened before; on Windows a missing process has no
\* threads, and the watch goes on.
WatchesNone ==
    at # None /\ Call.kind = "monitor" /\ Call.os # "windows" /\ Call.pid \notin Alive
WatchEnds == WatchesNone ~> ~WatchesNone
====
