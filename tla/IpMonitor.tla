---- MODULE IpMonitor ----
(***************************************************************************)
(* netut/ip_monitor.c and netut/ipaddr_list.c on Linux: a program lists    *)
(* the host's addresses and follows their changes through a netlink        *)
(* socket.  One thread sits in netut_process_ip_events_blocking, another   *)
(* starts, stops and frees the monitor; the kernel changes interfaces and  *)
(* queues a message per change.                                            *)
(***************************************************************************)
EXTENDS Integers, Sequences, FiniteSets

CONSTANTS Ifaces, Addrs, None,
          Iface,      \* the interface of an address: a function on Addrs
          Peer,       \* the far end of a point-to-point address, or the address itself
          LinkLocal,  \* the addresses that are listed with their interface as a scope
          Present,    \* the addresses there are at first
          V6,         \* the addresses that are IPv6
          Loopback,   \* the interfaces that are loopback
          Buffer,     \* messages the socket's receive buffer holds
          Room        \* entries, of a fixed width here, that a JSON buffer holds

\* What an instance has to satisfy.
IpAssumption ==
    /\ None \notin Addrs \cup Ifaces
    /\ Iface \in [Addrs -> Ifaces]
    /\ Present \subseteq Addrs /\ V6 \subseteq Addrs /\ LinkLocal \subseteq Addrs
    /\ Loopback \subseteq Ifaces
    /\ Buffer \in Nat \ {0} /\ Room \in Nat

VARIABLES
    addrs,    \* the kernel's addresses
    down,     \* interfaces that are down
    gone,     \* interfaces that no longer exist
    queue,    \* messages for the socket
    overrun,  \* the buffer was full: the next recvmsg fails with ENOBUFS
    monitor,  \* none, created, running, stopped or freed
    socket,   \* the monitor's descriptor is open
    thread,   \* the blocking thread: out, in, polling, stale, ready, done or crashed
    list,     \* the last list of names, or none
    view,     \* names of the addresses the program believes there are
    left,     \* history: addresses the list left out on purpose
    shown     \* what the program printed of its list at the end, or none

kernel == <<addrs, down, gone, queue, overrun>>
program == <<monitor, socket, thread>>
known == <<list, view, left, shown>>
vars == <<kernel, program, known>>

\* A name is an address and the scope printed after it, or none.  inet_ntop
\* prints no scope, and a message carries both ends of a point-to-point address
\* (IFA_LOCAL, IFA_ADDRESS): the callback is told of each.  getnameinfo adds the
\* scope to a link-local address.
Told(a) == {<<a, None>>, <<Peer[a], None>>}
Listed(a) == <<a, IF a \in LinkLocal THEN Iface[a] ELSE None>>

Init ==
    /\ addrs = Present /\ down = {} /\ gone = {} /\ queue = <<>> /\ overrun = FALSE
    /\ monitor = "none" /\ socket = FALSE /\ thread = "out"
    /\ list = None /\ view = {} /\ left = {} /\ shown = None

---------------------------------------------------------------------------
\* The kernel tells a listening socket of each change, until its buffer is full.
Notify(messages) ==
    LET room == Buffer - Len(queue) IN
    IF ~socket THEN UNCHANGED <<queue, overrun>>
    ELSE /\ queue' = queue \o SubSeq(messages, 1, IF room < Len(messages) THEN room ELSE Len(messages))
         /\ overrun' = (overrun \/ room < Len(messages))

AddAddr(a) ==
    /\ a \notin addrs /\ Iface[a] \notin gone
    /\ addrs' = addrs \cup {a}
    /\ Notify(<<[type |-> "new", addr |-> a]>>)
    /\ UNCHANGED <<down, gone, program, known>>

DelAddr(a) ==
    /\ a \in addrs
    /\ addrs' = addrs \ {a}
    /\ Notify(<<[type |-> "del", addr |-> a]>>)
    /\ UNCHANGED <<down, gone, program, known>>

\* An interface goes: its addresses first, then its name.
Unplug(i) ==
    /\ i \notin gone /\ \A a \in addrs : Iface[a] # i
    /\ gone' = gone \cup {i}
    /\ UNCHANGED <<addrs, down, queue, overrun, program, known>>

\* Addresses stay when their interface goes down, and no message says so.
UpOrDown(i) ==
    /\ i \notin gone
    /\ down' = IF i \in down THEN down \ {i} ELSE down \cup {i}
    /\ UNCHANGED <<addrs, gone, queue, overrun, program, known>>

---------------------------------------------------------------------------
netut_create_ip_monitor_event ==
    /\ monitor = "none"
    /\ monitor' = "created"
    /\ UNCHANGED <<kernel, socket, thread, known>>

\* The kernel is asked for no dump, so the program lists anew once it listens.
\* A start that fails changes nothing here.  A blocking call that has not yet
\* noticed the stop before goes on.
netut_start_ip_monitor_event ==
    /\ monitor \in {"created", "stopped"} /\ thread # "crashed"
    /\ monitor' = "running" /\ socket' = TRUE
    /\ thread' = IF thread = "done" THEN "out" ELSE thread
    /\ queue' = <<>> /\ overrun' = FALSE
    /\ list' = None /\ view' = {} /\ left' = {}
    /\ UNCHANGED <<addrs, down, gone, shown>>

\* A thread that is in select by now waits on for the descriptor closed here.
netut_stop_ip_monitor_event ==
    /\ monitor = "running"
    /\ monitor' = "stopped" /\ socket' = FALSE
    /\ queue' = <<>> /\ overrun' = FALSE
    /\ thread' \in IF thread = "polling" THEN {"polling", "stale"} ELSE {thread}
    /\ UNCHANGED <<addrs, down, gone, known>>

\* A program frees a monitor no thread is in.
netut_free_ip_monitor_event ==
    /\ monitor \in {"created", "running", "stopped"} /\ thread \in {"out", "done"}
    /\ monitor' = "freed" /\ socket' = FALSE
    /\ queue' = <<>> /\ overrun' = FALSE
    /\ UNCHANGED <<addrs, down, gone, thread, known>>

At(place) == thread' = place /\ UNCHANGED <<kernel, monitor, socket, known>>

Turn_again == thread = "in" /\ At("polling")

\* netut_process_ip_events_blocking: its own test, and the same of each turn.
netut_process_ip_events_blocking ==
    /\ thread = "out" /\ monitor = "running" /\ list # None
    /\ At("in")

Turn == thread = "in" /\ At(IF monitor = "running" THEN "polling" ELSE "done")

\* netut_process_ip_events: FD_SET and select.  Stopped since the test, the
\* descriptor is -1: FD_SET writes outside its set and select waits for nothing.
\* A select on a closed descriptor returns all the same, by its timeout or for a
\* last message; FD_ISSET is then asked of the descriptor there is by now.
Select ==
    \/ thread = "polling" /\ socket /\ (queue # <<>> \/ overrun) /\ At("ready")
    \/ thread = "polling" /\ queue = <<>> /\ ~overrun /\ At("in")
    \/ thread = "stale" /\ \E place \in {"in", "ready"} : At(place)
    \/ thread \in {"polling", "stale"} /\ ~socket /\ At("crashed")

\* A removed interface has no name any more, and its messages are skipped.
Named(m) == Iface[m.addr] \notin gone

Apply_all(m) == view' = view \cup Told(m.addr)

\* The program keeps what the callback tells it.
Apply(m) == view' = IF m.type = "new" THEN view \cup Told(m.addr) ELSE view \ Told(m.addr)

\* recvmsg on a full buffer's socket, or on a closed one, fails; the blocking
\* loop ends, and the monitor is still marked as running.  A socket opened since
\* select may have nothing yet, which is no error.
netut__parse_netlink_message ==
    /\ thread = "ready"
    /\ \/ /\ ~socket \/ overrun
          /\ thread' = "done" /\ overrun' = FALSE
          /\ UNCHANGED <<queue, view>>
       \/ /\ socket /\ ~overrun /\ queue = <<>>
          /\ thread' = "in"
          /\ UNCHANGED <<queue, overrun, view>>
       \/ /\ socket /\ ~overrun /\ queue # <<>>
          /\ thread' = "in" /\ queue' = Tail(queue)
          /\ IF Named(Head(queue)) THEN Apply(Head(queue)) ELSE UNCHANGED view
          /\ UNCHANGED overrun
    /\ UNCHANGED <<addrs, down, gone, monitor, socket, list, left, shown>>

---------------------------------------------------------------------------
\* netut/ipaddr_list.c.  Addresses of interfaces that are down and of the
\* loopback are left out on request.
netut_get_ip_addresses(include_ipv6, include_loopback, include_down) ==
    {Listed(a) : a \in {b \in addrs : /\ include_ipv6 \/ b \notin V6
                                      /\ include_down \/ Iface[b] \notin down
                                      /\ include_loopback \/ Iface[b] \notin Loopback}}

netut_get_ipv4_addresses == netut_get_ip_addresses(FALSE, FALSE, FALSE)
netut_get_ipv6_addresses == netut_get_ip_addresses(TRUE, FALSE, FALSE)
netut_get_all_ip_addresses == netut_get_ip_addresses(TRUE, FALSE, FALSE)

netut_find_ip_by_interface(l, i) == {e \in l : Iface[e[1]] = i}

\* The text's entries and whether it is closed: with no room the call fails,
\* with at most two characters left it succeeds and leaves the end out.
netut_format_ip_list_json(l, spare) ==
    [result |-> IF Cardinality(l) > Room \/ (Cardinality(l) = Room /\ spare > 2) THEN -5 ELSE 0,
     closed |-> Cardinality(l) < Room]

\* The program starts the monitor first and lists next, to lose no change.
List(all) ==
    /\ monitor = "running" /\ list = None
    /\ list' = all
    /\ view' = all /\ left' = {a \in addrs : Listed(a) \notin all}
    /\ UNCHANGED <<kernel, program, shown>>

\* The program prints what it listed before it ends.
Show(i, spare) ==
    /\ monitor = "freed" /\ list # None
    /\ shown' = [found |-> netut_find_ip_by_interface(list, i),
                 text |-> netut_format_ip_list_json(list, spare)]
    /\ UNCHANGED <<kernel, program, list, view, left>>

netut_free_ip_list ==
    /\ list # None
    /\ monitor = "freed"
    /\ list' = None
    /\ UNCHANGED <<kernel, program, view, left, shown>>

Next ==
    \/ \E a \in Addrs : AddAddr(a) \/ DelAddr(a)
    \/ \E i \in Ifaces : Unplug(i) \/ UpOrDown(i)
    \/ netut_create_ip_monitor_event \/ netut_start_ip_monitor_event
    \/ netut_stop_ip_monitor_event \/ netut_free_ip_monitor_event
    \/ netut_process_ip_events_blocking \/ Turn \/ Select \/ netut__parse_netlink_message
    \/ List(netut_get_all_ip_addresses) \/ List(netut_get_ipv4_addresses)
    \/ List(netut_get_ipv6_addresses) \/ \E i \in Ifaces, spare \in {2, 3} : Show(i, spare)
    \/ netut_free_ip_list

\* The thread runs: select times out after a second.
Fairness == WF_vars(Turn \/ Select \/ netut__parse_netlink_message)

Spec == Init /\ [][Next]_vars /\ Fairness

---------------------------------------------------------------------------
\* Every variable has its type.
TypeOK ==
    /\ addrs \subseteq Addrs /\ down \subseteq Ifaces /\ gone \subseteq Ifaces
    /\ queue \in Seq([type : {"new", "del"}, addr : Addrs]) /\ Len(queue) <= Buffer
    /\ {overrun, socket} \subseteq BOOLEAN
    /\ monitor \in {"none", "created", "running", "stopped", "freed"}
    /\ thread \in {"out", "in", "polling", "stale", "ready", "done", "crashed"}
    /\ list = None \/ list \subseteq {Listed(a) : a \in Addrs}
    /\ shown = None \/ shown \in [found : SUBSET {Listed(a) : a \in Addrs},
                                  text : [result : {0, -5}, closed : BOOLEAN]]
    /\ view \subseteq UNION {Told(a) \cup {Listed(a)} : a \in Addrs}
    /\ left \subseteq Addrs

\* The program has listed, listens, and has read every message.
Following ==
    /\ monitor = "running" /\ thread \in {"in", "polling"} /\ list # None
    /\ queue = <<>> /\ ~overrun

\* A name the program believes in: an end of an address there is, or of one whose
\* interface has gone; or it is a name with a scope, which no message takes back.
Founded(e) ==
    \/ \E a \in Addrs : e \in Told(a) /\ (a \in addrs \/ Iface[a] \in gone)
    \/ e \in list /\ e[2] # None

\* An address is the far end of another one as well.
FarEnd(a) == \E b \in Addrs \ {a} : Peer[b] = a

\* A program that has read every message is wrong in these ways only: it takes the
\* far ends for the host's own, it believes in addresses of an interface that has
\* gone and in the scoped names of its list, and it does not know of an address its
\* list left out, or that went as another one's far end.  Messages queued before
\* the list was taken do no harm.
CaughtUp ==
    Following => /\ \A e \in view : Founded(e)
                 /\ \A a \in addrs \ left : FarEnd(a) \/ {<<a, None>>, Listed(a)} \cap view # {}

\* Stopping the monitor ends the blocking call, unless the thread has just tested
\* that it runs and not yet waited, or the monitor is started again before it looks.
StopReturns ==
    monitor \in {"stopped", "freed"} ~> thread \in {"out", "done", "crashed"} \/ monitor = "running"
====
