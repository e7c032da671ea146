---- MODULE MdnsService ----
(***************************************************************************)
(* The mdns programs (mdns.c on mdns.h): services announce themselves,     *)
(* answer the questions asked of the multicast group and say goodbye;      *)
(* clients ask and print what they hear; a dump prints all it hears.       *)
(* Addresses are one per family: the first a host has.  A datagram may be  *)
(* lost; those between two hosts stay in order.                            *)
(***************************************************************************)
EXTENDS Integers, Sequences, FiniteSets, SequencesExt

CONSTANTS Services, Clients, Dumps,
          Families,  \* the families of addresses each node has: 4, 6 or both
          Requests,  \* what clients ask for, besides the services there are
          Foreign,   \* questions other programs ask from port 5353
          MaxForeign, MaxLost, None

\* What an instance has to satisfy.
MdnsAssumption ==
    /\ Services \cap Clients = {} /\ Services \cap Dumps = {} /\ Clients \cap Dumps = {}
    /\ None \notin Clients
    /\ Families \in [Services \cup Clients \cup Dumps -> SUBSET {4, 6}]
    /\ \A r \in Requests : r \in Seq(ToSet(r))
    /\ \A q \in Foreign \cup UNION {ToSet(r) : r \in Requests} : q = [name |-> q.name, type |-> q.type]
    /\ {MaxForeign, MaxLost} \subseteq Nat

VARIABLES
    srv,      \* each service: off, serving, left or failed, its sockets, whether it runs
              \* on, and the datagram whose questions it is answering
    cli,      \* each client: what it asked, what it heard, who served when it asked
    cache,    \* what a listener to a dump believes: records not withdrawn
    queue,    \* datagrams at each node
    foreign,  \* questions other programs have asked
    lost      \* the nodes that have lost a datagram

vars == <<srv, cli, cache, queue, foreign, lost>>

Nodes == Services \cup Clients \cup Dumps
DnsSd == <<"_services._dns-sd._udp.local.">>
Service == <<"service">>
Instance(s) == <<"instance", s>>
Hostname(s) == <<"hostname", s>>
Record(name, type, value) == [name |-> name, type |-> type, value |-> value]

\* The records service_mdns makes: addresses only of the families there are.
record_ptr(s) == Record(Service, "PTR", Instance(s))
record_srv(s) == Record(Instance(s), "SRV", Hostname(s))
record_a(s) == {Record(Hostname(s), "A", <<s, 4>>) : f \in Families[s] \cap {4}}
record_aaaa(s) == {Record(Hostname(s), "AAAA", <<s, 6>>) : f \in Families[s] \cap {6}}
DnsSdRecord == Record(DnsSd, "PTR", Service)
txt_record(s) == Record(Instance(s), "TXT", <<"test">>)

\* The questions a node asks, and the datagram of a service that answers none.
Asks(n, questions, f, unicast) ==
    [from |-> n, questions |-> questions, family |-> f, unicast |-> unicast]
Idle == Asks(None, <<>>, 4, FALSE)

Init ==
    /\ srv = [s \in Services |-> [at |-> "off", socks |-> {}, running |-> TRUE, reading |-> Idle]]
    /\ cli = [c \in Clients |-> [at |-> "off", socks |-> {}, asked |-> {}, heard |-> {}, served |-> {}]]
    /\ cache = [d \in Dumps |-> {}]
    /\ queue = [n \in Nodes |-> <<>>]
    /\ foreign = 0 /\ lost = {}

---------------------------------------------------------------------------
\* The address families of a node's interfaces; a socket may fail to open.
open_client_sockets(n) == SUBSET Families[n]

\* One socket for each family, whatever addresses there are.
open_service_sockets == SUBSET {4, 6}

keeps_ttl(record, ttl) == [record |-> record, ttl |-> 60]

\* The answer's lifetime is the message's; a goodbye's is 0 whatever the record says.
mdns_record_update_rclass_ttl(record, ttl) == [record |-> record, ttl |-> ttl]

\* What goes out on each of some sockets, one datagram after the other.
OnEach(d) == (IF 4 \in DOMAIN d THEN <<d[4]>> ELSE <<>>) \o (IF 6 \in DOMAIN d THEN <<d[6]>> ELSE <<>>)

\* Dumps with a socket of the family hear what is multicast; services take no
\* notice of responses, and clients' sockets are not on port 5353.
Response(records, ttl) == [records |-> {mdns_record_update_rclass_ttl(r, ttl) : r \in records}]
Hear(q, records, socks, ttl) ==
    [n \in Nodes |-> IF n \in Dumps
                       THEN q[n] \o OnEach([f \in socks \cap Families[n] |-> Response(records, ttl)])
                       ELSE q[n]]

Announced(s) == {record_ptr(s), record_srv(s), txt_record(s)} \cup record_a(s) \cup record_aaaa(s)

mdns_announce_multicast(s, socks) == Hear(queue, Announced(s), socks, 60)
mdns_goodbye_multicast(s, socks) == Hear(queue, Announced(s), socks, 0)
mdns_query_answer_multicast(q, records, f) == Hear(q, records, {f}, 60)

mdns_query_answer_unicast(q, to, records) ==
    [q EXCEPT ![to] = Append(@, [records |-> {[record |-> r, ttl |-> 10] : r \in records}])]

mdns_multicast_send(n, questions, socks, unicast) ==
    [m \in Nodes |->
       IF m \in Services /\ srv[m].at = "serving"
         THEN queue[m] \o OnEach([f \in socks \cap srv[m].socks |-> Asks(n, questions, f, unicast)])
         ELSE queue[m]]

---------------------------------------------------------------------------
callback_forgets_v6(s, name, type) ==
    CASE name = Service /\ type \in {"PTR", "ANY"} ->
           {record_ptr(s), record_srv(s), txt_record(s)} \cup record_a(s)
      [] name = Hostname(s) /\ type \in {"A", "ANY"} /\ record_a(s) # {} -> record_a(s)
      [] OTHER -> {}

\* A question for the services there are, for this service, its instance or its
\* host is answered with the record and what one needs to go on from it.
service_callback(s, name, type) ==
    CASE name = DnsSd /\ type \in {"PTR", "ANY"} -> {DnsSdRecord}
      [] name = Service /\ type \in {"PTR", "ANY"} -> Announced(s)
      [] name = Instance(s) /\ type \in {"SRV", "ANY"} -> Announced(s) \ {record_ptr(s)}
      [] name = Hostname(s) /\ \/ type \in {"A", "ANY"} /\ record_a(s) # {}
                               \/ type \in {"AAAA", "ANY"} /\ record_aaaa(s) # {} ->
           record_a(s) \cup record_aaaa(s) \cup {txt_record(s)}
      [] OTHER -> {}

\* A service opens its sockets, and announces itself on each of them.
service_mdns(s) ==
    /\ srv[s].at = "off"
    /\ \E socks \in open_service_sockets :
         /\ srv' = [srv EXCEPT ![s].at = IF socks = {} THEN "failed" ELSE "serving",
                               ![s].socks = socks]
         /\ queue' = mdns_announce_multicast(s, socks)
    /\ UNCHANGED <<cli, cache, foreign, lost>>

\* The next question of a datagram is answered on its own, to the asker or to all.
mdns_socket_listen(s, d, q) ==
    /\ LET records == IF d.questions = <<>> THEN {}
                      ELSE service_callback(s, Head(d.questions).name, Head(d.questions).type) IN
       queue' = IF records = {} THEN q
                ELSE IF d.unicast THEN mdns_query_answer_unicast(q, d.from, records)
                ELSE mdns_query_answer_multicast(q, records, d.family)
    /\ srv' = [srv EXCEPT ![s].reading = IF Len(d.questions) <= 1 THEN Idle
                                         ELSE [d EXCEPT !.questions = Tail(@)]]
    /\ UNCHANGED <<cli, cache, foreign, lost>>

\* A turn of its loop: a datagram is received.
Serve(s) ==
    /\ srv[s].at = "serving" /\ srv[s].running /\ srv[s].reading = Idle /\ queue[s] # <<>>
    /\ mdns_socket_listen(s, Head(queue[s]), [queue EXCEPT ![s] = Tail(@)])

\* The questions that are left are answered before it looks whether to run on.
ServeRest(s) ==
    /\ srv[s].at = "serving" /\ srv[s].reading # Idle
    /\ mdns_socket_listen(s, srv[s].reading, queue)

\* Interrupted, it reads no more: questions still in its sockets stay unanswered.
Goodbye(s) ==
    /\ srv[s].at = "serving" /\ ~srv[s].running /\ srv[s].reading = Idle
    /\ queue' = [mdns_goodbye_multicast(s, srv[s].socks) EXCEPT ![s] = <<>>]
    /\ srv' = [srv EXCEPT ![s].at = "left"]
    /\ UNCHANGED <<cli, cache, foreign, lost>>

signal_handler(s) ==
    /\ srv[s].at = "serving" /\ srv[s].running
    /\ srv' = [srv EXCEPT ![s].running = FALSE]
    /\ UNCHANGED <<cli, cache, queue, foreign, lost>>

---------------------------------------------------------------------------
Ask(c, questions) ==
    /\ cli[c].at = "off"
    /\ \E socks \in open_client_sockets(c) :
         /\ cli' = [cli EXCEPT ![c] =
              [at |-> IF socks = {} THEN "done" ELSE "reading", socks |-> socks,
               asked |-> IF socks = {} THEN {} ELSE ToSet(questions), heard |-> {},
               served |-> {s \in Services : srv[s].at = "serving" /\ srv[s].socks \cap socks # {}}]]
         /\ queue' = mdns_multicast_send(c, questions, socks, TRUE)
    /\ UNCHANGED <<srv, cache, foreign, lost>>

mdns_discovery_send == <<[name |-> DnsSd, type |-> "PTR"]>>

\* Any other type of record is asked for as PTR.
mdns_multiquery_send(questions) ==
    [i \in DOMAIN questions |->
       IF questions[i].type \in {"SRV", "A", "AAAA"} THEN questions[i]
       ELSE [questions[i] EXCEPT !.type = "PTR"]]

send_dns_sd(c) == Ask(c, mdns_discovery_send)

send_mdns_query(c) ==
    \E questions \in Requests : Ask(c, mdns_multiquery_send(questions))

\* What is received is printed, whoever it answers.
query_callback(c) ==
    /\ cli[c].at = "reading" /\ queue[c] # <<>>
    /\ cli' = [cli EXCEPT ![c].heard = @ \cup {r.record : r \in Head(queue[c]).records}]
    /\ queue' = [queue EXCEPT ![c] = Tail(@)]
    /\ UNCHANGED <<srv, cache, foreign, lost>>

OnTheWay(c) ==
    \/ queue[c] # <<>>
    \/ \E s \in Services :
         \/ srv[s].reading.from = c
         \/ srv[s].running /\ \E i \in DOMAIN queue[s] : queue[s][i].from = c

\* A loop that goes on when select has found nothing.
timeout_waits_on(c) ==
    cli[c].at = "reading" /\ ~OnTheWay(c) /\ UNCHANGED vars

\* select finds nothing for five or ten seconds: a hundred turns of a service.
TimeOut(c) ==
    /\ cli[c].at = "reading" /\ ~OnTheWay(c)
    /\ cli' = [cli EXCEPT ![c].at = "done", ![c].socks = {}]
    /\ UNCHANGED <<srv, cache, queue, foreign, lost>>

\* A dump prints each record, and with it its lifetime: 0 withdraws it.
dump_callback(d) ==
    /\ queue[d] # <<>>
    /\ LET records == Head(queue[d]).records IN
       cache' = [cache EXCEPT ![d] = (@ \cup {r.record : r \in {x \in records : x.ttl > 0}})
                                       \ {r.record : r \in {x \in records : x.ttl = 0}}]
    /\ queue' = [queue EXCEPT ![d] = Tail(@)]
    /\ UNCHANGED <<srv, cli, foreign, lost>>

\* Another program's question, asked from port 5353 and so answered to all.
AskForeign(f, question) ==
    /\ foreign < MaxForeign
    /\ queue' = mdns_multicast_send(None, <<question>>, {f}, FALSE)
    /\ foreign' = foreign + 1
    /\ UNCHANGED <<srv, cli, cache, lost>>

Lose(n) ==
    /\ Cardinality(lost) < MaxLost /\ queue[n] # <<>>
    /\ queue' = [queue EXCEPT ![n] = Tail(@)]
    /\ lost' = lost \cup {n}
    /\ UNCHANGED <<srv, cli, cache, foreign>>

Next ==
    \/ \E s \in Services : service_mdns(s) \/ Serve(s) \/ ServeRest(s) \/ Goodbye(s) \/ signal_handler(s)
    \/ \E c \in Clients : send_dns_sd(c) \/ send_mdns_query(c) \/ query_callback(c) \/ TimeOut(c)
    \/ \E d \in Dumps : dump_callback(d)
    \/ \E f \in {4, 6}, q \in Foreign : AskForeign(f, q)
    \/ \E n \in Nodes : Lose(n)

\* Services and clients turn their loops.
Turns ==
    \/ \E s \in Services : Serve(s) \/ ServeRest(s) \/ Goodbye(s)
    \/ \E c \in Clients : query_callback(c) \/ TimeOut(c)

Fairness == WF_vars(Turns)

Spec == Init /\ [][Next]_vars /\ Fairness

---------------------------------------------------------------------------
Records == {DnsSdRecord} \cup UNION {Announced(s) : s \in Services}
Responses == [records : SUBSET [record : Records, ttl : {0, 10, 60}]]
Questions == Foreign \cup ToSet(mdns_discovery_send)
             \cup UNION {ToSet(mdns_multiquery_send(r)) : r \in Requests}
Datagrams == [from : Clients \cup {None}, questions : Seq(Questions), family : {4, 6}, unicast : BOOLEAN]

\* Every variable has its type.
TypeOK ==
    /\ srv \in [Services -> [at : {"off", "serving", "left", "failed"}, socks : SUBSET {4, 6},
                            running : BOOLEAN, reading : Datagrams]]
    /\ cli \in [Clients -> [at : {"off", "reading", "done"}, socks : SUBSET {4, 6},
                           asked : SUBSET Questions, heard : SUBSET Records, served : SUBSET Services]]
    /\ cache \in [Dumps -> SUBSET Records]
    /\ DOMAIN queue = Nodes
    /\ \A s \in Services : queue[s] \in Seq(Datagrams)
    /\ \A n \in Clients \cup Dumps : queue[n] \in Seq(Responses)
    /\ foreign \in 0..MaxForeign /\ lost \subseteq Nodes

\* A service's own records that a question asks for, and those their names lead to.
Direct(s, q) ==
    {r \in Announced(s) \cup {DnsSdRecord} : r.name = q.name /\ q.type \in {r.type, "ANY"}}
Follow(s, records) ==
    records \cup {r \in Announced(s) : /\ r.type \in {"SRV", "A", "AAAA"}
                                       /\ \E p \in records : p.type \in {"PTR", "SRV"} /\ p.value = r.name}

\* A client that is done has heard, from every service that served when it asked
\* and still does, the records it asked for and the way from them to an address,
\* if neither of the two has lost a datagram, whoever else has.
Found ==
    \A c \in Clients :
      cli[c].at = "done" =>
        \A s \in cli[c].served, q \in cli[c].asked :
          srv[s].at = "serving" /\ srv[s].running /\ lost \cap {c, s} = {} =>
            Follow(s, Follow(s, Direct(s, q))) \subseteq cli[c].heard

\* Once a service has left, and all that was sent is read, nobody who heard all of
\* it still believes in any of its records; nor does one in a service there never was.
Withdrawn ==
    \A s \in Services, d \in Dumps :
      srv[s].at # "serving" /\ queue[d] = <<>> /\ d \notin lost => cache[d] \cap Announced(s) = {}

\* A client's program ends, for all that others send, since questions are finite.
ClientEnds == \A c \in Clients : cli[c].at = "reading" ~> cli[c].at = "done"
====
