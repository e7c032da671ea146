---- MODULE MCDesktopPrograms ----
(***************************************************************************)
(* The programs of a desktop session, for TLC, and besides them two that   *)
(* write and read text: an XML document and its parser, and one mdns       *)
(* message in its sender's buffer and its reader's.  A behaviour is about  *)
(* one of the nine, chosen at the start, so that their states add up.      *)
(***************************************************************************)
EXTENDS DesktopPrograms, Sequences, TLC

VARIABLES
    written, buffer, document, blocks, position,
    message, stage, writer, reader

\* Two options that differ in language and icon; the light theme is a click away.
\* The default icon is what a picture that cannot be drawn comes to.  The heights
\* hit both items that rebuild the menu, a checkable item, a notification and the exit.
MCOptions == {[dark |-> TRUE, english |-> FALSE, icon |-> "file"],
              [dark |-> TRUE, english |-> TRUE, icon |-> "test"]}
MCHeights == {0, 50, 200, 410, 470}

\* The bits of "x" and of "y" differ in ten bits and in seventeen; eight do not fill
\* a byte more.  A shape of no bits is what an error near one makes.
MCElements == {"x", "y"}
MCFirst == [e \in MCElements |-> IF e = "x" THEN 1 ELSE 12]
MCSecond == [e \in MCElements |-> IF e = "x" THEN 4 ELSE 11]
MCShapes == {[bits |-> 10, hashes |-> 2], [bits |-> 0, hashes |-> 1], [bits |-> 17, hashes |-> 2]}

\* A point-to-point IPv4 address on a tunnel, a link-local IPv6 address on a card.
MCAddrs == {"v4", "fe80"}
MCIface == [a \in MCAddrs |-> IF a = "v4" THEN "tun0" ELSE "eth0"]
MCPeer == [a \in MCAddrs |-> IF a = "v4" THEN "far" ELSE a]

\* A program whose argv[0] has a space, and a kernel thread.
MCNames == {"sh -c", "kthread"}
MCShown == [n \in MCNames |-> IF n = "kthread" THEN "unknown" ELSE "sh"]
MCArgv0 == [n \in MCNames |-> n]
MCDemo == [self |-> 1, first |-> 1, top |-> 2, name |-> "sh -c", pid |-> 2]
MCCalls ==
    { [kind |-> "all", max |-> 0], [kind |-> "all", max |-> 1],
      [kind |-> "monitor", os |-> "linux", pid |-> 1],
      [kind |-> "monitor", os |-> "windows", pid |-> 1],
      [kind |-> "memory", pid |-> 1], [kind |-> "windows", max |-> 1], [kind |-> "mac_list"],
      [kind |-> "mac_stub"], [kind |-> "mac_exists", pid |-> 1], [kind |-> "mac_info", pid |-> 1] }

\* Two levels share their four highest bits, two more differ in all.
MCLevels == {0, 24, 40, 200}
\* Floats are exact for icons of three and pictures of up to two.
MCTruncated == [i \in 0 .. 2, n \in 1 .. 2 |-> (i * n) \div 3]

\* A service with both families and one with IPv6 only, an IPv6 client and an
\* IPv4 dump.
MCServices == {"sa", "sb"}
MCClients == {"c"}
MCDumps == {"d"}
MCFamilies == [n \in MCServices \cup MCClients \cup MCDumps |->
                 CASE n = "sa" -> {4, 6} [] n = "d" -> {4} [] OTHER -> {6}]
MCRequests == {<<[name |-> <<"service">>, type |-> "TXT"], [name |-> <<"instance", "sb">>, type |-> "SRV"]>>}
MCForeign == {[name |-> <<"hostname", "sa">>, type |-> "ANY"]}

---------------------------------------------------------------------------
\* A name that begins the other, and spaces, tabs and slashes where they are allowed.
MCTags == {<<"a">>, <<"a", "b">>}
MCTexts == {<<"a", "\t", "/">>}
MCValues == {<<"/">>, <<"a", " ", "b">>, <<"a", "\t", "b">>}

Xml == INSTANCE XmlParser WITH Names <- MCTags, Texts <- MCTexts, Values <- MCValues, Widest <- 2,
    place <- position

Question(name, type) == [name |-> name, type |-> type]

\* Names under local, with their octets; a host that is called local as well.
MCService == <<"_http", "_tcp", "local">>
MCDnsSd == <<"_services", "_dns-sd", "_udp", "local">>
MCSize == [x \in {"host", "_tcp", "_udp"} |-> 4] @@ [x \in {"local", "_http"} |-> 5]
          @@ ("test=1" :> 6) @@ ("_dns-sd" :> 7) @@ ("_services" :> 9) @@ ("other=value" :> 11)
MCRecord(name, type, value) == [name |-> name, type |-> type, value |-> value]
MCInstance(host) == <<host>> \o MCService
MCSrv(host) == MCRecord(MCInstance(host), "SRV", <<host, "local">>)
MCAddresses(host) == <<MCRecord(<<host, "local">>, "A", "v4"), MCRecord(<<host, "local">>, "AAAA", "v6")>>
MCNotes(host) == [i \in 1 .. 2 |-> MCRecord(MCInstance(host), "TXT", <<"test=1", "other=value">>[i])]
Message(kind, recv, questions, first, authority, additional) ==
    [kind |-> kind, recv |-> recv, questions |-> questions, answer |-> first,
     authority |-> authority, additional |-> additional]
\* The questions of a client, the answers to a discovery, announcements, and
\* answers to a question for an instance, one with texts in the authority section.
MCMessages ==
    { Message("query", "listen", <<Question(MCDnsSd, "PTR"), Question(MCService, "PTR")>>, <<>>, <<>>, <<>>) }
    \cup { Message("unicast", recv, <<Question(MCDnsSd, "PTR")>>, <<MCRecord(MCDnsSd, "PTR", MCService)>>,
                   <<>>, <<>>) : recv \in {"query", "discovery"} }
    \cup { Message("multicast", recv, <<>>, <<MCRecord(MCService, "PTR", MCInstance("host"))>>, <<>>,
                   <<MCSrv("host")>> \o MCAddresses("host") \o MCNotes("host")) :
             recv \in {"listen", "query", "discovery"} }
    \cup { Message("unicast", "query", <<Question(MCInstance(host), "SRV")>>, <<MCSrv(host)>>,
                   MCNotes(host), MCAddresses(host)) : host \in {"host", "local"} }
    \cup { Message("unicast", "query", <<Question(MCInstance("host"), "ANY")>>, <<MCSrv("host")>>,
                   <<>>, MCAddresses("host") \o MCNotes("host")) }

Wire == INSTANCE MdnsMessage WITH
    Size <- MCSize, Messages <- MCMessages, Capacities <- 40 .. 160, TableSizes <- {2, 16},
    MaxSubstrings <- 64, MaxRefs <- 16, DnsSd <- MCDnsSd,
    at <- stage, out <- writer, inp <- reader

ASSUME Xml!XmlAssumption /\ Wire!MessageAssumption

xml == <<written, buffer, document, blocks, position>>
messages == <<message, stage, writer, reader>>

\* A step of one of the nine, of which only those in Started are chosen.
MCInit == Init /\ Xml!Init /\ Wire!Init

Desktop == Next /\ UNCHANGED <<xml, messages>>

MCNext ==
    \/ program = "tray" /\ Desktop
    \/ program = "detector" /\ Desktop
    \/ program = "bloom" /\ Desktop
    \/ program = "addresses" /\ Desktop
    \/ program = "processes" /\ Desktop
    \/ program = "pictures" /\ Desktop
    \/ program = "services" /\ Desktop
    \/ program = "xml" /\ Xml!Next /\ UNCHANGED <<vars, messages>>
    \/ program = "messages" /\ Wire!Next /\ UNCHANGED <<vars, xml>>

MCSpec == MCInit /\ [][MCNext]_<<vars, xml, messages>> /\ Fairness

---------------------------------------------------------------------------
\* What is read is what was written: a document by the rules and its blocks, and
\* messages, if they fit; and every variable of the two has its type.
ReadTrue ==
    /\ Xml!TypeOK /\ Xml!ReadBack /\ Xml!NothingKept
    /\ Wire!TypeOK /\ Wire!ReadAsWritten /\ Wire!GivenUpOnlyIfFull
====
