---- MODULE DesktopPrograms ----
(***************************************************************************)
(* Programs that a desktop session runs: the tray icon with its menu, the *)
(* picture it is made of and the tray detector of x11ut, the address       *)
(* monitor of netut, the process statistics of psutil, the services,       *)
(* clients and dumps of mdns, and one that keeps bloom filters.  A         *)
(* behaviour is about one of them, chosen at the start: they share no      *)
(* state, so what holds of every behaviour here holds of each program by   *)
(* itself, and their states add up.                                        *)
(***************************************************************************)
EXTENDS Integers

CONSTANTS Started,                                              \* those chosen from
          FadeStep, Options, Heights, Indices,                  \* the tray icon
          Tries,                                                \* the detector
          Filters, Elements, First, Second, Shapes, MaxSaves,   \* the bloom filters
          Ifaces, Addrs, Iface, Peer, LinkLocal, Present, V6,   \* the addresses
          Loopback, Buffer, Room,
          Pids, Names, Shown, Argv0, Kernel, Threads,           \* the processes
          Churn, Batch, Slack, Calls, Demo,
          Levels, Side, Target, Few, Table, Truncated,          \* the pictures
          Services, Clients, Dumps, Families,                   \* the mdns programs
          Requests, Foreign, MaxForeign, MaxLost,
          None

VARIABLES
    program,  \* what this behaviour is about
    phase, tray,
    at, window, manager, request, embedded, running, tries, menu,
    filter, bloomed, added, saved, saves, crashed,
    addrs, down, gone, queue, overrun, monitor, socket, thread, list, view, left, shown,
    table, churn, todo, place, out, answer, steady, held,
    file, step, pixels, xpm,
    srv, cli, cache, datagrams, foreign, lost

Tray == INSTANCE X11Tray
Detect == INSTANCE TrayDetect
Bloom == INSTANCE BloomFilter
Ip == INSTANCE IpMonitor
Process == INSTANCE ProcessTable WITH at <- place
Xpm == INSTANCE XpmImage
Mdns == INSTANCE MdnsService WITH queue <- datagrams

ASSUME DesktopAssumption ==
    /\ Tray!TrayAssumption /\ Detect!TriesAssumption /\ Bloom!BloomAssumption /\ Ip!IpAssumption
    /\ Process!ProcessAssumption /\ Xpm!XpmAssumption /\ Mdns!MdnsAssumption

icon == <<phase, tray>>
detector == <<at, window, manager, request, embedded, running, tries, menu>>
bloom == <<filter, bloomed, added, saved, saves, crashed>>
addresses == <<addrs, down, gone, queue, overrun, monitor, socket, thread, list, view, left, shown>>
processes == <<table, churn, todo, place, out, answer, steady, held>>
pictures == <<file, step, pixels, xpm>>
services == <<srv, cli, cache, datagrams, foreign, lost>>
vars == <<program, icon, detector, bloom, addresses, processes, pictures, services>>

Init ==
    /\ program \in Started
    /\ Tray!Init /\ Detect!Init /\ Bloom!Init /\ Ip!Init /\ Process!Init /\ Xpm!Init /\ Mdns!Init
    /\ program = "detector" \/ manager
    /\ program = "bloom" \/ bloomed.head = "none"
    /\ program = "processes" \/ (Process!Alive = {} /\ todo = Process!main_demo_process_threads_count)

About(p, others) == program = p /\ UNCHANGED <<program, others>>

Next ==
    \/ About("tray", <<detector, bloom, addresses, processes, pictures, services>>) /\ Tray!Next
    \/ About("detector", <<icon, bloom, addresses, processes, pictures, services>>) /\ Detect!Next
    \/ About("bloom", <<icon, detector, addresses, processes, pictures, services>>) /\ Bloom!Next
    \/ About("addresses", <<icon, detector, bloom, processes, pictures, services>>) /\ Ip!Next
    \/ About("processes", <<icon, detector, bloom, addresses, pictures, services>>) /\ Process!Next
    \/ About("pictures", <<icon, detector, bloom, addresses, processes, services>>) /\ Xpm!Next
    \/ About("services", <<icon, detector, bloom, addresses, processes, pictures>>) /\ Mdns!Next

\* Each program's own fairness.
Fairness ==
    /\ WF_icon(program = "tray" /\ Tray!Update)
    /\ WF_detector(program = "detector" /\ Detect!Program)
    /\ WF_addresses(program = "addresses" /\ (Ip!Turn \/ Ip!Select \/ Ip!netut__parse_netlink_message))
    /\ WF_processes(program = "processes" /\ Process!Step)
    /\ WF_services(program = "services" /\ Mdns!Turns)

Spec == Init /\ [][Next]_vars /\ Fairness

---------------------------------------------------------------------------
\* Every variable of the seven has its type.
TypeOK ==
    /\ Tray!TypeOK /\ Detect!TypeOK /\ Bloom!TypeOK /\ Ip!TypeOK /\ Process!TypeOK
    /\ Xpm!TypeOK /\ Mdns!TypeOK

\* The highlighted item can be clicked, the menu and the icon are in the language
\* and theme in force, what is on the screen is what the program thinks is there,
\* and the menu's font is open once while there is a menu.
MenuSound ==
    /\ Tray!HoverOnItem /\ Tray!MenuFollowsSettings /\ Tray!FontHeld
    /\ Tray!ScreenIsCurrent /\ Tray!IconFollowsTheme

\* What a program was told it knows: a bloom filter denies nothing it was given,
\* merged with or loaded, who has read every message of the kernel has its
\* addresses, a finished listing tells of the processes there were, an icon shows
\* the picture of its file, and services are found while they serve and forgotten
\* once they have left.
ToldIsKnown ==
    /\ Bloom!Remembers /\ Ip!CaughtUp /\ Process!Listed
    /\ Xpm!PictureKept /\ Mdns!Found /\ Mdns!Withdrawn

\* A notification whose time has passed goes, an icon finds a late manager, and
\* stopping the address monitor ends the call that blocks in it.
Settles == Tray!FadesOut /\ Detect!Embeds /\ Ip!StopReturns

\* A watch on a process that has gone ends, and so does a client's wait for answers.
WaitsEnd == Process!WatchEnds /\ Mdns!ClientEnds
====
