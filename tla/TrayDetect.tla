---- MODULE TrayDetect ----
(***************************************************************************)
(* x11ut/tray_detect.c: a tray icon that asks the tray's manager to embed  *)
(* it, asks again while there is none, and has one menu.  The menu's       *)
(* window is asked for with a height of 0, which the X server refuses with *)
(* an error that only the error handler sees: there is no such window, no  *)
(* event of it ever comes, and handle_menu_click, the items' callbacks and *)
(* the answer to a leave are never reached.                                *)
(***************************************************************************)
EXTENDS Naturals

CONSTANT Tries  \* embedding requests after the first: 5

\* What an instance has to satisfy.
TriesAssumption == Tries \in Nat

VARIABLES
    at,       \* main's place: init, icon, embed, menu, loop or exited
    window,   \* the icon's window: none, made, mapped or gone
    manager,  \* there is a tray manager, which docks what asks it to
    request,  \* to dock the window: none; found or stale: it has an addressee, who
              \* is there or has left since; heard or astray: sent, and likewise
    embedded, running, tries,
    menu      \* the program's record of its menu: none, hidden or visible

vars == <<at, window, manager, request, embedded, running, tries, menu>>

Init ==
    /\ at = "init" /\ window = "none" /\ manager \in BOOLEAN /\ request = "none"
    /\ embedded = FALSE /\ running = TRUE /\ tries = 0 /\ menu = "none"

---------------------------------------------------------------------------
\* Without a display the program ends.
x11ut__tray_init ==
    /\ at = "init"
    /\ \/ at' = "icon" /\ window' = "made"
       \/ at' = "exited" /\ UNCHANGED window
    /\ UNCHANGED <<manager, request, embedded, running, tries, menu>>

\* The picture is the built-in one, since main gives no data.
x11ut__tray_set_icon ==
    /\ at = "icon" /\ at' = "embed"
    /\ UNCHANGED <<window, manager, request, embedded, running, tries, menu>>

\* main's next place when x11ut__tray_embed returns, whatever it returns.
Returned ==
    /\ at' = IF at = "embed" THEN "menu" ELSE at
    /\ tries' = IF at = "embed" THEN tries ELSE tries + 1

embed_marks_first ==
    /\ \/ manager /\ request' = "found" /\ UNCHANGED <<at, tries>>
       \/ ~manager /\ Returned /\ UNCHANGED request
    /\ embedded' = TRUE

\* The manager is the owner of the tray's selection; the call goes on if there is one.
x11ut__tray_embed ==
    /\ \/ manager /\ request' = "found" /\ UNCHANGED <<at, tries>>
       \/ ~manager /\ Returned /\ UNCHANGED request
    /\ UNCHANGED embedded

Embed ==
    /\ at = "embed" /\ request = "none"
    /\ x11ut__tray_embed
    /\ UNCHANGED <<window, manager, running, menu>>

\* XSendEvent asks the server, which knows of no error yet: its result is never 0.
Send ==
    /\ request \in {"found", "stale"}
    /\ request' = IF request = "found" THEN "heard" ELSE "astray"
    /\ UNCHANGED <<at, window, manager, embedded, running, tries, menu>>

\* After 100 ms the window is mapped and the icon is marked as embedded,
\* whatever has become of the request.
MapWindow ==
    /\ request \in {"heard", "astray"} /\ ~embedded /\ at \in {"embed", "loop"}
    /\ window' = IF window = "gone" THEN "gone" ELSE "mapped"
    /\ embedded' = TRUE /\ Returned
    /\ UNCHANGED <<manager, request, running, menu>>

\* Nothing else runs while x11ut__tray_embed does.
Embedding == request # "none" /\ ~embedded

\* With its four items; Xlib gives an id before the server refuses.
x11ut__menu_create ==
    /\ at = "menu" /\ at' = "loop"
    /\ \E made \in {"none", "hidden"} : menu' = made
    /\ UNCHANGED <<window, manager, request, embedded, running, tries>>

---------------------------------------------------------------------------
Retry_unbounded ==
    /\ at = "loop" /\ running /\ ~embedded /\ request = "none"
    /\ x11ut__tray_embed
    /\ UNCHANGED <<window, manager, running, menu>>

\* Every three seconds of the loop, at most Tries times.
Retry ==
    /\ at = "loop" /\ running /\ ~embedded /\ tries < Tries /\ request = "none"
    /\ x11ut__tray_embed
    /\ UNCHANGED <<window, manager, running, menu>>

x11ut__menu_show == menu # "none" /\ menu' = "visible"

\* A button on the icon, which is on the screen when mapped.
x11ut__tray_handle_button ==
    /\ at = "loop" /\ running /\ ~Embedding /\ window = "mapped"
    /\ x11ut__menu_show
    /\ UNCHANGED <<at, window, manager, request, embedded, running, tries>>

\* The manager ends.  What it docked ends with it unless it was in the save-set.
ManagerLeaves ==
    /\ manager /\ at # "exited" /\ manager' = FALSE
    /\ request' = CASE request = "found" -> "stale" [] request = "heard" -> "astray" [] OTHER -> request
    /\ window' \in IF request = "heard" THEN {"gone", window} ELSE {window}
    /\ UNCHANGED <<at, embedded, running, tries, menu>>

ManagerComes ==
    /\ ~manager /\ at # "exited" /\ manager' = TRUE
    /\ UNCHANGED <<at, window, request, embedded, running, tries, menu>>

\* DestroyNotify for the icon's window.
x11ut__tray_process_events ==
    /\ at = "loop" /\ running /\ ~Embedding /\ window = "gone"
    /\ running' = FALSE
    /\ UNCHANGED <<at, window, manager, request, embedded, tries, menu>>

\* Menu, icon and window are given back and the display is closed.
x11ut__tray_cleanup ==
    /\ at = "loop" /\ ~running
    /\ at' = "exited" /\ window' = "none" /\ menu' = "none" /\ embedded' = FALSE
    /\ UNCHANGED <<manager, request, running, tries>>

Program ==
    \/ x11ut__tray_init \/ x11ut__tray_set_icon \/ x11ut__menu_create
    \/ Embed \/ Retry \/ Send \/ MapWindow
    \/ x11ut__tray_process_events \/ x11ut__tray_cleanup

Next == Program \/ x11ut__tray_handle_button \/ ManagerLeaves \/ ManagerComes

Spec == Init /\ [][Next]_vars /\ WF_vars(Program)

---------------------------------------------------------------------------
\* Every variable has its type.
TypeOK ==
    /\ at \in {"init", "icon", "embed", "menu", "loop", "exited"}
    /\ window \in {"none", "made", "mapped", "gone"} /\ tries \in 0..Tries
    /\ {manager, embedded, running} \subseteq BOOLEAN
    /\ request \in {"none", "found", "stale", "heard", "astray"}
    /\ menu \in {"none", "hidden", "visible"}

\* A manager that comes late is still asked: with a try left and a manager that
\* stays, the request is sent.  One request at most is: one that its addressee
\* left too soon to answer marks the icon as embedded, and is never repeated.
Embeds ==
    (at = "loop" /\ running /\ tries < Tries /\ manager)
        ~> (request \in {"heard", "astray"} \/ ~running \/ ~manager)
====
