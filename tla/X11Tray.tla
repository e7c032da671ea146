---- MODULE X11Tray ----
(***************************************************************************)
(* x11ut/x11tray.c: a tray icon with a popup menu, a tooltip and a         *)
(* notification bubble, and the program that shows it.  One thread drains  *)
(* X events and then fades the notification; menu callbacks run inside the *)
(* event handler and may throw the clicked menu away.  The C functions are *)
(* operators on the tray structure, and an event handler applies them in   *)
(* the code's order.  Geometry, colours and fonts' metrics are left out.   *)
(***************************************************************************)
EXTENDS Integers, Sequences

CONSTANTS FadeStep,    \* fade_step: 10 of an opacity of 255
          Options,     \* the program's options: dark, english, icon
          Heights,     \* heights in the menu, in pixels, at which the user points
          Indices      \* items whose marks the program sets

\* What an instance has to satisfy.
TrayAssumption ==
    /\ FadeStep \in 1..255
    /\ Options \subseteq [dark : BOOLEAN, english : BOOLEAN, icon : {"default", "test", "file"}]
    /\ Heights \subseteq Nat /\ Indices \subseteq Nat

VARIABLES
    phase,    \* boot, start, loop, exited or crashed
    tray      \* the structure x11ut__tray_t

vars == <<phase, tray>>

Unset == "none"
Null == [null |-> TRUE]    \* a null pointer to a structure

\* The palette of the theme in force.  The two icons the program makes itself
\* take their colours from the theme too, when they are generated.
x11ut__init_colors(t) == [t EXCEPT !.colors = t.dark]

x11ut__generate_default_icon(t) == [kind |-> "default", dark |-> t.dark]

x11ut__generate_test_icon(t) == [kind |-> "test", dark |-> t.dark]

---------------------------------------------------------------------------
\* An item's action, and whether it is a plain, checkable or separating item.
Item(does, kind, checked) == [does |-> does, kind |-> kind, checked |-> checked]
x11ut__menu_add_item(does) == Item(does, "plain", FALSE)
x11ut__menu_add_checkable_item(does, initial_state) == Item(does, "check", initial_state)
x11ut__menu_add_separator == Item(Unset, "separator", FALSE)

MenuItems(dark) == <<
    x11ut__menu_add_item("language"), x11ut__menu_add_item("dark"), x11ut__menu_add_separator,
    x11ut__menu_add_item("log"), x11ut__menu_add_item("log"), x11ut__menu_add_separator,
    x11ut__menu_add_checkable_item("log", FALSE), x11ut__menu_add_checkable_item("log", TRUE),
    x11ut__menu_add_checkable_item("log", dark), x11ut__menu_add_separator,
    x11ut__menu_add_item("log"), x11ut__menu_add_item("log"), x11ut__menu_add_separator,
    x11ut__menu_add_item("exit")>>

NotificationItems == <<x11ut__menu_add_separator>> \o [i \in 1..4 |-> x11ut__menu_add_item("notify")]

x11ut__add_notification_menu_items(t) ==
    IF t.menu = Null THEN t ELSE [t EXCEPT !.menu.items = @ \o NotificationItems]

\* A font whose colours cannot be allocated is closed again; refs counts how
\* often the menu's font is open.
x11ut__load_font(t, loads) == IF loads THEN [t EXCEPT !.refs = @ + 1] ELSE t

x11ut__menu_create(t, loads) ==
    IF loads
      THEN [english |-> t.english, dark |-> t.dark, items |-> <<>>, visible |-> FALSE, hover |-> -1,
            screen |-> Null]
      ELSE Null

x11ut__create_menu(t, loads) ==
    LET menu == x11ut__menu_create(t, loads) IN
    [x11ut__load_font(t, loads) EXCEPT
        !.menu = IF menu = Null THEN Null ELSE [menu EXCEPT !.items = MenuItems(t.dark)]]

\* What there is to see of a menu: the item highlighted, the marks set and the
\* colours.  A menu's window shows it as it was when it was last drawn.
Look(t) ==
    [hover |-> t.menu.hover, colors |-> t.colors,
     marked |-> {i \in DOMAIN t.menu.items : t.menu.items[i].checked}]

x11ut__menu_draw(t) == [t EXCEPT !.menu.screen = Look(t)]

menu_hide_keeps_hover(t) == IF t.menu = Null THEN t ELSE [t EXCEPT !.menu.visible = FALSE]

x11ut__menu_hide(t) ==
    IF t.menu = Null THEN t
    ELSE IF t.menu.visible THEN [t EXCEPT !.menu.visible = FALSE, !.menu.hover = -1] ELSE t

\* The menu is drawn before its window is mapped.
x11ut__menu_show(t) == [x11ut__menu_draw([t EXCEPT !.menu.hover = -1]) EXCEPT !.menu.visible = TRUE]

menu_cleanup_keeps_font(t) == [t EXCEPT !.menu = Null]

\* The menu, its items and its font go.
x11ut__menu_cleanup(t) == [t EXCEPT !.menu = Null, !.refs = @ - 1]

\* C's division: 24 pixels above the first item still count as that item.
ItemAt(y) == IF y < 5 THEN 0 ELSE (y - 5) \div 30

IsItem(menu, i) == i < Len(menu.items) /\ menu.items[i + 1].kind # "separator"

hover_drawn_on_items(t, y) ==
    IF ~t.menu.visible THEN t
    ELSE IF IsItem(t.menu, ItemAt(y)) THEN x11ut__menu_draw([t EXCEPT !.menu.hover = ItemAt(y)])
    ELSE [t EXCEPT !.menu.hover = -1]

\* Drawn again only when another item, or none, is pointed at.
x11ut__update_menu_hover(t, y) ==
    LET hover == IF IsItem(t.menu, ItemAt(y)) THEN ItemAt(y) ELSE -1 IN
    IF ~t.menu.visible \/ hover = t.menu.hover THEN t
    ELSE x11ut__menu_draw([t EXCEPT !.menu.hover = hover])

\* Of an item that can be checked, and drawn when the menu is on the screen.
x11ut__menu_set_checked(t, i, checked) ==
    IF t.menu.items[i].kind # "check" THEN t
    ELSE LET set == [t EXCEPT !.menu.items[i].checked = checked] IN
         IF t.menu.visible THEN x11ut__menu_draw(set) ELSE set

---------------------------------------------------------------------------
\* The bubble.  property is what the window manager was last told of its
\* opacity, "opaque" when nothing; ink the theme its text was coloured for,
\* once and for all, and paper the one its background was last drawn in.
x11ut__notification_create(t, loads) ==
    IF loads
      THEN [visible |-> FALSE, opacity |-> 255, property |-> "opaque", due |-> FALSE,
            ink |-> t.dark, paper |-> t.dark]
      ELSE Null

x11ut__notification_draw(t) == [t EXCEPT !.notification.paper = t.dark]

\* opacity * 0xFFFFFFFF / 255 on 32 unsigned bits: the product is 2^32 - opacity,
\* and 2^32 is 255 * 16843009 + 1, so the quotient is about 1/255 of opaque.
\* The model keeps what an eye sees of it.
WindowOpacity(opacity) ==
    LET quotient == IF opacity <= 0 THEN (-opacity) \div 255 ELSE 16843009 + (1 - opacity) \div 255 IN
    IF quotient = 0 THEN "invisible" ELSE IF quotient < 16843010 THEN "faint" ELSE "opaque"

\* The old opacity goes to the window before it is reset to 255.
x11ut__notification_show(t) ==
    IF t.notification = Null THEN t
    ELSE [x11ut__notification_draw(t) EXCEPT
            !.notification.visible = TRUE, !.notification.opacity = 255, !.notification.due = FALSE,
            !.notification.property = IF t.notification.opacity < 255
                                        THEN WindowOpacity(t.notification.opacity) ELSE @]

x11ut__notification_hide(t) == [t EXCEPT !.notification.visible = FALSE]

update_never_hides(t) ==
    LET n == t.notification IN
    IF n = Null THEN t
    ELSE IF ~(n.visible /\ n.due) THEN t
    ELSE [t EXCEPT !.notification.opacity = IF n.opacity > FadeStep THEN n.opacity - FadeStep ELSE 0]

\* Once the time shown has passed, each turn of the main loop fades a step.
x11ut__notification_update(t) ==
    LET n == t.notification
        opacity == n.opacity - FadeStep IN
    IF n = Null THEN t
    ELSE IF ~(n.visible /\ n.due) THEN t
    ELSE IF opacity <= 0
      THEN x11ut__notification_hide([t EXCEPT !.notification.opacity = opacity])
      ELSE [t EXCEPT !.notification.opacity = opacity, !.notification.property = WindowOpacity(opacity)]

x11ut__notification_cleanup(t) == [t EXCEPT !.notification = Null]

---------------------------------------------------------------------------
\* The tooltip draws with the menu's font when there is a menu, else its own.
x11ut__tooltip_create(t, loads) ==
    IF t.menu # Null THEN [font |-> "menu", text |-> Unset, visible |-> FALSE]
    ELSE IF loads THEN [font |-> "own", text |-> Unset, visible |-> FALSE]
    ELSE Null

BuiltIn(t) == IF t.english THEN "English" ELSE "Chinese"

\* A tooltip that has a text keeps it.
x11ut__tooltip_show(t, text) ==
    [t EXCEPT !.tooltip.text = IF @ = Unset THEN text ELSE @, !.tooltip.visible = TRUE]

x11ut__tooltip_hide(t) == IF t.tooltip = Null THEN t ELSE [t EXCEPT !.tooltip.visible = FALSE]

\* closes: whether the font is taken for the tooltip's own.  It is when there
\* is no menu; while tray->menu still points at the menu just freed, the
\* comparison reads freed memory and may come out either way.
x11ut__tooltip_cleanup(t, closes) ==
    IF t.tooltip = Null THEN t
    ELSE [t EXCEPT !.tooltip = Null, !.refs = IF t.tooltip.font = "menu" /\ closes THEN @ - 1 ELSE @]

x11ut__tray_set_tooltip(t, tip, loads) ==
    LET made == IF t.tooltip = Null THEN x11ut__tooltip_create(t, loads) ELSE t.tooltip IN
    [t EXCEPT !.tooltip = [made EXCEPT !.text = tip]]

---------------------------------------------------------------------------
\* What menu items do.  The two that rebuild the menu free the one clicked.
Rebuild(t, loads) == IF t.menu = Null THEN t ELSE x11ut__create_menu(x11ut__menu_cleanup(t), loads)

x11ut__switch_language_callback(t, loads) == Rebuild([t EXCEPT !.english = ~@], loads)

toggle_keeps_menu(t, loads) == [t EXCEPT !.dark = ~@]

x11ut__draw_default_icon(t) == [t EXCEPT !.icon = x11ut__generate_default_icon(t)]

x11ut__toggle_dark_mode_callback(t, loads) ==
    Rebuild(x11ut__draw_default_icon(x11ut__init_colors([t EXCEPT !.dark = ~@])), loads)

x11ut__exit_callback(t) == [t EXCEPT !.running = FALSE]

x11ut__show_test_notification_callback(t) == x11ut__notification_show(t)

Rebuilds(item) == item.does \in {"language", "dark"}

Callback(t, item, loads) ==
    CASE item.does = "language" -> x11ut__switch_language_callback(t, loads)
      [] item.does = "dark" -> x11ut__toggle_dark_mode_callback(t, loads)
      [] item.does = "exit" -> x11ut__exit_callback(t)
      [] item.does = "notify" -> x11ut__show_test_notification_callback(t)
      [] OTHER -> t

Toggled(t, i) ==
    IF t.menu.items[i + 1].kind = "check"
      THEN [t EXCEPT !.menu.items[i + 1].checked = ~@] ELSE t

\* After the callback the handler redraws and hides the menu it was given.
\* When the callback freed it, that draws and hides through a dangling pointer:
\* the program goes on, or crashes.
x11ut__handle_menu_click(y, loads, crash) ==
    LET i == ItemAt(y)
        item == tray.menu.items[i + 1] IN
    /\ tray.menu.visible
    /\ IF ~IsItem(tray.menu, i)
         THEN tray' = x11ut__menu_hide(tray) /\ ~crash
         ELSE IF Rebuilds(item)
           THEN tray' = Callback(Toggled(tray, i), item, loads)
           ELSE tray' = x11ut__menu_hide(x11ut__menu_draw(Callback(Toggled(tray, i), item, loads)))
                /\ ~crash
    /\ phase' = IF crash THEN "crashed" ELSE "loop"

---------------------------------------------------------------------------
NoTray ==
    [display |-> Unset, running |-> FALSE, dark |-> FALSE, english |-> FALSE, embedded |-> FALSE,
     colors |-> FALSE, icon |-> Null, menu |-> Null, tooltip |-> Null, notification |-> Null, refs |-> 0]

Init == phase = "boot" /\ tray = NoTray

\* A step that fails closes the display again, but leaves the pointer to it.
x11ut__tray_init(works) ==
    LET dark == x11ut__init_colors([NoTray EXCEPT !.running = TRUE, !.dark = TRUE]) IN
    IF works THEN x11ut__draw_default_icon([dark EXCEPT !.display = "open"])
    ELSE [dark EXCEPT !.display = "closed"]

\* An image that cannot be loaded, converted or drawn leaves the default icon.
x11ut__tray_set_icon_with_data(t, works) ==
    IF works THEN [t EXCEPT !.icon = x11ut__generate_test_icon(t)] ELSE x11ut__draw_default_icon(t)
x11ut__tray_set_icon_from_xpm(t, works) ==
    IF works THEN [t EXCEPT !.icon = [kind |-> "file"]] ELSE x11ut__draw_default_icon(t)
x11ut__tray_set_icon(t) == x11ut__draw_default_icon(t)

\* With no tray to dock in, the icon is an ordinary window.
x11ut__tray_embed(t, docked) == [t EXCEPT !.embedded = docked]

\* -h and a wrong option end the program instead.
x11ut__parse_args == Options

\* main up to the creation of the menu.
main_init(args, works, drawn, docked) ==
    LET made == x11ut__tray_init(works)
        t == x11ut__init_colors([made EXCEPT !.dark = args.dark, !.english = args.english]) IN
    /\ phase = "boot"
    /\ works \/ ~(drawn \/ docked)
    /\ args.icon = "default" => ~drawn
    /\ IF works
         THEN /\ phase' = "start"
              /\ tray' = x11ut__tray_embed(
                    CASE args.icon = "file" -> x11ut__tray_set_icon_from_xpm(t, drawn)
                      [] args.icon = "test" -> x11ut__tray_set_icon_with_data(t, drawn)
                      [] OTHER -> x11ut__tray_set_icon(t), docked)
         ELSE phase' = "exited" /\ tray' = made

\* The rest of it, up to the event loop, with the welcome notification.
main_start(menu, bubble, tip) ==
    LET withMenu == x11ut__create_menu(tray, menu)
        noted == [withMenu EXCEPT !.notification = x11ut__notification_create(withMenu, bubble)]
        added == IF bubble THEN x11ut__add_notification_menu_items(noted) ELSE noted
        tipped == [added EXCEPT !.tooltip = x11ut__tooltip_create(added, tip)] IN
    /\ phase = "start"
    /\ phase' = "loop"
    /\ tray' = x11ut__notification_show(tipped)

\* x11ut__tray_process_events, one X event at a time.
Loop == phase = "loop" /\ tray.running
Stay(t) == phase' = "loop" /\ tray' = t

\* A window comes back into view.  The icon and the tooltip come back as they were.
Expose ==
    /\ Loop
    /\ \/ tray.menu # Null /\ tray.menu.visible /\ Stay(x11ut__menu_draw(tray))
       \/ tray.notification # Null /\ tray.notification.visible /\ Stay(x11ut__notification_draw(tray))

\* The tray icon is pressed.
ButtonPressIcon == Loop /\ tray.menu # Null /\ Stay(x11ut__menu_show(tray))

\* The menu is pressed, also when other events have hidden it meanwhile.
ButtonPressMenu ==
    /\ Loop /\ tray.menu # Null
    /\ \E y \in Heights, loads, crash \in BOOLEAN : x11ut__handle_menu_click(y, loads, crash)

MotionNotify ==
    /\ Loop /\ tray.menu # Null
    /\ \E y \in Heights : Stay(x11ut__update_menu_hover(tray, y))

EnterNotify == Loop /\ tray.tooltip # Null /\ Stay(x11ut__tooltip_show(tray, BuiltIn(tray)))

LeaveNotifyIcon == Loop /\ tray.tooltip # Null /\ Stay(x11ut__tooltip_hide(tray))

\* The menu loses the pointer or the focus.
LeaveMenu == Loop /\ tray.menu # Null /\ Stay(x11ut__menu_hide(tray))

\* Leaving the bubble starts its time anew, but not its opacity.
LeaveNotifyBubble ==
    /\ Loop /\ tray.notification # Null
    /\ tray.notification.visible
    /\ Stay([tray EXCEPT !.notification.due = FALSE])

DestroyNotify == Loop /\ Stay(x11ut__exit_callback(tray))

\* The API: a program that runs the loop itself sets a tooltip of its own, or
\* shows and hides a notification.  A tooltip that cannot be made is then
\* written through a null pointer.
SetTooltip(tip, loads) ==
    /\ Loop
    /\ IF tray.tooltip = Null /\ tray.menu = Null /\ ~loads
         THEN phase' = "crashed" /\ UNCHANGED tray
         ELSE Stay(x11ut__tray_set_tooltip(tray, tip, loads))

x11ut__hide_notification ==
    /\ Loop /\ tray.notification # Null
    /\ Stay(x11ut__notification_hide(tray))

x11ut__show_notification ==
    /\ Loop /\ tray.notification # Null
    /\ Stay(x11ut__notification_show(tray))

\* A visible bubble's time may be over with the new duration, or not any more.
x11ut__set_notification_duration ==
    /\ Loop /\ tray.notification # Null
    /\ tray.notification.visible
    /\ \E due \in BOOLEAN : Stay([tray EXCEPT !.notification.due = due])

SetChecked ==
    /\ Loop /\ tray.menu # Null
    /\ \E i \in Indices \cap DOMAIN tray.menu.items, checked \in BOOLEAN :
          Stay(x11ut__menu_set_checked(tray, i, checked))

\* time() passes the duration.
Tick ==
    /\ Loop /\ tray.notification # Null
    /\ tray.notification.visible
    /\ Stay([tray EXCEPT !.notification.due = TRUE])

\* The queue of events is empty: the end of x11ut__tray_process_events.
Update == Loop /\ Stay(x11ut__notification_update(tray))

x11ut__tray_cleanup(t, closes) ==
    [x11ut__tooltip_cleanup(IF t.menu = Null THEN t ELSE x11ut__menu_cleanup(x11ut__menu_hide(t)),
                            t.menu = Null \/ closes)
        EXCEPT !.display = Unset, !.running = FALSE, !.icon = Null, !.embedded = FALSE]

main_end(closes) ==
    /\ phase = "loop" /\ ~tray.running
    /\ phase' = "exited"
    /\ tray' = x11ut__tray_cleanup(x11ut__notification_cleanup(tray), closes)

Next ==
    \/ \E args \in x11ut__parse_args, works, drawn, docked \in BOOLEAN :
          main_init(args, works, drawn, docked)
    \/ \E menu, bubble, tip \in BOOLEAN : main_start(menu, bubble, tip)
    \/ ButtonPressIcon \/ ButtonPressMenu \/ MotionNotify
    \/ EnterNotify \/ LeaveNotifyIcon \/ LeaveMenu \/ LeaveNotifyBubble
    \/ DestroyNotify
    \/ \E loads \in BOOLEAN : SetTooltip("tip", loads)
    \/ x11ut__show_notification \/ x11ut__hide_notification \/ x11ut__set_notification_duration
    \/ SetChecked \/ Expose
    \/ Tick \/ Update
    \/ \E closes \in BOOLEAN : main_end(closes)

\* The loop turns as long as it runs; events come or do not.
Fairness == WF_vars(Update)

Spec == Init /\ [][Next]_vars /\ Fairness

---------------------------------------------------------------------------
\* Every variable has its type.
TypeOK ==
    /\ phase \in {"boot", "start", "loop", "exited", "crashed"}
    /\ tray.display \in {Unset, "open", "closed"}
    /\ tray.icon = Null \/ tray.icon.kind \in {"default", "test", "file"}
    /\ {tray.colors, tray.running, tray.dark, tray.english, tray.embedded} \subseteq BOOLEAN
    /\ tray.menu # Null => tray.menu.hover \in -1..(Len(tray.menu.items) - 1)
    /\ tray.tooltip # Null => /\ tray.tooltip.font \in {"own", "menu"}
                              /\ tray.tooltip.text \in {Unset, "English", "Chinese", "tip"}
    /\ tray.notification # Null => /\ tray.notification.opacity \in (-FadeStep)..255
                                   /\ {tray.notification.ink, tray.notification.paper} \subseteq BOOLEAN
                                   /\ tray.notification.property \in {"opaque", "faint", "invisible"}
    /\ tray.refs \in -1..1

\* The highlighted item belongs to a menu on the screen and can be clicked,
\* whatever order clicks, motions, focus losses and rebuilds come in.
HoverOnItem ==
    tray.menu # Null => (tray.menu.hover # -1 =>
        tray.menu.visible /\ IsItem(tray.menu, tray.menu.hover))

\* A menu shows the language and theme in force: each callback that changes
\* one rebuilds it, in the middle of its own click.
MenuFollowsSettings ==
    phase = "loop" /\ tray.menu # Null => tray.menu.english = tray.english /\ tray.menu.dark = tray.dark

\* A menu on the screen looks as it is: highlight, marks and colours were drawn
\* after the last change, though nothing draws in the turn of the loop itself.
ScreenIsCurrent ==
    phase = "loop" /\ tray.menu # Null => (tray.menu.visible => tray.menu.screen = Look(tray))

\* An icon the program made is in the theme in force: a change of the theme
\* draws it again, and puts it in the place of the user's picture.
IconFollowsTheme ==
    phase = "loop" => tray.colors = tray.dark /\ (tray.icon.kind # "file" => tray.icon.dark = tray.dark)

\* While the loop runs the menu's font is open once if there is a menu and not
\* at all otherwise: rebuilds neither leak it nor close it twice.
FontHeld == phase = "loop" => tray.refs = IF tray.menu = Null THEN 0 ELSE 1

\* A bubble whose time has passed goes, unless the pointer leaves it or it is
\* shown again.  A pointer that stays over it does not hold it up, although the
\* program announces that hovering pauses the fading: no EnterNotify is handled
\* for it.
FadesOut ==
    (Loop /\ tray.notification # Null /\ tray.notification.visible /\ tray.notification.due)
        ~> ~(Loop /\ tray.notification # Null /\ tray.notification.visible /\ tray.notification.due)

\* A bubble at full opacity is seen: notification_show resets it "to completely
\* opaque".  Not so: the window keeps what the last fade wrote.
ShownOpaque ==
    tray.notification # Null => (tray.notification.visible /\ tray.notification.opacity = 255 =>
        tray.notification.property = "opaque")

\* A bubble's text is coloured for the background it stands on.  Not so: the
\* theme may change after the bubble is made, and only the background follows.
InkOnPaper ==
    tray.notification # Null => (tray.notification.visible => tray.notification.ink = tray.notification.paper)
====
