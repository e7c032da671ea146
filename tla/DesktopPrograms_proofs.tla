---- MODULE DesktopPrograms_proofs ----
(***************************************************************************)
(* The programs of a desktop session keep what they promise, for every     *)
(* menu, filter, address, buffer, process, picture and datagram.  Each     *)
(* program has an invariant of its own, its lemmas first; they are put     *)
(* together at the end.                                                    *)
(***************************************************************************)
EXTENDS DesktopPrograms, Sequences, FiniteSets, SequenceTheorems, FiniteSetTheorems, TLAPS

---------------------------------------------------------------------------
(* The tray icon and its menu. *)

Kinds == {"plain", "check", "separator"}
Deeds == {"none", "language", "dark", "log", "exit", "notify"}
ItemType == [does : Deeds, kind : Kinds, checked : BOOLEAN]
LookType == [hover : Int, colors : BOOLEAN, marked : SUBSET Nat]
MenuType == [english : BOOLEAN, dark : BOOLEAN, items : Seq(ItemType), visible : BOOLEAN,
             hover : Int, screen : LookType \cup {Tray!Null}]
TipType == [font : {"own", "menu"}, text : {"none", "English", "Chinese", "tip"}, visible : BOOLEAN]
BubbleFields == [visible : BOOLEAN, opacity : (-FadeStep)..255, property : {"opaque", "faint", "invisible"},
                 due : BOOLEAN, ink : BOOLEAN, paper : BOOLEAN]
\* A bubble that has faded is hidden in the same turn.
BubbleType == {n \in BubbleFields : n.visible => n.opacity > 0}
IconType == [kind : {"default", "test"}, dark : BOOLEAN] \cup [kind : {"file"}]
TrayType == [display : {"none", "open", "closed"}, running : BOOLEAN, dark : BOOLEAN, english : BOOLEAN,
             embedded : BOOLEAN, colors : BOOLEAN, icon : IconType \cup {Tray!Null},
             menu : MenuType \cup {Tray!Null}, tooltip : TipType \cup {Tray!Null},
             notification : BubbleType \cup {Tray!Null}, refs : -1..1]

\* A null pointer points to nothing.
LEMMA NullIsNone ==
    /\ Tray!Null \notin MenuType /\ Tray!Null \notin TipType
    /\ Tray!Null \notin BubbleType /\ Tray!Null \notin IconType
<1>1. DOMAIN Tray!Null = {"null"}
  BY DEF Tray!Null
<1>2. \A m \in MenuType : DOMAIN m = {"english", "dark", "items", "visible", "hover", "screen"}
  BY DEF MenuType
<1>3. \A m \in TipType : DOMAIN m = {"font", "text", "visible"}
  BY DEF TipType
<1>4. \A m \in BubbleType : DOMAIN m = {"visible", "opacity", "property", "due", "ink", "paper"}
  BY DEF BubbleType, BubbleFields
<1>5. \A m \in IconType : "kind" \in DOMAIN m
  BY DEF IconType
<1>6. QED
  BY <1>1, <1>2, <1>3, <1>4, <1>5

\* One field of the structure is written.
LEMMA WithMenu ==
    ASSUME NEW t \in TrayType, NEW m \in MenuType \cup {Tray!Null}
    PROVE  LET u == [t EXCEPT !.menu = m] IN
           /\ u \in TrayType /\ u.menu = m
           /\ u.dark = t.dark /\ u.english = t.english /\ u.colors = t.colors /\ u.icon = t.icon
           /\ u.refs = t.refs /\ u.tooltip = t.tooltip
           /\ u.notification = t.notification
BY DEF TrayType

LEMMA WithBubble ==
    ASSUME NEW t \in TrayType, NEW n \in BubbleType \cup {Tray!Null}
    PROVE  LET u == [t EXCEPT !.notification = n] IN
           /\ u \in TrayType /\ u.notification = n /\ u.menu = t.menu
           /\ u.dark = t.dark /\ u.english = t.english /\ u.colors = t.colors /\ u.icon = t.icon
           /\ u.refs = t.refs /\ u.tooltip = t.tooltip
BY DEF TrayType

LEMMA WithTip ==
    ASSUME NEW t \in TrayType, NEW n \in TipType \cup {Tray!Null}
    PROVE  LET u == [t EXCEPT !.tooltip = n] IN
           /\ u \in TrayType /\ u.tooltip = n /\ u.menu = t.menu
           /\ u.dark = t.dark /\ u.english = t.english /\ u.colors = t.colors /\ u.icon = t.icon
           /\ u.refs = t.refs /\ u.notification = t.notification
BY DEF TrayType

\* The program's own icon and colours are in the theme in force.
Themed(t) ==
    /\ t.colors = t.dark
    /\ t.icon # Tray!Null /\ (t.icon.kind # "file" => t.icon.dark = t.dark)

\* The highlighted item of a menu on the screen can be clicked.
HoverFine(m) ==
    /\ m.hover \in -1..(Len(m.items) - 1)
    /\ m.hover # -1 => m.visible /\ Tray!IsItem(m, m.hover)

Current(t) == t.menu.visible => t.menu.screen = Tray!Look(t)

\* All but what is on the screen: so it is between a change of a menu and its drawing.
Nearly(t) ==
    /\ Themed(t)
    /\ t.refs = IF t.menu = Tray!Null THEN 0 ELSE 1
    /\ t.menu # Tray!Null =>
         t.menu.english = t.english /\ t.menu.dark = t.dark /\ HoverFine(t.menu)

Sound(t) == Nearly(t) /\ (t.menu # Tray!Null => Current(t))

\* The structure while its menu is there.
Open(t) == t \in TrayType /\ Nearly(t) /\ t.menu # Tray!Null

\* Writing the menu of a structure so that it stays a menu of its settings.
LEMMA MenuWritten ==
    ASSUME NEW t, Open(t), NEW m \in MenuType, m.english = t.menu.english, m.dark = t.menu.dark,
           HoverFine(m)
    PROVE  LET u == [t EXCEPT !.menu = m] IN
           Open(u) /\ u.menu = m /\ u.colors = t.colors
<1> DEFINE u == [t EXCEPT !.menu = m]
<1>1. /\ u \in TrayType /\ u.menu = m
      /\ u.dark = t.dark /\ u.english = t.english /\ u.colors = t.colors /\ u.icon = t.icon
      /\ u.refs = t.refs
  BY WithMenu DEF Open
<1>2. m # Tray!Null
  BY NullIsNone
<1> HIDE DEF u
<1>3. Nearly(t) /\ t.menu # Tray!Null
  BY DEF Open
<1>4. Themed(u)
  BY <1>1, <1>3 DEF Nearly, Themed
<1>5. u.refs = 1
  BY <1>1, <1>3 DEF Nearly
<1>6. u.menu.english = u.english /\ u.menu.dark = u.dark /\ HoverFine(u.menu)
  BY <1>1, <1>3 DEF Nearly
<1>7. Open(u)
  BY <1>1, <1>2, <1>4, <1>5, <1>6 DEF Open, Nearly
<1>8. QED
  BY <1>1, <1>7 DEF u

LEMMA MenuOf == ASSUME NEW t, Open(t) PROVE t.menu \in MenuType /\ HoverFine(t.menu)
BY DEF Open, Nearly, TrayType

\* A drawing shows the menu as it is.
LEMMA DrawSound ==
    ASSUME NEW t, Open(t)
    PROVE  LET u == Tray!x11ut__menu_draw(t) IN
           /\ Open(u) /\ Sound(u)
           /\ u.menu.visible = t.menu.visible /\ u.menu.items = t.menu.items
<1> DEFINE m == [t.menu EXCEPT !.screen = Tray!Look(t)]
           u == [t EXCEPT !.menu = m]
<1>1. t.menu \in MenuType /\ HoverFine(t.menu) /\ t.colors \in BOOLEAN
  BY MenuOf DEF Open, TrayType
<1>2. DOMAIN t.menu.items \subseteq Nat
  BY <1>1 DEF MenuType
<1>3. Tray!Look(t) \in LookType
  BY <1>1, <1>2 DEF Tray!Look, LookType, MenuType
<1>4. /\ m \in MenuType /\ m.english = t.menu.english /\ m.dark = t.menu.dark
      /\ m.visible = t.menu.visible /\ m.items = t.menu.items /\ m.hover = t.menu.hover
      /\ m.screen = Tray!Look(t)
  BY <1>1, <1>3 DEF MenuType
<1>5. HoverFine(m)
  BY <1>1, <1>4 DEF HoverFine, Tray!IsItem
<1> HIDE DEF m
<1>6. Open(u) /\ u.menu = m /\ u.colors = t.colors
  BY <1>4, <1>5, MenuWritten
<1> HIDE DEF u
<1>7. Tray!Look(u) = Tray!Look(t)
  BY <1>4, <1>6 DEF Tray!Look
<1>8. Sound(u)
  BY <1>4, <1>6, <1>7 DEF Sound, Open, Current
<1>9. Tray!x11ut__menu_draw(t) = u
  BY DEF Tray!x11ut__menu_draw, u, m
<1>10. QED
  BY <1>4, <1>6, <1>8, <1>9

\* Hiding takes the highlight with it.
LEMMA HideSound ==
    ASSUME NEW t, Open(t)
    PROVE  LET u == Tray!x11ut__menu_hide(t) IN Open(u) /\ Sound(u)
<1> DEFINE m == [t.menu EXCEPT !.visible = FALSE, !.hover = -1]
           u == [t EXCEPT !.menu = m]
<1>1. t.menu \in MenuType /\ HoverFine(t.menu) /\ t.menu # Tray!Null
  BY MenuOf DEF Open
<1>2. CASE ~t.menu.visible
  BY <1>1, <1>2 DEF Tray!x11ut__menu_hide, Sound, Open, Current
<1>3. CASE t.menu.visible
  <2>1. /\ m \in MenuType /\ m.english = t.menu.english /\ m.dark = t.menu.dark
        /\ ~m.visible /\ m.items = t.menu.items /\ m.hover = -1
    <3>1. -1 \in Int
      OBVIOUS
    <3>2. m \in MenuType
      BY <1>1, <3>1 DEF MenuType
    <3>3. QED
      BY <1>1, <3>2 DEF MenuType
  <2>2. HoverFine(m)
    BY <1>1, <2>1 DEF HoverFine, MenuType
  <2> HIDE DEF m
  <2>3. Open(u) /\ u.menu = m /\ u.colors = t.colors
    BY <2>1, <2>2, MenuWritten
  <2>4. Tray!x11ut__menu_hide(t) = u
    BY <1>1, <1>3 DEF Tray!x11ut__menu_hide, u, m
  <2> HIDE DEF u
  <2>5. QED
    BY <2>1, <2>3, <2>4 DEF Sound, Open, Current
<1>4. QED
  BY <1>2, <1>3

\* A menu that is shown has no highlight yet, and is drawn before it is seen.
LEMMA ShowSound ==
    ASSUME NEW t, Open(t)
    PROVE  LET u == Tray!x11ut__menu_show(t) IN Open(u) /\ Sound(u)
<1> DEFINE m == [t.menu EXCEPT !.hover = -1]
           bare == [t EXCEPT !.menu = m]
           drawn == Tray!x11ut__menu_draw(bare)
           lit == [drawn.menu EXCEPT !.visible = TRUE]
           u == [drawn EXCEPT !.menu = lit]
<1>1. t.menu \in MenuType /\ HoverFine(t.menu)
  BY MenuOf
<1>2. /\ m \in MenuType /\ m.english = t.menu.english /\ m.dark = t.menu.dark
      /\ m.items = t.menu.items /\ m.hover = -1
  BY <1>1 DEF MenuType
<1>3. HoverFine(m)
  BY <1>1, <1>2 DEF HoverFine, MenuType
<1> HIDE DEF m
<1>4. Open(bare) /\ bare.menu = m
  BY <1>2, <1>3, MenuWritten
<1>5. /\ Open(drawn)
      /\ drawn.menu = [m EXCEPT !.screen = Tray!Look(bare)]
      /\ drawn.colors = bare.colors
  BY <1>4, DrawSound DEF Tray!x11ut__menu_draw, Open, TrayType
<1>6. drawn.menu.hover = -1 /\ drawn.menu.items = m.items /\ drawn.menu.screen = Tray!Look(bare)
  BY <1>2, <1>5 DEF MenuType
<1> HIDE DEF drawn
<1>7. drawn.menu \in MenuType /\ HoverFine(drawn.menu)
  BY <1>5, MenuOf
<1>8. /\ lit \in MenuType /\ lit.english = drawn.menu.english /\ lit.dark = drawn.menu.dark
      /\ lit.hover = -1 /\ lit.items = m.items /\ lit.screen = Tray!Look(bare)
  BY <1>6, <1>7 DEF MenuType
<1>9. HoverFine(lit)
  BY <1>6, <1>7, <1>8 DEF HoverFine
<1> HIDE DEF lit
<1>10. Open(u) /\ u.menu = lit /\ u.colors = drawn.colors
  BY <1>5, <1>8, <1>9, MenuWritten
<1> HIDE DEF u
<1>11. Tray!Look(u) = Tray!Look(bare)
  BY <1>2, <1>4, <1>5, <1>8, <1>10 DEF Tray!Look
<1>12. Sound(u)
  BY <1>8, <1>10, <1>11 DEF Sound, Open, Current
<1>13. Tray!x11ut__menu_show(t) = u
  BY DEF Tray!x11ut__menu_show, u, drawn, lit, bare, m
<1>14. QED
  BY <1>10, <1>12, <1>13

\* The highlight follows the pointer over the items that can be clicked.
LEMMA ItemBelow == ASSUME NEW y \in Nat PROVE Tray!ItemAt(y) \in Nat
BY DEF Tray!ItemAt

LEMMA HoverSound ==
    ASSUME NEW t, Open(t), Sound(t), NEW y \in Nat
    PROVE  LET u == Tray!x11ut__update_menu_hover(t, y) IN Open(u) /\ Sound(u)
<1> DEFINE i == Tray!ItemAt(y)
           hover == IF Tray!IsItem(t.menu, i) THEN i ELSE -1
           m == [t.menu EXCEPT !.hover = hover]
           bare == [t EXCEPT !.menu = m]
<1>1. t.menu \in MenuType /\ i \in Nat
  BY MenuOf, ItemBelow
<1>2. CASE ~t.menu.visible \/ hover = t.menu.hover
  BY <1>2 DEF Tray!x11ut__update_menu_hover
<1>3. CASE t.menu.visible /\ hover # t.menu.hover
  <2>1. hover \in Int
    BY <1>1
  <2>2. /\ m \in MenuType /\ m.english = t.menu.english /\ m.dark = t.menu.dark
        /\ m.items = t.menu.items /\ m.hover = hover /\ m.visible
    BY <1>1, <1>3, <2>1 DEF MenuType
  <2>3. Len(t.menu.items) \in Nat
    BY <1>1 DEF MenuType
  <2>4. HoverFine(m)
    BY <1>1, <2>2, <2>3 DEF HoverFine, Tray!IsItem
  <2> HIDE DEF m
  <2>5. Open(bare)
    BY <2>2, <2>4, MenuWritten
  <2>6. Tray!x11ut__update_menu_hover(t, y) = Tray!x11ut__menu_draw(bare)
    BY <1>3 DEF Tray!x11ut__update_menu_hover, bare, m
  <2> HIDE DEF bare
  <2>7. QED
    BY <2>5, <2>6, DrawSound
<1>4. QED
  BY <1>2, <1>3

\* A mark is set or taken back.
LEMMA Marked ==
    ASSUME NEW t, Open(t), NEW i \in DOMAIN t.menu.items, NEW c \in BOOLEAN
    PROVE  LET u == [t EXCEPT !.menu.items[i].checked = c] IN
           /\ Open(u) /\ u.menu.visible = t.menu.visible
           /\ u.menu.items[i].does = t.menu.items[i].does
<1> DEFINE items == t.menu.items
           item == [items[i] EXCEPT !.checked = c]
           more == [items EXCEPT ![i] = item]
           m == [t.menu EXCEPT !.items = more]
           u == [t EXCEPT !.menu = m]
<1>1. t.menu \in MenuType /\ HoverFine(t.menu) /\ items \in Seq(ItemType)
  BY MenuOf DEF MenuType
<1>2. items[i] \in ItemType /\ i \in 1..Len(items)
  BY <1>1
<1>3. item \in ItemType /\ item.kind = items[i].kind /\ item.does = items[i].does
  BY <1>2 DEF ItemType
<1> HIDE DEF item
<1>4. /\ more \in Seq(ItemType) /\ Len(more) = Len(items) /\ more[i] = item
      /\ \A j \in 1..Len(items) : more[j] = IF j = i THEN item ELSE items[j]
  BY <1>1, <1>2, <1>3, ExceptSeq
<1> HIDE DEF more
<1>5. /\ m \in MenuType /\ m.english = t.menu.english /\ m.dark = t.menu.dark
      /\ m.items = more /\ m.hover = t.menu.hover /\ m.visible = t.menu.visible
  BY <1>1, <1>4 DEF MenuType
<1> HIDE DEF m
<1>6. \A j \in Nat : j < Len(items) => (Tray!IsItem(m, j) <=> Tray!IsItem(t.menu, j))
  <2>1. SUFFICES ASSUME NEW j \in Nat, j < Len(items) PROVE more[j + 1].kind = items[j + 1].kind
    BY <1>4, <1>5 DEF Tray!IsItem
  <2>2. j + 1 \in 1..Len(items)
    BY <1>1, <2>1
  <2>3. QED
    BY <1>3, <1>4, <2>2
<1>7. HoverFine(m)
  <2>1. m.hover \in -1..(Len(items) - 1) /\ Len(items) \in Nat /\ Len(m.items) = Len(items)
    BY <1>1, <1>4, <1>5 DEF HoverFine
  <2>2. ASSUME m.hover # -1 PROVE m.visible /\ Tray!IsItem(m, m.hover)
    <3>1. m.hover \in Nat /\ m.hover < Len(items)
      BY <2>1, <2>2
    <3>2. QED
      BY <1>1, <1>5, <1>6, <2>2, <3>1 DEF HoverFine
  <2>3. QED
    BY <2>1, <2>2 DEF HoverFine
<1>8. Open(u) /\ u.menu = m
  BY <1>5, <1>7, MenuWritten
<1>9. [t EXCEPT !.menu.items[i].checked = c] = u
  BY DEF u, m, more, item
<1> HIDE DEF u
<1>10. QED
  BY <1>3, <1>4, <1>5, <1>8, <1>9

LEMMA SetSound ==
    ASSUME NEW t, Open(t), Sound(t), NEW i \in DOMAIN t.menu.items, NEW c \in BOOLEAN
    PROVE  LET u == Tray!x11ut__menu_set_checked(t, i, c) IN Open(u) /\ Sound(u)
<1> DEFINE set == [t EXCEPT !.menu.items[i].checked = c]
<1>1. Open(set) /\ set.menu.visible = t.menu.visible
  BY Marked
<1> HIDE DEF set
<1>2. CASE t.menu.items[i].kind # "check"
  BY <1>2 DEF Tray!x11ut__menu_set_checked
<1>3. CASE t.menu.items[i].kind = "check" /\ t.menu.visible
  <2>1. Tray!x11ut__menu_set_checked(t, i, c) = Tray!x11ut__menu_draw(set)
    BY <1>3 DEF Tray!x11ut__menu_set_checked, set
  <2>2. QED
    BY <1>1, <2>1, DrawSound
<1>4. CASE t.menu.items[i].kind = "check" /\ ~t.menu.visible
  <2>1. Tray!x11ut__menu_set_checked(t, i, c) = set
    BY <1>4 DEF Tray!x11ut__menu_set_checked, set
  <2>2. QED
    BY <1>1, <1>4, <2>1 DEF Sound, Open, Current
<1>5. QED
  BY <1>2, <1>3, <1>4

---------------------------------------------------------------------------
\* The menu is made anew.

LEMMA Fourteen ==
    ASSUME NEW S, NEW a \in S, NEW b \in S, NEW c \in S, NEW d \in S, NEW e \in S, NEW f \in S,
           NEW g \in S, NEW h \in S
    PROVE  <<a, b, h, c, c, h, d, e, f, h, c, c, h, g>> \in Seq(S)
OBVIOUS

LEMMA MenuItemsTyped == ASSUME NEW dark \in BOOLEAN PROVE Tray!MenuItems(dark) \in Seq(ItemType)
<1>1. /\ \A does \in Deeds : Tray!x11ut__menu_add_item(does) \in ItemType
      /\ \A does \in Deeds, c \in BOOLEAN : Tray!x11ut__menu_add_checkable_item(does, c) \in ItemType
      /\ Tray!x11ut__menu_add_separator \in ItemType
  BY DEF Tray!x11ut__menu_add_item, Tray!x11ut__menu_add_checkable_item,
         Tray!x11ut__menu_add_separator, Tray!Item, ItemType, Kinds, Deeds, Tray!Unset
<1>2. {"language", "dark", "log", "exit"} \subseteq Deeds
  BY DEF Deeds
<1>3. /\ Tray!x11ut__menu_add_item("language") \in ItemType /\ Tray!x11ut__menu_add_item("dark") \in ItemType
      /\ Tray!x11ut__menu_add_item("log") \in ItemType /\ Tray!x11ut__menu_add_item("exit") \in ItemType
      /\ Tray!x11ut__menu_add_checkable_item("log", FALSE) \in ItemType
      /\ Tray!x11ut__menu_add_checkable_item("log", TRUE) \in ItemType
      /\ Tray!x11ut__menu_add_checkable_item("log", dark) \in ItemType
  BY <1>1, <1>2
<1>4. QED
  BY <1>1, <1>3, Fourteen DEF Tray!MenuItems

LEMMA NotificationItemsTyped == Tray!NotificationItems \in Seq(ItemType)
<1>1. Tray!x11ut__menu_add_item("notify") \in ItemType /\ Tray!x11ut__menu_add_separator \in ItemType
  BY DEF Tray!x11ut__menu_add_item, Tray!x11ut__menu_add_separator, Tray!Item, ItemType, Kinds,
         Deeds, Tray!Unset
<1>2. [i \in 1..4 |-> Tray!x11ut__menu_add_item("notify")] \in Seq(ItemType)
  BY <1>1, IsASeq
<1>3. <<Tray!x11ut__menu_add_separator>> \in Seq(ItemType)
  BY <1>1
<1>4. QED
  BY <1>2, <1>3, ConcatProperties DEF Tray!NotificationItems

\* A structure without a menu, ready for one.
Bare(t) == t \in TrayType /\ Themed(t) /\ t.menu = Tray!Null /\ t.refs = 0

LEMMA CreateSound ==
    ASSUME NEW t, Bare(t), NEW loads \in BOOLEAN
    PROVE  LET u == Tray!x11ut__create_menu(t, loads) IN
           /\ u \in TrayType /\ Sound(u)
           /\ u.menu # Tray!Null => ~u.menu.visible
           /\ u.tooltip = t.tooltip /\ u.notification = t.notification
<1> DEFINE empty == Tray!x11ut__menu_create(t, loads)
           m == [empty EXCEPT !.items = Tray!MenuItems(t.dark)]
           font == [t EXCEPT !.refs = 1]
           u == Tray!x11ut__create_menu(t, loads)
<1>1. /\ t \in TrayType /\ t.english \in BOOLEAN /\ t.dark \in BOOLEAN
      /\ t.menu = Tray!Null /\ t.refs = 0 /\ Themed(t)
  BY DEF Bare, TrayType
<1>2. CASE ~loads
  <2>1. u = [t EXCEPT !.menu = Tray!Null]
    BY <1>2 DEF Tray!x11ut__create_menu, Tray!x11ut__menu_create, Tray!x11ut__load_font
  <2>2. u = t
    BY <1>1, <2>1 DEF TrayType
  <2>3. QED
    BY <1>1, <2>2 DEF Sound, Nearly
<1>3. CASE loads
  <2>1. /\ empty \in MenuType /\ empty.english = t.english /\ empty.dark = t.dark
        /\ ~empty.visible /\ empty.hover = -1
    <3>1. empty = [english |-> t.english, dark |-> t.dark, items |-> <<>>, visible |-> FALSE, hover |-> -1,
                   screen |-> Tray!Null]
      BY <1>3 DEF Tray!x11ut__menu_create
    <3>2. QED
      BY <1>1, <3>1 DEF MenuType
  <2> HIDE DEF empty
  <2>2. /\ m \in MenuType /\ m.english = t.english /\ m.dark = t.dark /\ ~m.visible /\ m.hover = -1
        /\ m.items \in Seq(ItemType) /\ m # Tray!Null /\ empty # Tray!Null
    <3>1. Tray!MenuItems(t.dark) \in Seq(ItemType)
      BY <1>1, MenuItemsTyped
    <3>2. m \in MenuType /\ empty \in MenuType
      BY <2>1, <3>1 DEF MenuType
    <3>3. QED
      BY <2>1, <3>1, <3>2, NullIsNone DEF MenuType
  <2>3. HoverFine(m)
    BY <2>2 DEF HoverFine
  <2>4. /\ font \in TrayType /\ font.refs = 1
        /\ font.english = t.english /\ font.dark = t.dark /\ font.colors = t.colors
        /\ font.icon = t.icon /\ font.tooltip = t.tooltip /\ font.notification = t.notification
    BY <1>1 DEF TrayType
  <2>5. u = [font EXCEPT !.menu = m]
    <3>1. Tray!x11ut__load_font(t, loads) = font
      BY <1>1, <1>3 DEF Tray!x11ut__load_font
    <3>2. QED
      BY <2>2, <3>1 DEF Tray!x11ut__create_menu, empty
  <2> HIDE DEF m, font, u
  <2>6. /\ u \in TrayType /\ u.menu = m /\ u.refs = 1
        /\ u.english = t.english /\ u.dark = t.dark /\ u.colors = t.colors
        /\ u.icon = t.icon /\ u.tooltip = t.tooltip /\ u.notification = t.notification
    BY <2>2, <2>4, <2>5, WithMenu
  <2>7. Themed(u)
    BY <1>1, <2>6 DEF Themed
  <2>8. Sound(u)
    BY <2>2, <2>3, <2>6, <2>7 DEF Sound, Nearly, Current
  <2>9. QED
    BY <2>2, <2>6, <2>8 DEF u
<1>4. QED
  BY <1>2, <1>3

\* A callback that changes the theme or the language takes the menu away and
\* makes one in the new settings.
LEMMA RebuildSound ==
    ASSUME NEW t \in TrayType, Themed(t), t.menu # Tray!Null, t.refs = 1, NEW loads \in BOOLEAN
    PROVE  LET u == Tray!Rebuild(t, loads) IN u \in TrayType /\ Sound(u)
<1> DEFINE bare == [t EXCEPT !.menu = Tray!Null, !.refs = 0]
<1>1. /\ bare \in TrayType /\ bare.menu = Tray!Null /\ bare.refs = 0
      /\ bare.colors = t.colors /\ bare.dark = t.dark /\ bare.icon = t.icon
  <2> DEFINE font == [t EXCEPT !.refs = 0]
  <2>1. /\ font \in TrayType /\ font.refs = 0
        /\ font.colors = t.colors /\ font.dark = t.dark /\ font.icon = t.icon
    BY DEF TrayType
  <2>2. bare = [font EXCEPT !.menu = Tray!Null]
    BY DEF TrayType
  <2> HIDE DEF font, bare
  <2>3. QED
    BY <2>1, <2>2, WithMenu
<1>2. Tray!x11ut__menu_cleanup(t) = bare
  BY DEF Tray!x11ut__menu_cleanup
<1> HIDE DEF bare
<1>3. Bare(bare)
  BY <1>1 DEF Bare, Themed
<1>4. Tray!Rebuild(t, loads) = Tray!x11ut__create_menu(bare, loads)
  BY <1>2 DEF Tray!Rebuild
<1>5. QED
  BY <1>1, <1>3, <1>4, CreateSound

---------------------------------------------------------------------------
\* The rest of the structure: bubble, tooltip and settings.

\* What a menu has to match is as it was.
Alike(t, u) ==
    /\ u.menu = t.menu /\ u.dark = t.dark /\ u.english = t.english
    /\ u.colors = t.colors /\ u.icon = t.icon /\ u.refs = t.refs

LEMMA AlikeSound ==
    ASSUME NEW t, NEW u \in TrayType, Alike(t, u)
    PROVE  /\ Sound(t) => Sound(u)
           /\ Open(t) => Open(u)
           /\ Bare(t) => Bare(u)
<1>1. Themed(t) => Themed(u)
  BY DEF Alike, Themed
<1>2. Nearly(t) => Nearly(u)
  BY <1>1 DEF Alike, Nearly
<1>3. Tray!Look(u) = Tray!Look(t)
  BY DEF Alike, Tray!Look
<1>4. Sound(t) => Sound(u)
  BY <1>2, <1>3 DEF Alike, Sound, Current
<1>5. QED
  BY <1>1, <1>2, <1>4 DEF Alike, Open, Bare

LEMMA BubbleWritten ==
    ASSUME NEW t \in TrayType, NEW n \in BubbleType \cup {Tray!Null}
    PROVE  [t EXCEPT !.notification = n] \in TrayType /\ Alike(t, [t EXCEPT !.notification = n])
BY WithBubble DEF Alike

LEMMA WrittenAgain ==
    ASSUME NEW t \in TrayType, NEW n, NEW m
    PROVE  /\ [t EXCEPT !.notification = n].notification = n
           /\ [[t EXCEPT !.notification = n] EXCEPT !.notification = m] = [t EXCEPT !.notification = m]
BY DEF TrayType

LEMMA BubbleMade ==
    ASSUME Tray!TrayAssumption, NEW t \in TrayType, NEW loads \in BOOLEAN
    PROVE  Tray!x11ut__notification_create(t, loads) \in BubbleType \cup {Tray!Null}
<1>1. 255 \in (-FadeStep)..255 /\ t.dark \in BOOLEAN
  BY DEF Tray!TrayAssumption, TrayType
<1>2. QED
  BY <1>1 DEF Tray!x11ut__notification_create, BubbleType, BubbleFields

LEMMA OpacitySeen == \A n : Tray!WindowOpacity(n) \in {"opaque", "faint", "invisible"}
BY DEF Tray!WindowOpacity

\* What the bubble's operators make of a structure with a bubble.
LEMMA BubbleShown ==
    ASSUME Tray!TrayAssumption, NEW t \in TrayType
    PROVE  LET u == Tray!x11ut__notification_show(t) IN u \in TrayType /\ Alike(t, u)
<1> DEFINE drawn == [t.notification EXCEPT !.paper = t.dark]
           property == IF t.notification.opacity < 255
                         THEN Tray!WindowOpacity(t.notification.opacity) ELSE drawn.property
           seen == [drawn EXCEPT !.visible = TRUE]
           full == [seen EXCEPT !.opacity = 255]
           fresh == [full EXCEPT !.due = FALSE]
           n == [fresh EXCEPT !.property = property]
<1>1. CASE t.notification = Tray!Null
  BY <1>1 DEF Tray!x11ut__notification_show, Alike
<1>2. CASE t.notification # Tray!Null
  <2>1. t.notification \in BubbleFields /\ t.dark \in BOOLEAN
    BY <1>2 DEF TrayType, BubbleType
  <2>2. drawn \in BubbleFields
    BY <2>1 DEF BubbleFields
  <2>3. property \in {"opaque", "faint", "invisible"}
    BY <2>2, OpacitySeen DEF BubbleFields
  <2>4. Tray!x11ut__notification_show(t) = [t EXCEPT !.notification = n]
    <3> DEFINE d == [t EXCEPT !.notification = drawn]
               d1 == [d EXCEPT !.notification.visible = TRUE]
               d2 == [d1 EXCEPT !.notification.opacity = 255]
               d3 == [d2 EXCEPT !.notification.due = FALSE]
               d4 == [d3 EXCEPT !.notification.property = property]
    <3>1. Tray!x11ut__notification_draw(t) = d /\ d.notification = drawn
      BY DEF Tray!x11ut__notification_draw, TrayType
    <3>2. Tray!x11ut__notification_show(t) = d4
      BY <1>2, <3>1 DEF Tray!x11ut__notification_show
    <3> HIDE DEF drawn, property
    <3>3. d1 = [t EXCEPT !.notification = seen]
      BY WrittenAgain
    <3> HIDE DEF d1, seen
    <3>4. d2 = [t EXCEPT !.notification = full]
      <4>1. d1.notification = seen
        BY <3>3, WrittenAgain
      <4>2. d2 = [d1 EXCEPT !.notification = full]
        BY <4>1
      <4> HIDE DEF d2, full
      <4>3. QED
        BY <3>3, <4>2, WrittenAgain
    <3> HIDE DEF d2, full
    <3>5. d3 = [t EXCEPT !.notification = fresh]
      <4>1. d2.notification = full
        BY <3>4, WrittenAgain
      <4>2. d3 = [d2 EXCEPT !.notification = fresh]
        BY <4>1
      <4> HIDE DEF d3, fresh
      <4>3. QED
        BY <3>4, <4>2, WrittenAgain
    <3> HIDE DEF d3, fresh
    <3>6. d4 = [t EXCEPT !.notification = n]
      <4>1. d3.notification = fresh
        BY <3>5, WrittenAgain
      <4>2. d4 = [d3 EXCEPT !.notification = n]
        BY <4>1
      <4> HIDE DEF d4, n
      <4>3. QED
        BY <3>5, <4>2, WrittenAgain
    <3>7. QED
      BY <3>2, <3>6
  <2> HIDE DEF drawn, property
  <2>5. seen \in BubbleFields
    BY <2>2 DEF BubbleFields
  <2> HIDE DEF seen
  <2>6. full \in BubbleFields /\ full.opacity = 255
    <3>1. 255 \in (-FadeStep)..255
      BY DEF Tray!TrayAssumption
    <3>2. QED
      BY <2>5, <3>1 DEF BubbleFields
  <2> HIDE DEF full
  <2>7. fresh \in BubbleFields /\ fresh.opacity = 255
    BY <2>6 DEF BubbleFields
  <2> HIDE DEF fresh
  <2>8. n \in BubbleFields /\ n.opacity = 255
    BY <2>3, <2>7 DEF BubbleFields
  <2> HIDE DEF n
  <2>9. n \in BubbleType
    BY <2>8 DEF BubbleType
  <2>10. QED
    BY <2>4, <2>9, BubbleWritten
<1>3. QED
  BY <1>1, <1>2

LEMMA BubbleDrawn ==
    ASSUME NEW t \in TrayType, t.notification # Tray!Null
    PROVE  LET u == Tray!x11ut__notification_draw(t) IN u \in TrayType /\ Alike(t, u)
<1>1. t.notification \in BubbleType /\ t.dark \in BOOLEAN
  BY DEF TrayType
<1>2. [t.notification EXCEPT !.paper = t.dark] \in BubbleType
  BY <1>1 DEF BubbleType, BubbleFields
<1>3. QED
  BY <1>2, BubbleWritten DEF Tray!x11ut__notification_draw

LEMMA BubbleHidden ==
    ASSUME NEW t \in TrayType, t.notification # Tray!Null
    PROVE  LET u == Tray!x11ut__notification_hide(t) IN u \in TrayType /\ Alike(t, u)
<1>1. t.notification \in BubbleType
  BY DEF TrayType
<1>2. [t.notification EXCEPT !.visible = FALSE] \in BubbleType
  BY <1>1 DEF BubbleType, BubbleFields
<1>3. QED
  BY <1>2, BubbleWritten DEF Tray!x11ut__notification_hide

LEMMA BubbleTimed ==
    ASSUME NEW t \in TrayType, t.notification # Tray!Null, NEW due \in BOOLEAN
    PROVE  LET u == [t EXCEPT !.notification.due = due] IN u \in TrayType /\ Alike(t, u)
<1>1. t.notification \in BubbleType
  BY DEF TrayType
<1>2. [t.notification EXCEPT !.due = due] \in BubbleType
  BY <1>1 DEF BubbleType, BubbleFields
<1>3. QED
  BY <1>2, BubbleWritten

LEMMA BubbleFades ==
    ASSUME Tray!TrayAssumption, NEW t \in TrayType
    PROVE  LET u == Tray!x11ut__notification_update(t) IN u \in TrayType /\ Alike(t, u)
<1> DEFINE n == t.notification
           opacity == n.opacity - FadeStep
           faded == [n EXCEPT !.opacity = opacity]
           told == [faded EXCEPT !.property = Tray!WindowOpacity(opacity)]
           hidden == [faded EXCEPT !.visible = FALSE]
<1>1. CASE n = Tray!Null \/ ~(n.visible /\ n.due)
  BY <1>1 DEF Tray!x11ut__notification_update, Alike
<1>2. CASE n # Tray!Null /\ n.visible /\ n.due
  <2>1. n \in BubbleFields /\ n.opacity > 0
    BY <1>2 DEF TrayType, BubbleType
  <2>2. opacity \in (-FadeStep)..255 /\ opacity \in Int
    BY <2>1 DEF BubbleFields, Tray!TrayAssumption
  <2>3. faded \in BubbleFields /\ faded.opacity = opacity
    BY <2>1, <2>2 DEF BubbleFields
  <2>4. told \in BubbleFields /\ told.opacity = opacity
    BY <2>3, OpacitySeen DEF BubbleFields
  <2>5. hidden \in BubbleType
    BY <2>3 DEF BubbleType, BubbleFields
  <2>6. CASE opacity <= 0
    <3>1. Tray!x11ut__notification_update(t) = [t EXCEPT !.notification = hidden]
      BY <1>2, <2>6 DEF Tray!x11ut__notification_update, Tray!x11ut__notification_hide, TrayType
    <3>2. QED
      BY <2>5, <3>1, BubbleWritten
  <2>7. CASE opacity > 0
    <3>1. told \in BubbleType
      BY <2>4, <2>7 DEF BubbleType
    <3>2. Tray!x11ut__notification_update(t) = [t EXCEPT !.notification = told]
      <4>1. ~(opacity <= 0)
        BY <2>2, <2>7
      <4>2. QED
        BY <1>2, <4>1 DEF Tray!x11ut__notification_update, TrayType
    <3>3. QED
      BY <3>1, <3>2, BubbleWritten
  <2>8. QED
    BY <2>2, <2>6, <2>7
<1>3. QED
  BY <1>1, <1>2

LEMMA TipWritten ==
    ASSUME NEW t \in TrayType, NEW n \in TipType \cup {Tray!Null}
    PROVE  [t EXCEPT !.tooltip = n] \in TrayType /\ Alike(t, [t EXCEPT !.tooltip = n])
BY WithTip DEF Alike

LEMMA TipMade ==
    ASSUME NEW t, NEW loads \in BOOLEAN
    PROVE  Tray!x11ut__tooltip_create(t, loads) \in TipType \cup {Tray!Null}
BY DEF Tray!x11ut__tooltip_create, TipType, Tray!Unset

LEMMA TipShown ==
    ASSUME NEW t \in TrayType, t.tooltip # Tray!Null
    PROVE  LET u == Tray!x11ut__tooltip_show(t, Tray!BuiltIn(t)) IN u \in TrayType /\ Alike(t, u)
<1> DEFINE text == IF t.tooltip.text = Tray!Unset THEN Tray!BuiltIn(t) ELSE t.tooltip.text
<1>1. t.tooltip \in TipType
  BY DEF TrayType
<1>2. text \in {"none", "English", "Chinese", "tip"}
  BY <1>1 DEF TipType, Tray!BuiltIn
<1> HIDE DEF text
<1>3. [t.tooltip EXCEPT !.text = text, !.visible = TRUE] \in TipType
  BY <1>1, <1>2 DEF TipType
<1>4. Tray!x11ut__tooltip_show(t, Tray!BuiltIn(t))
        = [t EXCEPT !.tooltip = [t.tooltip EXCEPT !.text = text, !.visible = TRUE]]
  BY DEF Tray!x11ut__tooltip_show, text, TrayType
<1>5. QED
  BY <1>3, <1>4, TipWritten

LEMMA TipHidden ==
    ASSUME NEW t \in TrayType
    PROVE  LET u == Tray!x11ut__tooltip_hide(t) IN u \in TrayType /\ Alike(t, u)
<1>1. CASE t.tooltip = Tray!Null
  BY <1>1 DEF Tray!x11ut__tooltip_hide, Alike
<1>2. CASE t.tooltip # Tray!Null
  <2>1. t.tooltip \in TipType
    BY <1>2 DEF TrayType
  <2>2. [t.tooltip EXCEPT !.visible = FALSE] \in TipType
    BY <2>1 DEF TipType
  <2>3. QED
    BY <1>2, <2>2, TipWritten DEF Tray!x11ut__tooltip_hide
<1>3. QED
  BY <1>1, <1>2

\* A tooltip that cannot be made is not written.
LEMMA TipSet ==
    ASSUME NEW t \in TrayType, NEW loads \in BOOLEAN,
           ~(t.tooltip = Tray!Null /\ t.menu = Tray!Null /\ ~loads)
    PROVE  LET u == Tray!x11ut__tray_set_tooltip(t, "tip", loads) IN u \in TrayType /\ Alike(t, u)
<1> DEFINE made == IF t.tooltip = Tray!Null THEN Tray!x11ut__tooltip_create(t, loads) ELSE t.tooltip
<1>1. made \in TipType
  BY DEF Tray!x11ut__tooltip_create, TipType, TrayType, Tray!Unset
<1> HIDE DEF made
<1>2. [made EXCEPT !.text = "tip"] \in TipType
  BY <1>1 DEF TipType
<1>3. Tray!x11ut__tray_set_tooltip(t, "tip", loads) = [t EXCEPT !.tooltip = [made EXCEPT !.text = "tip"]]
  BY DEF Tray!x11ut__tray_set_tooltip, made
<1>4. QED
  BY <1>2, <1>3, TipWritten

---------------------------------------------------------------------------
\* What the items do.

\* A click on an item that can be checked turns its mark.
LEMMA ToggledOpen ==
    ASSUME NEW t, Open(t), NEW i \in Nat, i + 1 \in DOMAIN t.menu.items
    PROVE  Open(Tray!Toggled(t, i))
<1> DEFINE item == t.menu.items[i + 1]
<1>1. item \in ItemType
  BY MenuOf DEF MenuType
<1>2. (~item.checked) \in BOOLEAN
  BY <1>1 DEF ItemType
<1>3. Open([t EXCEPT !.menu.items[i + 1].checked = ~item.checked])
  BY <1>2, Marked
<1>4. Tray!Toggled(t, i) \in {t, [t EXCEPT !.menu.items[i + 1].checked = ~item.checked]}
  BY DEF Tray!Toggled, Open
<1>5. QED
  BY <1>3, <1>4

LEMMA OpenParts ==
    ASSUME NEW t, Open(t)
    PROVE  /\ t \in TrayType /\ Themed(t) /\ t.menu # Tray!Null /\ t.refs = 1
           /\ t.dark \in BOOLEAN /\ t.english \in BOOLEAN /\ t.running \in BOOLEAN
BY DEF Open, Nearly, TrayType

\* Language and theme change together with what shows them.
LEMMA CallbackRebuilds ==
    ASSUME NEW t, Open(t), NEW item \in ItemType, Tray!Rebuilds(item), NEW loads \in BOOLEAN
    PROVE  Tray!Callback(t, item, loads) \in TrayType /\ Sound(Tray!Callback(t, item, loads))
<1>1. /\ t \in TrayType /\ Themed(t) /\ t.menu # Tray!Null /\ t.refs = 1
      /\ t.dark \in BOOLEAN /\ t.english \in BOOLEAN
  BY OpenParts
<1>2. CASE item.does = "language"
  <2> DEFINE u == [t EXCEPT !.english = ~t.english]
  <2>1. /\ u \in TrayType /\ u.menu = t.menu /\ u.refs = 1 /\ u.colors = t.colors /\ u.dark = t.dark
        /\ u.icon = t.icon
    BY <1>1 DEF TrayType
  <2>2. Tray!Callback(t, item, loads) = Tray!Rebuild(u, loads)
    BY <1>2 DEF Tray!Callback, Tray!x11ut__switch_language_callback
  <2> HIDE DEF u
  <2>3. Themed(u)
    BY <1>1, <2>1 DEF Themed
  <2>4. QED
    BY <1>1, <2>1, <2>2, <2>3, RebuildSound
<1>3. CASE item.does = "dark"
  <2> DEFINE dark == [t EXCEPT !.dark = ~t.dark]
             colors == [dark EXCEPT !.colors = dark.dark]
             sign == [kind |-> "default", dark |-> colors.dark]
             u == [colors EXCEPT !.icon = sign]
  <2>1. /\ dark \in TrayType /\ dark.menu = t.menu /\ dark.refs = 1
    BY <1>1 DEF TrayType
  <2> HIDE DEF dark
  <2>2. /\ colors \in TrayType /\ colors.menu = t.menu /\ colors.refs = 1
        /\ colors.colors = dark.dark /\ colors.dark = dark.dark /\ colors.dark \in BOOLEAN
    BY <2>1 DEF TrayType
  <2> HIDE DEF colors
  <2>3. sign \in IconType /\ sign.dark = colors.dark
    BY <2>2 DEF IconType
  <2> HIDE DEF sign
  <2>4. /\ u \in TrayType /\ u.menu = t.menu /\ u.refs = 1 /\ u.icon = sign
        /\ u.colors = colors.colors /\ u.dark = colors.dark
    BY <2>2, <2>3 DEF TrayType
  <2>5. Tray!Callback(t, item, loads) = Tray!Rebuild(u, loads)
    BY <1>3 DEF Tray!Callback, Tray!x11ut__toggle_dark_mode_callback, Tray!x11ut__draw_default_icon,
                Tray!x11ut__init_colors, Tray!x11ut__generate_default_icon, dark, colors, sign
  <2> HIDE DEF u
  <2>6. Themed(u)
    BY <2>2, <2>3, <2>4, NullIsNone DEF Themed
  <2>7. QED
    BY <1>1, <2>4, <2>5, <2>6, RebuildSound
<1>4. QED
  BY <1>2, <1>3 DEF Tray!Rebuilds

LEMMA CallbackKeeps ==
    ASSUME Tray!TrayAssumption, NEW t, Open(t), NEW item \in ItemType, ~Tray!Rebuilds(item),
           NEW loads \in BOOLEAN
    PROVE  Open(Tray!Callback(t, item, loads))
<1>1. t \in TrayType
  BY OpenParts
<1>2. item.does # "language" /\ item.does # "dark"
  BY DEF Tray!Rebuilds
<1>3. CASE item.does = "exit"
  <2> DEFINE u == [t EXCEPT !.running = FALSE]
  <2>1. u \in TrayType /\ Alike(t, u)
    BY <1>1 DEF TrayType, Alike
  <2>2. Tray!Callback(t, item, loads) = u
    BY <1>3 DEF Tray!Callback, Tray!x11ut__exit_callback
  <2>3. QED
    BY <2>1, <2>2, AlikeSound
<1>4. CASE item.does = "notify"
  <2>1. Tray!Callback(t, item, loads) = Tray!x11ut__notification_show(t)
    BY <1>4 DEF Tray!Callback, Tray!x11ut__show_test_notification_callback
  <2>2. QED
    BY <1>1, <2>1, BubbleShown, AlikeSound
<1>5. CASE item.does \notin {"exit", "notify"}
  BY <1>2, <1>5 DEF Tray!Callback
<1>6. QED
  BY <1>3, <1>4, <1>5

\* The bubble brings items of its own, before the menu is ever seen.
LEMMA AddSound ==
    ASSUME NEW t \in TrayType, Sound(t), t.menu # Tray!Null => ~t.menu.visible
    PROVE  LET u == Tray!x11ut__add_notification_menu_items(t) IN u \in TrayType /\ Sound(u)
<1>1. CASE t.menu = Tray!Null
  BY <1>1 DEF Tray!x11ut__add_notification_menu_items
<1>2. CASE t.menu # Tray!Null
  <2> DEFINE more == t.menu.items \o Tray!NotificationItems
             m == [t.menu EXCEPT !.items = more]
             u == [t EXCEPT !.menu = m]
  <2>1. Open(t) /\ t.menu \in MenuType /\ HoverFine(t.menu)
    BY <1>2, MenuOf DEF Open, Sound
  <2>2. more \in Seq(ItemType)
    BY <2>1, NotificationItemsTyped, ConcatProperties DEF MenuType
  <2> HIDE DEF more
  <2>3. /\ m \in MenuType /\ m.english = t.menu.english /\ m.dark = t.menu.dark
        /\ m.hover = t.menu.hover /\ m.visible = t.menu.visible /\ m.items = more
    BY <2>1, <2>2 DEF MenuType
  <2> HIDE DEF m
  <2>4. HoverFine(m)
    <3>1. m.hover = -1
      BY <1>2, <2>1, <2>3 DEF HoverFine
    <3>2. Len(m.items) \in Nat
      BY <2>2, <2>3
    <3>3. QED
      BY <3>1, <3>2 DEF HoverFine
  <2>5. Open(u) /\ u.menu = m
    BY <2>1, <2>3, <2>4, MenuWritten
  <2>6. Tray!x11ut__add_notification_menu_items(t) = u
    BY <1>2 DEF Tray!x11ut__add_notification_menu_items, u, m, more
  <2> HIDE DEF u
  <2>7. QED
    BY <1>2, <2>3, <2>5, <2>6 DEF Open, Sound, Current
<1>3. QED
  BY <1>1, <1>2

---------------------------------------------------------------------------
\* The program from its start to its end.

\* While the loop runs the structure is sound; before it there is no menu yet,
\* and what a crash leaves has at least a highlight that can be clicked.
TrayInv ==
    /\ phase \in {"boot", "start", "loop", "exited", "crashed"}
    /\ tray \in TrayType
    /\ phase = "boot" => tray = Tray!NoTray
    /\ phase = "start" => Bare(tray)
    /\ phase = "loop" => Sound(tray)
    /\ tray.menu # Tray!Null => HoverFine(tray.menu)

LEMMA StaysSound ==
    ASSUME phase' \in {"loop", "crashed"}, tray' \in TrayType, Sound(tray')
    PROVE  TrayInv'
BY DEF TrayInv, Sound, Nearly

LEMMA NoTrayTyped ==
    /\ Tray!NoTray \in TrayType /\ Tray!NoTray.menu = Tray!Null /\ Tray!NoTray.refs = 0
BY DEF Tray!NoTray, TrayType, Tray!Unset

LEMMA TrayInit == ASSUME Tray!Init PROVE TrayInv
BY NoTrayTyped DEF Tray!Init, TrayInv

\* Whatever fails at the start, the program's icon is in the theme it was asked for.
LEMMA MainInit ==
    ASSUME Tray!TrayAssumption, TrayInv, NEW args \in Tray!x11ut__parse_args, NEW works \in BOOLEAN,
           NEW drawn \in BOOLEAN, NEW docks \in BOOLEAN, Tray!main_init(args, works, drawn, docks)
    PROVE  TrayInv'
<1> DEFINE begun == [Tray!NoTray EXCEPT !.running = TRUE, !.dark = TRUE]
           dark == [begun EXCEPT !.colors = begun.dark]
           made == Tray!x11ut__tray_init(works)
           asked == [made EXCEPT !.dark = args.dark, !.english = args.english]
           t == [asked EXCEPT !.colors = asked.dark]
           iconed == CASE args.icon = "file" -> Tray!x11ut__tray_set_icon_from_xpm(t, drawn)
                       [] args.icon = "test" -> Tray!x11ut__tray_set_icon_with_data(t, drawn)
                       [] OTHER -> Tray!x11ut__tray_set_icon(t)
<1>1. dark \in TrayType /\ dark.menu = Tray!Null /\ dark.refs = 0 /\ dark.dark \in BOOLEAN
  <2>1. begun \in TrayType /\ begun.menu = Tray!Null /\ begun.refs = 0
    BY NoTrayTyped DEF TrayType
  <2> HIDE DEF begun
  <2>2. QED
    BY <2>1 DEF TrayType
<1> HIDE DEF dark
<1>2. made \in TrayType /\ made.menu = Tray!Null /\ made.refs = 0
  <2> DEFINE opened == [dark EXCEPT !.display = "open"]
             sign == [kind |-> "default", dark |-> opened.dark]
  <2>1. /\ opened \in TrayType /\ opened.menu = Tray!Null /\ opened.refs = 0 /\ opened.dark \in BOOLEAN
    BY <1>1 DEF TrayType
  <2> HIDE DEF opened
  <2>2. sign \in IconType
    BY <2>1 DEF IconType
  <2> HIDE DEF sign
  <2>3. CASE works
    <3>1. made = [opened EXCEPT !.icon = sign]
      BY <2>3 DEF Tray!x11ut__tray_init, Tray!x11ut__draw_default_icon, Tray!x11ut__generate_default_icon,
                  Tray!x11ut__init_colors, dark, opened, sign
    <3>2. QED
      BY <2>1, <2>2, <3>1 DEF TrayType
  <2>4. CASE ~works
    <3>1. made = [dark EXCEPT !.display = "closed"]
      BY <2>4 DEF Tray!x11ut__tray_init, Tray!x11ut__init_colors, dark
    <3>2. QED
      BY <1>1, <3>1 DEF TrayType
  <2>5. QED
    BY <2>3, <2>4
<1>3. CASE ~works
  <2>1. phase' = "exited" /\ tray' = made
    BY <1>3 DEF Tray!main_init
  <2> HIDE DEF made
  <2>2. QED
    BY <1>2, <2>1 DEF TrayInv
<1> HIDE DEF made
<1>4. args.dark \in BOOLEAN /\ args.english \in BOOLEAN /\ args.icon \in {"default", "test", "file"}
  BY DEF Tray!TrayAssumption, Tray!x11ut__parse_args
<1>5. /\ t \in TrayType /\ t.menu = Tray!Null /\ t.refs = 0 /\ t.dark \in BOOLEAN /\ t.colors = t.dark
  <2>1. asked \in TrayType /\ asked.menu = Tray!Null /\ asked.refs = 0 /\ asked.dark \in BOOLEAN
    BY <1>2, <1>4 DEF TrayType
  <2> HIDE DEF asked
  <2>2. QED
    BY <2>1 DEF TrayType
<1> HIDE DEF t
<1>6. PICK sign \in IconType : /\ iconed = [t EXCEPT !.icon = sign]
                               /\ sign.kind # "file" => sign.dark = t.dark
  <2>1. /\ [kind |-> "default", dark |-> t.dark] \in IconType
        /\ [kind |-> "test", dark |-> t.dark] \in IconType
        /\ [kind |-> "file"] \in IconType
    BY <1>5 DEF IconType
  <2>2. iconed \in {[t EXCEPT !.icon = [kind |-> "default", dark |-> t.dark]],
                    [t EXCEPT !.icon = [kind |-> "test", dark |-> t.dark]],
                    [t EXCEPT !.icon = [kind |-> "file"]]}
    BY <1>4 DEF Tray!x11ut__tray_set_icon_from_xpm, Tray!x11ut__tray_set_icon_with_data,
                Tray!x11ut__tray_set_icon, Tray!x11ut__draw_default_icon,
                Tray!x11ut__generate_default_icon, Tray!x11ut__generate_test_icon
  <2>3. QED
    BY <2>1, <2>2
<1> HIDE DEF iconed
<1>7. Bare(iconed)
  <2>1. iconed \in TrayType /\ iconed.icon = sign /\ iconed.menu = Tray!Null /\ iconed.refs = 0
        /\ iconed.colors = t.colors /\ iconed.dark = t.dark
    BY <1>5, <1>6 DEF TrayType
  <2>2. QED
    BY <1>5, <1>6, <2>1, NullIsNone DEF Bare, Themed
<1>8. CASE works
  <2>1. phase' = "start" /\ tray' = [iconed EXCEPT !.embedded = docks]
    BY <1>8 DEF Tray!main_init, Tray!x11ut__tray_embed, Tray!x11ut__init_colors, iconed, t, made
  <2>2. tray' \in TrayType /\ Alike(iconed, tray')
    BY <1>7, <2>1 DEF Bare, TrayType, Alike
  <2>3. Bare(tray')
    BY <1>7, <2>2, AlikeSound
  <2>4. QED
    BY <2>1, <2>3 DEF TrayInv, Bare
<1>9. QED
  BY <1>3, <1>8

LEMMA MainStart ==
    ASSUME Tray!TrayAssumption, TrayInv,
           NEW withMenu \in BOOLEAN, NEW bubble \in BOOLEAN, NEW tip \in BOOLEAN,
           Tray!main_start(withMenu, bubble, tip)
    PROVE  TrayInv'
<1> DEFINE t == Tray!x11ut__create_menu(tray, withMenu)
           noted == [t EXCEPT !.notification = Tray!x11ut__notification_create(t, bubble)]
           more == IF bubble THEN Tray!x11ut__add_notification_menu_items(noted) ELSE noted
           tipped == [more EXCEPT !.tooltip = Tray!x11ut__tooltip_create(more, tip)]
<1>1. Bare(tray) /\ phase' = "loop" /\ tray' = Tray!x11ut__notification_show(tipped)
  BY DEF Tray!main_start, TrayInv
<1>2. t \in TrayType /\ Sound(t) /\ (t.menu # Tray!Null => ~t.menu.visible)
  BY <1>1, CreateSound
<1> HIDE DEF t
<1>3. noted \in TrayType /\ Alike(t, noted)
  BY <1>2, BubbleMade, BubbleWritten
<1> HIDE DEF noted
<1>4. Sound(noted) /\ (noted.menu # Tray!Null => ~noted.menu.visible)
  BY <1>2, <1>3, AlikeSound DEF Alike
<1>5. more \in TrayType /\ Sound(more)
  BY <1>3, <1>4, AddSound
<1> HIDE DEF more
<1>6. tipped \in TrayType /\ Alike(more, tipped)
  BY <1>5, TipMade, TipWritten
<1> HIDE DEF tipped
<1>7. Sound(tipped)
  BY <1>5, <1>6, AlikeSound
<1>8. tray' \in TrayType /\ Sound(tray')
  BY <1>1, <1>6, <1>7, BubbleShown, AlikeSound
<1>9. QED
  BY <1>1, <1>8, StaysSound

\* A click: the item's mark is turned, its callback runs, and the menu it leaves
\* is drawn and hidden, or is the one it made.
LEMMA Clicked ==
    ASSUME Tray!TrayAssumption, TrayInv, Tray!ButtonPressMenu
    PROVE  TrayInv'
<1>1. phase = "loop" /\ Sound(tray) /\ Open(tray)
  BY DEF Tray!ButtonPressMenu, Tray!Loop, TrayInv, Sound, Open
<1>2. PICK y \in Heights, loads \in BOOLEAN, crash \in BOOLEAN :
        Tray!x11ut__handle_menu_click(y, loads, crash)
  BY DEF Tray!ButtonPressMenu
<1> DEFINE i == Tray!ItemAt(y)
           item == tray.menu.items[i + 1]
           turned == Tray!Toggled(tray, i)
           called == Tray!Callback(turned, item, loads)
<1>3. phase' \in {"loop", "crashed"}
  BY <1>2 DEF Tray!x11ut__handle_menu_click
<1>4. i \in Nat
  BY <1>2, ItemBelow DEF Tray!TrayAssumption
<1>5. CASE ~Tray!IsItem(tray.menu, i)
  <2>1. tray' = Tray!x11ut__menu_hide(tray)
    BY <1>2, <1>5 DEF Tray!x11ut__handle_menu_click
  <2>2. QED
    BY <1>1, <1>3, <2>1, HideSound, StaysSound DEF Open
<1>6. CASE Tray!IsItem(tray.menu, i)
  <2>1. i + 1 \in DOMAIN tray.menu.items /\ item \in ItemType
    BY <1>1, <1>4, <1>6, MenuOf DEF MenuType, Tray!IsItem
  <2>2. Open(turned)
    BY <1>1, <1>4, <2>1, ToggledOpen
  <2>3. CASE Tray!Rebuilds(item)
    <3>1. tray' = called
      BY <1>2, <1>6, <2>3 DEF Tray!x11ut__handle_menu_click
    <3> HIDE DEF turned, item
    <3>2. QED
      BY <1>3, <2>1, <2>2, <2>3, <3>1, CallbackRebuilds, StaysSound
  <2>4. CASE ~Tray!Rebuilds(item)
    <3>1. tray' = Tray!x11ut__menu_hide(Tray!x11ut__menu_draw(called))
      BY <1>2, <1>6, <2>4 DEF Tray!x11ut__handle_menu_click
    <3> HIDE DEF turned, item
    <3>2. Open(called)
      BY <2>1, <2>2, <2>4, CallbackKeeps
    <3> HIDE DEF called
    <3>3. Open(Tray!x11ut__menu_draw(called))
      BY <3>2, DrawSound
    <3>4. Open(tray') /\ Sound(tray')
      BY <3>1, <3>3, HideSound
    <3>5. QED
      BY <1>3, <3>4, StaysSound DEF Open
  <2>5. QED
    BY <2>3, <2>4
<1>7. QED
  BY <1>5, <1>6

\* The menu's other events.
LEMMA MenuEvents ==
    ASSUME Tray!TrayAssumption, TrayInv,
           \/ Tray!ButtonPressIcon \/ Tray!MotionNotify \/ Tray!LeaveMenu \/ Tray!SetChecked
    PROVE  TrayInv'
<1>1. phase = "loop" /\ tray.menu # Tray!Null
  BY DEF Tray!ButtonPressIcon, Tray!MotionNotify, Tray!LeaveMenu, Tray!SetChecked, Tray!Loop
<1>2. Sound(tray) /\ Open(tray)
  BY <1>1 DEF TrayInv, Sound, Open
<1>3. phase' = "loop" /\ Open(tray') /\ Sound(tray')
  <2>1. CASE Tray!ButtonPressIcon
    BY <1>2, <2>1, ShowSound DEF Tray!ButtonPressIcon, Tray!Stay
  <2>2. CASE Tray!MotionNotify
    BY <1>2, <2>2, HoverSound DEF Tray!MotionNotify, Tray!Stay, Tray!TrayAssumption
  <2>3. CASE Tray!LeaveMenu
    BY <1>2, <2>3, HideSound DEF Tray!LeaveMenu, Tray!Stay
  <2>4. CASE Tray!SetChecked
    BY <1>2, <2>4, SetSound DEF Tray!SetChecked, Tray!Stay
  <2>5. QED
    BY <2>1, <2>2, <2>3, <2>4
<1>4. QED
  BY <1>3, StaysSound DEF Open

\* What comes back into view.
LEMMA Exposed == ASSUME TrayInv, Tray!Expose PROVE TrayInv'
<1>1. phase = "loop" /\ Sound(tray) /\ tray \in TrayType /\ phase' = "loop"
  BY DEF Tray!Expose, Tray!Loop, Tray!Stay, TrayInv
<1>2. CASE tray.menu # Tray!Null /\ tray' = Tray!x11ut__menu_draw(tray)
  <2>1. Open(tray)
    BY <1>1, <1>2 DEF Open, Sound
  <2>2. QED
    BY <1>1, <1>2, <2>1, DrawSound, StaysSound DEF Open
<1>3. CASE tray.notification # Tray!Null /\ tray' = Tray!x11ut__notification_draw(tray)
  BY <1>1, <1>3, BubbleDrawn, AlikeSound, StaysSound
<1>4. QED
  BY <1>2, <1>3 DEF Tray!Expose, Tray!Stay

\* Tooltip and bubble, and the end of the loop, leave menu and settings alone.
LEMMA OtherEvents ==
    ASSUME Tray!TrayAssumption, TrayInv,
           \/ Tray!EnterNotify \/ Tray!LeaveNotifyIcon \/ Tray!LeaveNotifyBubble \/ Tray!DestroyNotify
           \/ \E loads \in BOOLEAN : Tray!SetTooltip("tip", loads)
           \/ Tray!x11ut__show_notification \/ Tray!x11ut__hide_notification
           \/ Tray!x11ut__set_notification_duration \/ Tray!Tick \/ Tray!Update
    PROVE  TrayInv'
<1> USE DEF Tray!Loop, Tray!Stay
<1>1. phase = "loop" /\ Sound(tray) /\ tray \in TrayType
  BY DEF Tray!EnterNotify, Tray!LeaveNotifyIcon, Tray!LeaveNotifyBubble, Tray!DestroyNotify, Tray!SetTooltip,
         Tray!x11ut__show_notification, Tray!x11ut__hide_notification, Tray!x11ut__set_notification_duration,
         Tray!Tick, Tray!Update, TrayInv
<1>2. phase' \in {"loop", "crashed"} /\ tray' \in TrayType /\ Alike(tray, tray')
  <2>1. CASE Tray!EnterNotify
    BY <1>1, <2>1, TipShown DEF Tray!EnterNotify
  <2>2. CASE Tray!LeaveNotifyIcon
    BY <1>1, <2>2, TipHidden DEF Tray!LeaveNotifyIcon
  <2>3. CASE Tray!LeaveNotifyBubble
    BY <1>1, <2>3, BubbleTimed DEF Tray!LeaveNotifyBubble
  <2>4. CASE Tray!DestroyNotify
    BY <1>1, <2>4 DEF Tray!DestroyNotify, Tray!x11ut__exit_callback, TrayType, Alike
  <2>5. ASSUME NEW loads \in BOOLEAN, Tray!SetTooltip("tip", loads)
        PROVE  phase' \in {"loop", "crashed"} /\ tray' \in TrayType /\ Alike(tray, tray')
    <3>1. CASE tray.tooltip = Tray!Null /\ tray.menu = Tray!Null /\ ~loads
      BY <1>1, <2>5, <3>1 DEF Tray!SetTooltip, Alike
    <3>2. CASE ~(tray.tooltip = Tray!Null /\ tray.menu = Tray!Null /\ ~loads)
      BY <1>1, <2>5, <3>2, TipSet DEF Tray!SetTooltip
    <3>3. QED
      BY <3>1, <3>2
  <2>6. CASE Tray!x11ut__show_notification
    BY <1>1, <2>6, BubbleShown DEF Tray!x11ut__show_notification
  <2>7. CASE Tray!x11ut__hide_notification
    BY <1>1, <2>7, BubbleHidden DEF Tray!x11ut__hide_notification
  <2>8. CASE Tray!x11ut__set_notification_duration
    BY <1>1, <2>8, BubbleTimed DEF Tray!x11ut__set_notification_duration
  <2>9. CASE Tray!Tick
    BY <1>1, <2>9, BubbleTimed DEF Tray!Tick
  <2>10. CASE Tray!Update
    BY <1>1, <2>10, BubbleFades DEF Tray!Update
  <2>11. QED
    BY <2>1, <2>2, <2>3, <2>4, <2>5, <2>6, <2>7, <2>8, <2>9, <2>10
<1>3. Sound(tray')
  BY <1>1, <1>2, AlikeSound
<1>4. QED
  BY <1>2, <1>3, StaysSound

\* At the end there is no menu, and its font may have been closed twice.
LEMMA MainEnd ==
    ASSUME TrayInv, NEW closes \in BOOLEAN, Tray!main_end(closes)
    PROVE  TrayInv'
<1> DEFINE t == Tray!x11ut__notification_cleanup(tray)
           kept == IF t.menu = Tray!Null THEN t ELSE Tray!x11ut__menu_cleanup(Tray!x11ut__menu_hide(t))
           shut == t.menu = Tray!Null \/ closes
           tipless == Tray!x11ut__tooltip_cleanup(kept, shut)
<1>1. /\ Sound(tray) /\ tray \in TrayType /\ phase' = "exited"
      /\ tray' = [tipless EXCEPT !.display = Tray!Unset, !.running = FALSE, !.icon = Tray!Null,
                                 !.embedded = FALSE]
  BY DEF Tray!main_end, Tray!x11ut__tray_cleanup, TrayInv
<1>2. t \in TrayType /\ Sound(t)
  BY <1>1, BubbleWritten, AlikeSound DEF Tray!x11ut__notification_cleanup
<1> HIDE DEF t
<1>3. kept \in TrayType /\ kept.menu = Tray!Null /\ kept.refs = 0
  <2>1. CASE t.menu = Tray!Null
    BY <1>2, <2>1 DEF Sound, Nearly
  <2>2. CASE t.menu # Tray!Null
    <3> DEFINE hidden == Tray!x11ut__menu_hide(t)
    <3>1. Open(hidden)
      BY <1>2, <2>2, HideSound DEF Open, Sound
    <3>2. kept = [hidden EXCEPT !.menu = Tray!Null, !.refs = hidden.refs - 1]
      BY <2>2 DEF Tray!x11ut__menu_cleanup
    <3> HIDE DEF hidden, kept
    <3>3. hidden \in TrayType /\ hidden.refs = 1
      BY <3>1, OpenParts
    <3> DEFINE closed == [hidden EXCEPT !.menu = Tray!Null]
    <3>4. closed \in TrayType /\ closed.menu = Tray!Null /\ closed.refs = 1
      BY <3>3, WithMenu
    <3>5. kept = [closed EXCEPT !.refs = 0]
      BY <3>2, <3>3 DEF TrayType
    <3> HIDE DEF closed
    <3>6. QED
      BY <3>4, <3>5 DEF TrayType
  <2>3. QED
    BY <2>1, <2>2
<1> HIDE DEF kept, shut
<1>4. tipless \in TrayType /\ tipless.menu = Tray!Null
  <2>1. CASE kept.tooltip = Tray!Null
    BY <1>3, <2>1 DEF Tray!x11ut__tooltip_cleanup
  <2>2. CASE kept.tooltip # Tray!Null
    <3> DEFINE refs == IF kept.tooltip.font = "menu" /\ shut THEN kept.refs - 1 ELSE kept.refs
               bare == [kept EXCEPT !.tooltip = Tray!Null]
    <3>1. bare \in TrayType /\ bare.menu = Tray!Null
      BY <1>3, WithTip
    <3>2. refs \in -1..1
      BY <1>3
    <3>3. tipless = [bare EXCEPT !.refs = refs]
      BY <1>3, <2>2 DEF Tray!x11ut__tooltip_cleanup, TrayType
    <3> HIDE DEF bare, refs, tipless
    <3>4. QED
      BY <3>1, <3>2, <3>3 DEF TrayType
  <2>3. QED
    BY <2>1, <2>2
<1> HIDE DEF tipless
<1>5. tray' \in TrayType /\ tray'.menu = Tray!Null
  <2> DEFINE a == [tipless EXCEPT !.display = Tray!Unset]
             b == [a EXCEPT !.running = FALSE]
             c == [b EXCEPT !.icon = Tray!Null]
  <2>1. a \in TrayType /\ a.menu = Tray!Null
    BY <1>4 DEF TrayType, Tray!Unset
  <2>2. tray' = [c EXCEPT !.embedded = FALSE]
    BY <1>1
  <2> HIDE DEF a
  <2>3. b \in TrayType /\ b.menu = Tray!Null
    BY <2>1 DEF TrayType
  <2> HIDE DEF b
  <2>4. c \in TrayType /\ c.menu = Tray!Null
    BY <2>3 DEF TrayType
  <2> HIDE DEF c
  <2>5. QED
    BY <2>2, <2>4 DEF TrayType
<1>6. QED
  BY <1>1, <1>5 DEF TrayInv

LEMMA TrayStep == ASSUME Tray!TrayAssumption, TrayInv, [Tray!Next]_(Tray!vars) PROVE TrayInv'
<1>1. CASE Tray!Next
  BY <1>1, MainInit, MainStart, Clicked, MenuEvents, Exposed, OtherEvents, MainEnd DEF Tray!Next
<1>2. CASE UNCHANGED Tray!vars
  BY <1>2 DEF Tray!vars, TrayInv
<1>3. QED
  BY <1>1, <1>2

LEMMA TrayKnows ==
    TrayInv => /\ Tray!TypeOK /\ Tray!HoverOnItem /\ Tray!MenuFollowsSettings /\ Tray!FontHeld
               /\ Tray!ScreenIsCurrent /\ Tray!IconFollowsTheme
<1> SUFFICES ASSUME TrayInv
             PROVE  /\ Tray!TypeOK /\ Tray!HoverOnItem /\ Tray!MenuFollowsSettings /\ Tray!FontHeld
                    /\ Tray!ScreenIsCurrent /\ Tray!IconFollowsTheme
  OBVIOUS
<1>1. Tray!TypeOK
  <2>1. /\ tray.display \in {Tray!Unset, "open", "closed"}
        /\ tray.icon = Tray!Null \/ tray.icon.kind \in {"default", "test", "file"}
        /\ {tray.colors, tray.running, tray.dark, tray.english, tray.embedded} \subseteq BOOLEAN
        /\ tray.refs \in -1..1
    BY DEF TrayInv, TrayType, IconType, Tray!Unset
  <2>2. tray.menu # Tray!Null => tray.menu.hover \in -1..(Len(tray.menu.items) - 1)
    BY DEF TrayInv, HoverFine
  <2>3. tray.tooltip # Tray!Null => /\ tray.tooltip.font \in {"own", "menu"}
                                    /\ tray.tooltip.text \in {Tray!Unset, "English", "Chinese", "tip"}
    BY DEF TrayInv, TrayType, TipType, Tray!Unset
  <2>4. tray.notification # Tray!Null =>
          /\ tray.notification.opacity \in (-FadeStep)..255
          /\ {tray.notification.ink, tray.notification.paper} \subseteq BOOLEAN
          /\ tray.notification.property \in {"opaque", "faint", "invisible"}
    BY DEF TrayInv, TrayType, BubbleType, BubbleFields
  <2>5. QED
    BY <2>1, <2>2, <2>3, <2>4 DEF TrayInv, Tray!TypeOK
<1>2. Tray!HoverOnItem
  BY DEF TrayInv, HoverFine, Tray!HoverOnItem
<1>3. Tray!MenuFollowsSettings /\ Tray!FontHeld /\ Tray!ScreenIsCurrent /\ Tray!IconFollowsTheme
  BY DEF TrayInv, Sound, Nearly, Themed, Current, Tray!MenuFollowsSettings, Tray!FontHeld,
         Tray!ScreenIsCurrent, Tray!IconFollowsTheme
<1>4. QED
  BY <1>1, <1>2, <1>3

---------------------------------------------------------------------------
(* The tray detector, and the icon it docks. *)

\* A call of x11ut__tray_embed in the loop has a try left to count, and none goes
\* on where main does something else.
DetectInv ==
    /\ Detect!TypeOK
    /\ Detect!Embedding => at \in {"embed", "exited"} \/ (at = "loop" /\ tries < Tries)

LEMMA DetectInit == ASSUME Detect!TriesAssumption, Detect!Init PROVE DetectInv
<1>1. tries = 0 /\ Tries \in Nat
  BY DEF Detect!TriesAssumption, Detect!Init
<1>2. tries \in 0..Tries
  BY <1>1
<1>3. QED
  BY <1>2 DEF Detect!Init, Detect!TypeOK, Detect!Embedding, DetectInv

LEMMA DetectStep ==
    ASSUME Detect!TriesAssumption, DetectInv, [Detect!Next]_(Detect!vars)
    PROVE  DetectInv'
<1> USE DEF Detect!TriesAssumption, Detect!TypeOK, Detect!Embedding, DetectInv
<1>1. CASE Detect!x11ut__tray_init \/ Detect!x11ut__tray_set_icon \/ Detect!x11ut__menu_create
  BY <1>1 DEF Detect!x11ut__tray_init, Detect!x11ut__tray_set_icon, Detect!x11ut__menu_create
<1>2. CASE Detect!Embed
  BY <1>2 DEF Detect!Embed, Detect!x11ut__tray_embed, Detect!Returned
<1>3. CASE Detect!Retry
  <2>1. tries < Tries /\ tries' \in {tries, tries + 1} /\ (request' # request => tries' = tries)
    BY <1>3 DEF Detect!Retry, Detect!x11ut__tray_embed, Detect!Returned
  <2>2. tries' \in 0..Tries
    BY <2>1
  <2>3. QED
    BY <1>3, <2>1, <2>2 DEF Detect!Retry, Detect!x11ut__tray_embed, Detect!Returned
<1>4. CASE Detect!Send
  BY <1>4 DEF Detect!Send
<1>5. CASE Detect!MapWindow
  <2>1. tries' \in 0..Tries /\ embedded' = TRUE
    BY <1>5 DEF Detect!MapWindow, Detect!Returned
  <2>2. QED
    BY <1>5, <2>1 DEF Detect!MapWindow, Detect!Returned
<1>6. CASE Detect!x11ut__tray_process_events \/ Detect!x11ut__tray_cleanup
  BY <1>6 DEF Detect!x11ut__tray_process_events, Detect!x11ut__tray_cleanup
<1>7. CASE Detect!x11ut__tray_handle_button
  BY <1>7 DEF Detect!x11ut__tray_handle_button, Detect!x11ut__menu_show
<1>8. CASE Detect!ManagerLeaves \/ Detect!ManagerComes
  BY <1>8 DEF Detect!ManagerLeaves, Detect!ManagerComes
<1>9. CASE UNCHANGED Detect!vars
  BY <1>9 DEF Detect!vars
<1>10. QED
  BY <1>1, <1>2, <1>3, <1>4, <1>5, <1>6, <1>7, <1>8, <1>9 DEF Detect!Next, Detect!Program

---------------------------------------------------------------------------
(* The bloom filters. *)

FilterType == [ready : BOOLEAN, shape : Shapes \cup {None}, bf : SUBSET Nat, minor : Nat]
NoFilter == [head : {"none", "foreign", "short"}]
File == [head : {"filter"}, filter : FilterType, bytes : Nat, body : SUBSET Nat]

\* A field of bits holds elements: it has all the bits of each, and each has some.
Holds(shape, bf, elements) ==
    elements # {} =>
        /\ shape \in Shapes /\ shape.bits > 0
        /\ \A e \in elements : Bloom!Bits(shape, e) \subseteq bf

\* A field of bits is no longer than its shape says.
Fits(b) == \A x \in b.bf : x < 8 * Bloom!Bytes(b.shape)

\* What a structure was given is in its field, or it is not ready and was given
\* nothing; what a save that succeeded wrote is in the bytes its head counts.
FiltersHold ==
    \A f \in Filters :
        /\ filter[f].ready => filter[f].shape \in Shapes
        /\ ~filter[f].ready => added[f] = {}
        /\ Holds(filter[f].shape, filter[f].bf, added[f])
        /\ Fits(filter[f])

FileHolds ==
    /\ saved # {} => bloomed \in File
    /\ bloomed \in File =>
         /\ bloomed.filter.ready => bloomed.filter.shape \in Shapes
         /\ ~bloomed.filter.ready => saved = {}
         /\ Holds(bloomed.filter.shape,
                  Bloom!Within(bloomed.body, Bloom!Bytes(bloomed.filter.shape)), saved)

BloomInv ==
    /\ filter \in [Filters -> FilterType]
    /\ bloomed \in NoFilter \cup File
    /\ added \in [Filters -> SUBSET Elements] /\ saved \in SUBSET Elements
    /\ FiltersHold /\ FileHolds
    /\ saves \in 0..MaxSaves /\ crashed \in BOOLEAN

\* Every bit of an element lies within the bytes of its shape.
LEMMA BitsFit ==
    ASSUME Bloom!BloomAssumption, NEW shape \in Shapes, shape.bits > 0, NEW e \in Elements
    PROVE  /\ Bloom!Bits(shape, e) \in SUBSET Nat
           /\ \A x \in Bloom!Bits(shape, e) : x < 8 * Bloom!Bytes(shape)
<1>1. shape.bits \in Nat \ {0} /\ shape.hashes \in 1..255
  BY DEF Bloom!BloomAssumption
<1>2. First[e] \in Nat /\ Second[e] \in Nat
  BY DEF Bloom!BloomAssumption
<1>3. shape.bits <= 8 * Bloom!Bytes(shape)
  BY <1>1 DEF Bloom!Bytes
<1>4. ASSUME NEW i \in 0..(shape.hashes - 1)
      PROVE  (First[e] + Second[e] * i) % shape.bits \in 0..(shape.bits - 1)
  <2>1. i \in Nat
    BY <1>1
  <2>2. Second[e] * i \in Nat
    BY <2>1, <1>2
  <2>3. First[e] + Second[e] * i \in Nat
    BY <2>2, <1>2
  <2>4. \A n \in Nat : n % shape.bits \in 0..(shape.bits - 1)
    BY <1>1
  <2>5. QED
    BY <2>3, <2>4
<1>5. Bloom!Bytes(shape) \in Nat
  BY <1>1 DEF Bloom!Bytes
<1>6. \A x \in 0..(shape.bits - 1) : x \in Nat /\ x < 8 * Bloom!Bytes(shape)
  BY <1>1, <1>3, <1>5
<1>7. QED
  BY <1>4, <1>6 DEF Bloom!Bits

\* A structure may become whatever keeps what it is told to hold.
LEMMA PutKeeps ==
    ASSUME BloomInv, NEW f \in Filters, NEW new \in FilterType, NEW elements \in SUBSET Elements,
           Bloom!Put(f, new, elements), UNCHANGED <<bloomed, saved, saves, crashed>>,
           new.ready => new.shape \in Shapes,
           ~new.ready => elements = {},
           Holds(new.shape, new.bf, elements), Fits(new)
    PROVE  BloomInv'
<1>1. /\ filter' \in [Filters -> FilterType]
      /\ added' \in [Filters -> SUBSET Elements]
  BY DEF BloomInv, Bloom!Put
<1>2. /\ filter'[f] = new /\ added'[f] = elements
      /\ \A g \in Filters \ {f} : filter'[g] = filter[g] /\ added'[g] = added[g]
  BY DEF BloomInv, Bloom!Put
<1>3. FiltersHold'
  BY <1>2 DEF BloomInv, FiltersHold, Holds, Fits
<1>4. FileHolds'
  BY DEF BloomInv, FileHolds
<1>5. QED
  BY <1>1, <1>3, <1>4 DEF BloomInv

\* A structure that is not ready, and holds nothing.
LEMMA UnreadyHolds ==
    /\ Bloom!Unready \in FilterType /\ ~Bloom!Unready.ready
    /\ \A shape, bf : Holds(shape, bf, {})
    /\ Fits(Bloom!Unready) /\ \A b \in FilterType : b.bf = {} => Fits(b)
BY DEF Bloom!Unready, FilterType, Holds, Fits

\* A field with more bits set holds what it held.
LEMMA HoldsMore ==
    ASSUME NEW shape, NEW bf, NEW more, NEW elements, Holds(shape, bf, elements), bf \subseteq more
    PROVE  Holds(shape, more, elements)
BY DEF Holds

LEMMA BloomInit == ASSUME Bloom!BloomAssumption, Bloom!Init PROVE BloomInv
<1>1. /\ filter \in [Filters -> FilterType] /\ added \in [Filters -> SUBSET Elements]
      /\ FiltersHold /\ saves \in 0..MaxSaves /\ crashed \in BOOLEAN
  <2>1. saves = 0 /\ crashed = FALSE /\ MaxSaves \in Nat
    BY DEF Bloom!Init, Bloom!BloomAssumption
  <2>2. filter = [f \in Filters |-> Bloom!Unready] /\ added = [f \in Filters |-> {}]
    BY DEF Bloom!Init
  <2>3. filter \in [Filters -> FilterType] /\ added \in [Filters -> SUBSET Elements]
    BY <2>2, UnreadyHolds
  <2>4. FiltersHold
    BY <2>2, UnreadyHolds DEF FiltersHold
  <2>5. saves \in 0..MaxSaves
    BY <2>1
  <2>6. crashed \in BOOLEAN
    BY <2>1
  <2>7. QED
    BY <2>3, <2>4, <2>5, <2>6
<1>2. CASE bloomed \in {[head |-> "none"], [head |-> "foreign"]} /\ saved = {}
  BY <1>1, <1>2 DEF BloomInv, FileHolds, NoFilter, File
<1>3. ASSUME NEW shape \in Shapes, NEW e \in Elements,
             shape.bits > 0, bloomed = Bloom!Made(shape, e), saved = {e}
      PROVE  BloomInv
  <2>1. shape.bits \in Nat /\ Bloom!Bytes(shape) \in Nat /\ Bloom!BLOOM_VERSION_MINOR + 1 \in Nat
    BY DEF Bloom!BloomAssumption, Bloom!Bytes, Bloom!BLOOM_VERSION_MINOR
  <2>2. bloomed \in File /\ bloomed.filter.ready /\ bloomed.filter.shape = shape
    BY <1>3, <2>1, BitsFit DEF Bloom!Made, File, FilterType
  <2>3. Bloom!Bits(shape, e) \subseteq Bloom!Within(bloomed.body, Bloom!Bytes(shape))
    BY <1>3, BitsFit DEF Bloom!Made, Bloom!Within
  <2>4. Holds(shape, Bloom!Within(bloomed.body, Bloom!Bytes(shape)), saved)
    BY <1>3, <2>3 DEF Holds
  <2>5. QED
    BY <1>1, <1>3, <2>2, <2>4 DEF BloomInv, FileHolds
<1>4. QED
  BY <1>2, <1>3 DEF Bloom!Init

\* Adding sets the element's bits and clears none.
LEMMA AddKeeps ==
    ASSUME Bloom!BloomAssumption, BloomInv, NEW f \in Filters, NEW e \in Elements, NEW add \in BOOLEAN,
           filter[f].ready, Bloom!bloom_check_add(f, e, add)
    PROVE  BloomInv'
<1>1. CASE filter[f].shape.bits = 0
  BY <1>1 DEF Bloom!bloom_check_add, BloomInv, FiltersHold, FileHolds, Fits
<1>2. CASE filter[f].shape.bits # 0
  <2> DEFINE shape == filter[f].shape
             more == filter[f].bf \cup Bloom!Bits(shape, e)
             new == [filter[f] EXCEPT !.bf = more]
  <2>1. /\ filter[f] \in FilterType /\ shape \in Shapes
        /\ added[f] \in SUBSET Elements /\ Holds(shape, filter[f].bf, added[f])
        /\ Fits(filter[f])
    BY DEF BloomInv, FiltersHold
  <2>2. shape.bits > 0
    BY <1>2, <2>1 DEF Bloom!BloomAssumption
  <2>3. more \in SUBSET Nat
    BY <2>1, <2>2, BitsFit DEF FilterType
  <2>4. new \in FilterType /\ new.ready /\ new.shape = shape /\ new.bf = more
    BY <2>1, <2>3 DEF FilterType
  <2>5. Holds(shape, more, added[f] \cup {e})
    BY <2>1, <2>2 DEF Holds
  <2>6. Bloom!Put(f, new, added[f] \cup {e}) /\ UNCHANGED <<bloomed, saved, saves, crashed>>
    BY <1>2 DEF Bloom!bloom_check_add
  <2>7. Holds(new.shape, new.bf, added[f] \cup {e}) /\ new.shape \in Shapes
    BY <2>1, <2>4, <2>5
  <2>8. added[f] \cup {e} \in SUBSET Elements
    BY <2>1
  <2>9. Fits(new)
    BY <2>1, <2>2, <2>4, BitsFit DEF Fits
  <2> HIDE DEF new
  <2>10. QED
    BY <2>4, <2>6, <2>7, <2>8, <2>9, PutKeeps
<1>3. QED
  BY <1>1, <1>2

\* A save that succeeds puts all bits where load looks for them; any other forgets
\* the claim, or leaves the file as it was.
LEMMA SaveKeeps ==
    ASSUME Bloom!BloomAssumption, BloomInv, NEW f \in Filters, Bloom!bloom_save(f)
    PROVE  BloomInv'
<1> DEFINE shape == filter[f].shape
           all == Bloom!Bytes(shape)
<1>1. PICK bf \in Bloom!Memory(f), head \in BOOLEAN, bytes \in 0..all :
        /\ head \/ bytes = 0
        /\ bloomed' = Bloom!Written(f, bf, head, bytes)
        /\ saved' = IF head /\ bytes = all THEN added[f] ELSE IF head THEN {} ELSE saved
  BY DEF Bloom!bloom_save
<1>2. /\ filter' = filter /\ added' = added /\ FiltersHold'
      /\ saves' \in 0..MaxSaves /\ crashed' \in BOOLEAN
  BY DEF Bloom!bloom_save, BloomInv, FiltersHold, Fits, Bloom!BloomAssumption
<1>3. /\ filter[f] \in FilterType /\ added[f] \in SUBSET Elements
      /\ Holds(shape, filter[f].bf, added[f])
      /\ filter[f].ready => shape \in Shapes
      /\ ~filter[f].ready => added[f] = {}
  BY DEF BloomInv, FiltersHold
<1>4. Bloom!HasHead <=> bloomed \in File
  BY DEF BloomInv, Bloom!HasHead, NoFilter, File
<1>5. CASE ~head
  <2>1. saved' = saved
    BY <1>1, <1>5
  <2>2. CASE Bloom!HasHead
    BY <1>1, <1>2, <1>5, <2>1, <2>2 DEF BloomInv, FileHolds, Bloom!Written
  <2>3. CASE ~Bloom!HasHead
    <3>1. bloomed' = [head |-> "short"] /\ saved = {}
      BY <1>1, <1>4, <1>5, <2>3 DEF Bloom!Written, BloomInv, FileHolds
    <3>2. bloomed' \in NoFilter /\ bloomed' \notin File
      BY <3>1 DEF NoFilter, File
    <3>3. QED
      BY <1>2, <2>1, <3>1, <3>2 DEF BloomInv, FileHolds
  <2>4. QED
    BY <2>2, <2>3
<1>6. CASE head
  <2> DEFINE old == IF Bloom!HasHead THEN bloomed.body \ Bloom!Within(bloomed.body, bytes) ELSE {}
  <2>1. /\ bloomed'.head = "filter" /\ bloomed'.filter = [filter[f] EXCEPT !.bf = {}]
        /\ bloomed'.body = Bloom!Within(bf, bytes) \cup old
        /\ bloomed' = [head |-> "filter", filter |-> bloomed'.filter,
                       bytes |-> bloomed'.bytes, body |-> bloomed'.body]
        /\ bloomed'.bytes = IF Bloom!HasHead /\ bloomed.bytes > bytes THEN bloomed.bytes ELSE bytes
    BY <1>1, <1>6 DEF Bloom!Written
  <2>2. bf \in SUBSET Nat
    <3>1. CASE filter[f].ready
      BY <1>3, <3>1 DEF Bloom!Memory, FilterType
    <3>2. CASE ~filter[f].ready
      <4>1. 0..(filter[f].shape.bits - 1) \subseteq Nat
        OBVIOUS
      <4>2. QED
        BY <3>2, <4>1 DEF Bloom!Memory
    <3>3. QED
      BY <3>1, <3>2
  <2>3. bytes \in Nat
    OBVIOUS
  <2>4. /\ bloomed'.filter \in FilterType /\ bloomed'.filter.shape = shape
        /\ bloomed'.filter.ready = filter[f].ready
    BY <1>3, <2>1 DEF FilterType
  <2>5. bloomed' \in File
    <3>1. old \in SUBSET Nat
      BY <1>4 DEF File, Bloom!Within
    <3>2. bloomed'.body \in SUBSET Nat
      BY <2>1, <2>2, <3>1 DEF Bloom!Within
    <3>3. bloomed'.bytes \in Nat
      BY <1>4, <2>1, <2>3 DEF File
    <3>4. QED
      BY <2>1, <2>4, <3>2, <3>3 DEF File
  <2>6. saved' \in SUBSET Elements /\ (~filter[f].ready => saved' = {})
    BY <1>1, <1>3, <1>6
  <2>7. Holds(shape, Bloom!Within(bloomed'.body, all), saved')
    <3>1. CASE bytes = all /\ filter[f].ready
      <4>1. saved' = added[f] /\ bf = filter[f].bf
        BY <1>1, <1>6, <3>1 DEF Bloom!Memory
      <4>2. ASSUME NEW e \in added[f] PROVE Bloom!Bits(shape, e) \subseteq Bloom!Within(bloomed'.body, all)
        <5>1. shape \in Shapes /\ shape.bits > 0 /\ Bloom!Bits(shape, e) \subseteq bf
          BY <1>3, <4>1, <4>2 DEF Holds
        <5>2. \A x \in Bloom!Bits(shape, e) : x < 8 * all
          BY <1>3, <4>2, <5>1, BitsFit
        <5>3. QED
          BY <2>1, <3>1, <5>1, <5>2 DEF Bloom!Within
      <4>3. QED
        BY <1>3, <4>1, <4>2 DEF Holds
    <3>2. CASE ~(bytes = all /\ filter[f].ready)
      BY <1>1, <1>3, <1>6, <3>2 DEF Holds
    <3>3. QED
      BY <3>1, <3>2
  <2>8. FileHolds'
    BY <1>3, <2>4, <2>5, <2>6, <2>7 DEF FileHolds
  <2>9. QED
    BY <1>2, <2>5, <2>6, <2>8 DEF BloomInv
<1>7. QED
  BY <1>5, <1>6

\* Of a file that is whole, load takes the bits the claim is about.
LEMMA LoadKeeps ==
    ASSUME Bloom!BloomAssumption, BloomInv, NEW f \in Filters, Bloom!bloom_load(f)
    PROVE  BloomInv'
<1>1. CASE ~Bloom!Whole
  BY <1>1, PutKeeps, UnreadyHolds DEF Bloom!bloom_load, BloomInv
<1>2. CASE Bloom!Whole
  <2> DEFINE shape == bloomed.filter.shape
             read == [bloomed.filter EXCEPT !.bf = Bloom!Within(bloomed.body, Bloom!Bytes(shape))]
             empty == [read EXCEPT !.bf = {}]
  <2>1. bloomed \in File
    BY <1>2 DEF Bloom!Whole, Bloom!HasHead, BloomInv, NoFilter, File
  <2>2. /\ read \in FilterType /\ read.shape = shape /\ read.ready = bloomed.filter.ready
        /\ read.bf = Bloom!Within(bloomed.body, Bloom!Bytes(shape))
        /\ empty \in FilterType /\ empty.ready = read.ready /\ empty.bf = {}
    BY <2>1 DEF File, FilterType, Bloom!Within
  <2>3. UNCHANGED <<bloomed, saved, saves, crashed>> /\ saved \in SUBSET Elements
    BY DEF Bloom!bloom_load, BloomInv
  <2>4. CASE read.ready
    <3>1. Bloom!Put(f, read, saved)
      BY <1>2, <2>4 DEF Bloom!bloom_load
    <3>2. read.shape \in Shapes /\ Holds(read.shape, read.bf, saved)
      BY <2>1, <2>2, <2>4 DEF BloomInv, FileHolds
    <3>3. Fits(read)
      BY <2>2 DEF Fits, Bloom!Within
    <3>4. QED
      BY <2>2, <2>3, <2>4, <3>1, <3>2, <3>3, PutKeeps
  <2>5. CASE ~read.ready
    <3>1. Bloom!Put(f, empty, {})
      BY <1>2, <2>5 DEF Bloom!bloom_load
    <3>2. QED
      BY <2>2, <2>3, <2>5, <3>1, PutKeeps, UnreadyHolds
  <2>6. QED
    BY <2>4, <2>5
<1>3. QED
  BY <1>1, <1>2

\* The bits of both are the bits of what either holds.
LEMMA MergeKeeps ==
    ASSUME BloomInv, NEW dest \in Filters, NEW src \in Filters, Bloom!bloom_merge(dest, src)
    PROVE  BloomInv'
<1> DEFINE both == filter[dest].bf \cup filter[src].bf
           new == [filter[dest] EXCEPT !.bf = both]
<1>1. /\ filter[dest] \in FilterType /\ filter[src] \in FilterType
      /\ filter[dest].ready /\ filter[dest].shape = filter[src].shape
      /\ filter[dest].shape \in Shapes
      /\ added[dest] \cup added[src] \in SUBSET Elements
      /\ Fits(filter[dest]) /\ Fits(filter[src])
  BY DEF BloomInv, FiltersHold, Bloom!bloom_merge, Bloom!Mergeable
<1>2. new \in FilterType /\ new.ready /\ new.shape = filter[dest].shape /\ new.bf = both
  BY <1>1 DEF FilterType
<1>3. /\ Holds(new.shape, both, added[dest]) /\ Holds(new.shape, both, added[src])
  BY <1>1, <1>2, HoldsMore DEF BloomInv, FiltersHold
<1>4. Holds(new.shape, new.bf, added[dest] \cup added[src])
  BY <1>2, <1>3 DEF Holds
<1>5. Bloom!Put(dest, new, added[dest] \cup added[src]) /\ UNCHANGED <<bloomed, saved, saves, crashed>>
  BY DEF Bloom!bloom_merge
<1>6. Fits(new)
  BY <1>1, <1>2 DEF Fits
<1>7. QED
  BY <1>1, <1>2, <1>4, <1>5, <1>6, PutKeeps

LEMMA BloomStep == ASSUME Bloom!BloomAssumption, BloomInv, [Bloom!Next]_(Bloom!vars) PROVE BloomInv'
<1>1. ASSUME NEW f \in Filters, Bloom!bloom_init2(f) PROVE BloomInv'
  <2>1. PICK shape \in Shapes, works \in BOOLEAN :
          Bloom!Put(f, IF works
                         THEN [ready |-> TRUE, shape |-> shape, bf |-> {}, minor |-> Bloom!BLOOM_VERSION_MINOR]
                         ELSE Bloom!Unready, {})
    BY <1>1 DEF Bloom!bloom_init2
  <2>2. [ready |-> TRUE, shape |-> shape, bf |-> {}, minor |-> Bloom!BLOOM_VERSION_MINOR] \in FilterType
    BY DEF FilterType, Bloom!BLOOM_VERSION_MINOR
  <2>3. UNCHANGED <<bloomed, saved, saves, crashed>>
    BY <1>1 DEF Bloom!bloom_init2
  <2>4. CASE works
    BY <2>1, <2>2, <2>3, <2>4, PutKeeps, UnreadyHolds
  <2>5. CASE ~works
    BY <2>1, <2>3, <2>5, PutKeeps, UnreadyHolds
  <2>6. QED
    BY <2>4, <2>5
<1>2. ASSUME NEW f \in Filters, Bloom!bloom_free(f) \/ Bloom!bloom_reset(f) PROVE BloomInv'
  <2>1. filter[f] \in FilterType /\ (filter[f].ready => filter[f].shape \in Shapes)
    BY DEF BloomInv, FiltersHold
  <2>2. /\ [filter[f] EXCEPT !.ready = FALSE, !.bf = {}] \in FilterType
        /\ [filter[f] EXCEPT !.bf = {}] \in FilterType
    BY <2>1 DEF FilterType
  <2>3. UNCHANGED <<bloomed, saved, saves, crashed>> /\ filter[f].ready
    BY <1>2 DEF Bloom!bloom_free, Bloom!bloom_reset
  <2>4. CASE Bloom!bloom_free(f)
    BY <2>1, <2>2, <2>3, <2>4, PutKeeps, UnreadyHolds DEF Bloom!bloom_free, FilterType, Fits
  <2>5. CASE Bloom!bloom_reset(f)
    BY <2>1, <2>2, <2>3, <2>5, PutKeeps, UnreadyHolds DEF Bloom!bloom_reset, FilterType, Fits
  <2>6. QED
    BY <1>2, <2>4, <2>5
<1>3. ASSUME NEW f \in Filters, NEW e \in Elements, Bloom!bloom_add(f, e) \/ Bloom!Ask(f, e) PROVE BloomInv'
  BY <1>3, AddKeeps DEF Bloom!bloom_add, Bloom!Ask
<1>4. CASE UNCHANGED Bloom!vars
  BY <1>4 DEF Bloom!vars, BloomInv, FiltersHold, FileHolds, Fits
<1>5. QED
  BY <1>1, <1>2, <1>3, <1>4, SaveKeeps, LoadKeeps, MergeKeeps DEF Bloom!Next


LEMMA BloomKnows ==
    ASSUME Bloom!BloomAssumption, BloomInv
    PROVE  Bloom!TypeOK /\ Bloom!Remembers
<1>1. Bloom!Remembers
  BY DEF BloomInv, FiltersHold, Holds, Bloom!Remembers, Bloom!bloom_check
<1>2. bloomed.head \in {"none", "foreign", "short", "filter"}
  BY DEF BloomInv, NoFilter, File
<1>3. ASSUME NEW f \in Filters
      PROVE  /\ filter[f].shape \in Shapes \cup {None}
             /\ filter[f].ready => filter[f].shape # None
             /\ \A x \in filter[f].bf : x < 8 * Bloom!Bytes(filter[f].shape)
  BY DEF BloomInv, FiltersHold, Fits, FilterType, Bloom!BloomAssumption
<1>4. QED
  BY <1>1, <1>2, <1>3 DEF BloomInv, Bloom!TypeOK

---------------------------------------------------------------------------
(* The addresses of netut. *)

\* The last message about its address.
LastOfItsAddress(i) == \A j \in 1..Len(queue) : j > i => queue[j].addr # queue[i].addr
Pending(a) == \E i \in 1..Len(queue) : queue[i].addr = a

\* What the socket still holds ends, for each address, in how it is.
QueueTells ==
    \A i \in 1..Len(queue) :
        LastOfItsAddress(i) => (queue[i].type = "new" <=> queue[i].addr \in addrs)

\* The program believes only in names that are founded, or that a message about
\* them waits for, and every address is known, or waits for its message.
ViewTrue ==
    /\ \A e \in view :
         \/ e \in list /\ e[2] # None
         \/ \E a \in Addrs : e \in Ip!Told(a) /\ (Pending(a) \/ a \in addrs \/ Iface[a] \in gone)
    /\ \A a \in addrs :
         Pending(a) \/ a \in left \/ Ip!FarEnd(a) \/ {<<a, None>>, Ip!Listed(a)} \cap view # {}

\* A socket is open as long as its monitor runs; a freed monitor has no thread in
\* it, and a program that has crashed has closed the socket before.
IpPlaces ==
    /\ socket <=> monitor = "running"
    /\ \A a \in addrs : Iface[a] \notin gone
    /\ monitor = "freed" => thread \in {"out", "done"}
    /\ thread = "crashed" => ~socket

\* As long as no message was lost to a full buffer, and nobody gave up reading.
Reliable == socket /\ ~overrun /\ thread # "done"

IpInv ==
    /\ Ip!TypeOK
    /\ IpPlaces
    /\ Reliable => QueueTells /\ (list # None => ViewTrue)

MessageType == [type : {"new", "del"}, addr : Addrs]
Printed == UNION {Ip!Told(a) \cup {Ip!Listed(a)} : a \in Addrs}

LEMMA IpTypes ==
    /\ Ip!TypeOK => /\ addrs \subseteq Addrs /\ gone \subseteq Ifaces
                    /\ queue \in Seq(MessageType) /\ Len(queue) <= Buffer
                    /\ overrun \in BOOLEAN /\ socket \in BOOLEAN
                    /\ (list = None \/ list \subseteq {Ip!Listed(a) : a \in Addrs})
                    /\ view \subseteq Printed /\ left \subseteq Addrs
BY DEF Ip!TypeOK, MessageType, Printed

LEMMA NoMessages ==
    ASSUME Ip!IpAssumption
    PROVE  <<>> \in Seq([type : {"new", "del"}, addr : Addrs]) /\ Len(<<>>) <= Buffer
BY DEF Ip!IpAssumption

\* A listening socket is given the message, or the overrun is marked.
LEMMA Notified ==
    ASSUME Ip!IpAssumption, queue \in Seq(MessageType), Len(queue) <= Buffer,
           socket \in BOOLEAN, overrun \in BOOLEAN,
           NEW m \in MessageType, Ip!Notify(<<m>>)
    PROVE  /\ queue' \in Seq(MessageType) /\ Len(queue') <= Buffer /\ overrun' \in BOOLEAN
           /\ ~socket => queue' = queue /\ overrun' = overrun
           /\ overrun => overrun'
           /\ queue # <<>> => queue' # <<>>
           /\ socket /\ ~overrun' => queue' = Append(queue, m)
<1> DEFINE room == Buffer - Len(queue)
<1>1. CASE ~socket
  BY <1>1 DEF Ip!Notify
<1>2. CASE socket
  <2>1. Len(queue) \in Nat /\ Buffer \in Nat /\ Len(<<m>>) = 1 /\ <<m>> \in Seq(MessageType)
    BY DEF Ip!IpAssumption
  <2>2. CASE room < 1
    <3>1. room = 0
      BY <2>1, <2>2
    <3>2. queue' = queue \o SubSeq(<<m>>, 1, 0)
      BY <1>2, <2>1, <3>1 DEF Ip!Notify
    <3>6. overrun' = TRUE
      BY <1>2, <2>1, <2>2 DEF Ip!Notify
    <3>3. SubSeq(<<m>>, 1, 0) = <<>>
      BY <2>1
    <3>4. queue' = queue
      BY <3>2, <3>3
    <3>5. QED
      BY <1>2, <3>4, <3>6
  <2>3. CASE room >= 1
    <3>1. queue' = queue \o SubSeq(<<m>>, 1, 1) /\ overrun' = overrun
      BY <1>2, <2>1, <2>3 DEF Ip!Notify
    <3>2. SubSeq(<<m>>, 1, 1) = <<m>>
      <4>1. /\ SubSeq(<<m>>, 1, 1) \in Seq(MessageType) /\ Len(SubSeq(<<m>>, 1, 1)) = 1
            /\ SubSeq(<<m>>, 1, 1)[1] = m /\ <<m>>[1] = m
        BY <2>1
      <4>2. \A i \in 1..1 : SubSeq(<<m>>, 1, 1)[i] = <<m>>[i]
        BY <4>1
      <4>3. QED
        BY <2>1, <4>1, <4>2, SeqEqual
    <3>3. queue' = Append(queue, m)
      BY <3>1, <3>2
    <3>4. Len(queue') = Len(queue) + 1 /\ queue' \in Seq(MessageType)
      BY <3>3
    <3>5. QED
      BY <1>2, <2>1, <2>3, <3>1, <3>3, <3>4
  <2>4. QED
    BY <2>1, <2>2, <2>3
<1>3. QED
  BY <1>1, <1>2

\* A change of one address, with the message that says how it is now.
LEMMA ChangeTells ==
    ASSUME queue \in Seq(MessageType), NEW m \in MessageType, queue' = Append(queue, m),
           m.type = "new" <=> m.addr \in addrs',
           \A a : a # m.addr => (a \in addrs' <=> a \in addrs)
    PROVE  /\ QueueTells => QueueTells'
           /\ addrs \subseteq Addrs /\ ViewTrue /\ UNCHANGED <<gone, list, view, left>> => ViewTrue'
<1>1. /\ Len(queue) \in Nat /\ Len(queue') = Len(queue) + 1
      /\ \A i \in 1..Len(queue) : queue'[i] = queue[i] /\ queue[i] \in MessageType
      /\ queue'[Len(queue) + 1] = m
  OBVIOUS
<1>2. ASSUME QueueTells, NEW i \in 1..Len(queue'), LastOfItsAddress(i)'
      PROVE  queue'[i].type = "new" <=> queue'[i].addr \in addrs'
  <2>1. CASE i = Len(queue) + 1
    BY <1>1, <2>1
  <2>2. CASE i \in 1..Len(queue)
    <3>1. LastOfItsAddress(i) /\ queue'[i] = queue[i]
      BY <1>1, <1>2, <2>2 DEF LastOfItsAddress
    <3>2. queue[i].addr # m.addr /\ queue[i].addr \in Addrs
      BY <1>1, <1>2, <2>2 DEF LastOfItsAddress, MessageType
    <3>3. QED
      BY <1>2, <2>2, <3>1, <3>2 DEF QueueTells
  <2>3. QED
    BY <1>1, <2>1, <2>2
<1>3. Pending(m.addr)' /\ \A a : Pending(a) => Pending(a)'
  BY <1>1 DEF Pending
<1>4. ASSUME ViewTrue, UNCHANGED <<gone, list, view, left>>, addrs \subseteq Addrs PROVE ViewTrue'
  <2>1. ASSUME NEW a \in Addrs, Pending(a) \/ a \in addrs \/ Iface[a] \in gone
        PROVE  Pending(a)' \/ a \in addrs' \/ Iface[a] \in gone'
    BY <1>3, <1>4, <2>1
  <2>2. ASSUME NEW e \in view'
        PROVE  \/ e \in list' /\ e[2] # None
               \/ \E a \in Addrs : e \in Ip!Told(a) /\ (Pending(a)' \/ a \in addrs' \/ Iface[a] \in gone')
    BY <1>4, <2>1, <2>2 DEF ViewTrue
  <2>3. ASSUME NEW a \in addrs', ~Pending(a)'
        PROVE  a \in left' \/ Ip!FarEnd(a) \/ {<<a, None>>, Ip!Listed(a)} \cap view' # {}
    <3>1. a # m.addr /\ ~Pending(a)
      BY <1>3, <2>3
    <3>2. a \in addrs
      BY <2>3, <3>1
    <3>3. QED
      BY <1>4, <3>1, <3>2 DEF ViewTrue
  <2>4. QED
    BY <2>2, <2>3 DEF ViewTrue
<1>5. QED
  BY <1>2, <1>4 DEF QueueTells

\* Reading a message leaves the rest, and the program knows of its address what
\* it says, if nothing more about it waits.
LEMMA ReadingTells ==
    ASSUME Ip!IpAssumption, queue \in Seq(MessageType), queue # <<>>, queue' = Tail(queue),
           addrs \subseteq Addrs, \A a \in addrs : Iface[a] \notin gone,
           UNCHANGED <<addrs, gone, list, left>>,
           IF Ip!Named(Head(queue)) THEN Ip!Apply(Head(queue)) ELSE UNCHANGED view,
           QueueTells
    PROVE  QueueTells' /\ (ViewTrue => ViewTrue')
<1>0. PICK m : m = Head(queue)
  OBVIOUS
<1>1. /\ Len(queue) \in Nat /\ Len(queue) >= 1 /\ Len(queue') = Len(queue) - 1
      /\ \A i \in 1..Len(queue') : queue'[i] = queue[i + 1]
      /\ m = queue[1] /\ m \in MessageType
  BY <1>0
<1>2. ASSUME NEW i \in 1..Len(queue'), LastOfItsAddress(i)'
      PROVE  queue'[i].type = "new" <=> queue'[i].addr \in addrs'
  <2>1. i + 1 \in 1..Len(queue) /\ queue'[i] = queue[i + 1]
    BY <1>1
  <2>2. ASSUME NEW j \in 1..Len(queue), j > i + 1 PROVE queue[j].addr # queue[i + 1].addr
    <3>1. j - 1 \in 1..Len(queue') /\ j - 1 > i /\ queue'[j - 1] = queue[j]
      BY <1>1, <2>2
    <3>2. QED
      BY <1>2, <2>1, <3>1 DEF LastOfItsAddress
  <2>3. LastOfItsAddress(i + 1)
    BY <2>2 DEF LastOfItsAddress
  <2>4. QED
    BY <2>1, <2>3 DEF QueueTells
<1>3. \A a : Pending(a) => Pending(a)' \/ a = m.addr
  <2>1. ASSUME NEW a, NEW i \in 1..Len(queue), queue[i].addr = a, a # m.addr PROVE Pending(a)'
    <3>1. i - 1 \in 1..Len(queue') /\ queue'[i - 1] = queue[i]
      BY <1>1, <2>1
    <3>2. QED
      BY <2>1, <3>1 DEF Pending
  <2>2. QED
    BY <2>1 DEF Pending
<1>4. ASSUME ~Pending(m.addr)' PROVE m.type = "new" <=> m.addr \in addrs
  <2>1. ASSUME NEW i \in 1..Len(queue), i # 1 PROVE queue[i].addr # m.addr
    <3>1. i - 1 \in 1..Len(queue') /\ queue'[i - 1] = queue[i]
      BY <1>1, <2>1
    <3>2. QED
      BY <1>4, <3>1 DEF Pending
  <2>2. 1 \in 1..Len(queue) /\ LastOfItsAddress(1)
    BY <1>1, <2>1 DEF LastOfItsAddress
  <2>3. QED
    BY <1>1, <2>2 DEF QueueTells
<1>5. m.addr \in Addrs
  BY <1>1 DEF MessageType
<1>6. view' = IF ~Ip!Named(m) THEN view
              ELSE IF m.type = "new" THEN view \cup Ip!Told(m.addr) ELSE view \ Ip!Told(m.addr)
  BY <1>0 DEF Ip!Apply
<1>7. ASSUME ViewTrue, NEW e \in view'
      PROVE  \/ e \in list' /\ e[2] # None
             \/ \E a \in Addrs : e \in Ip!Told(a) /\ (Pending(a)' \/ a \in addrs' \/ Iface[a] \in gone')
  <2>1. CASE e \notin view
    <3>1. Ip!Named(m) /\ m.type = "new" /\ e \in Ip!Told(m.addr)
      BY <1>6, <1>7, <2>1
    <3>2. Pending(m.addr)' \/ m.addr \in addrs'
      BY <1>4, <3>1
    <3>3. QED
      BY <1>5, <3>1, <3>2
  <2>2. ASSUME NEW a \in Addrs, e \in Ip!Told(a), Pending(a) \/ a \in addrs \/ Iface[a] \in gone
        PROVE  Pending(a)' \/ a \in addrs' \/ Iface[a] \in gone'
    <3>1. SUFFICES ASSUME ~Pending(a)', a \notin addrs, Iface[a] \notin gone PROVE FALSE
      OBVIOUS
    <3>2. a = m.addr
      BY <1>3, <2>2, <3>1
    <3>3. Ip!Named(m) /\ m.type # "new"
      BY <1>4, <3>1, <3>2 DEF Ip!Named
    <3>4. QED
      BY <1>6, <1>7, <2>2, <3>2, <3>3
  <2>3. QED
    BY <1>7, <2>1, <2>2 DEF ViewTrue
<1>8. ASSUME ViewTrue, NEW a \in addrs', ~Pending(a)', a \notin left', ~Ip!FarEnd(a)
      PROVE  {<<a, None>>, Ip!Listed(a)} \cap view' # {}
  <2>1. CASE a = m.addr
    <3>1. Ip!Named(m) /\ m.type = "new"
      BY <1>4, <1>8, <2>1 DEF Ip!Named
    <3>2. <<a, None>> \in Ip!Told(m.addr)
      BY <2>1 DEF Ip!Told
    <3>3. QED
      BY <1>6, <3>1, <3>2
  <2>2. CASE a # m.addr
    <3>1. ~Pending(a)
      BY <1>3, <1>8, <2>2
    <3>2. PICK x \in {<<a, None>>, Ip!Listed(a)} : x \in view
      BY <1>8, <3>1 DEF ViewTrue
    <3>3. Peer[m.addr] # a
      BY <1>5, <1>8, <2>2 DEF Ip!FarEnd
    <3>4. Iface[a] # None
      BY <1>8 DEF Ip!IpAssumption
    <3>5. <<a, None>> \notin Ip!Told(m.addr)
      BY <2>2, <3>3 DEF Ip!Told
    <3>6. Ip!Listed(a) \notin Ip!Told(m.addr)
      BY <2>2, <3>3, <3>4 DEF Ip!Told, Ip!Listed
    <3>7. x \in view'
      BY <1>6, <3>2, <3>5, <3>6
    <3>8. QED
      BY <3>2, <3>7
  <2>3. QED
    BY <2>1, <2>2
<1>9. ViewTrue => ViewTrue'
  BY <1>7, <1>8 DEF ViewTrue
<1>10. QED
  BY <1>2, <1>9 DEF QueueTells

LEMMA IpInit == ASSUME Ip!IpAssumption, Ip!Init PROVE IpInv
<1>1. Ip!TypeOK
  BY NoMessages DEF Ip!Init, Ip!TypeOK, Ip!IpAssumption
<1>2. IpPlaces /\ ~Reliable
  BY DEF Ip!Init, IpPlaces, Reliable
<1>3. QED
  BY <1>1, <1>2 DEF IpInv

\* The kernel adds or removes an address.
LEMMA IpChanges ==
    ASSUME Ip!IpAssumption, IpInv, NEW a \in Addrs, Ip!AddAddr(a) \/ Ip!DelAddr(a)
    PROVE  IpInv'
<1> DEFINE new == Ip!AddAddr(a)
           m == [type |-> IF new THEN "new" ELSE "del", addr |-> a]
<1>1. Ip!Notify(<<m>>) /\ m \in MessageType
  BY DEF Ip!AddAddr, Ip!DelAddr, MessageType
<1>2. /\ addrs' = IF new THEN addrs \cup {a} ELSE addrs \ {a}
      /\ new => Iface[a] \notin gone
      /\ UNCHANGED <<down, gone, monitor, socket, thread, list, view, left, shown>>
  BY DEF Ip!AddAddr, Ip!DelAddr, Ip!program, Ip!known
<1>3. /\ queue' \in Seq(MessageType) /\ Len(queue') <= Buffer /\ overrun' \in BOOLEAN
      /\ ~socket => queue' = queue /\ overrun' = overrun
      /\ overrun => overrun'
      /\ queue # <<>> => queue' # <<>>
      /\ socket /\ ~overrun' => queue' = Append(queue, m)
  BY <1>1, IpTypes, Notified DEF IpInv
<1> HIDE DEF m
<1>4. Ip!TypeOK'
  BY <1>2, <1>3 DEF IpInv, Ip!TypeOK, MessageType
<1>5. IpPlaces'
  BY <1>2, <1>3 DEF IpInv, IpPlaces
<1>6. ASSUME Reliable' PROVE QueueTells' /\ (list' # None => ViewTrue')
  <2>1. Reliable /\ queue' = Append(queue, m)
    BY <1>2, <1>3, <1>6, IpTypes DEF Reliable, IpInv
  <2>2. m.type = "new" <=> m.addr \in addrs'
    BY <1>2 DEF m
  <2>3. \A b : b # m.addr => (b \in addrs' <=> b \in addrs)
    BY <1>2 DEF m
  <2>4. queue \in Seq(MessageType) /\ addrs \subseteq Addrs
    BY IpTypes DEF IpInv
  <2>5. QED
    BY <1>1, <1>2, <2>1, <2>2, <2>3, <2>4, ChangeTells DEF IpInv
<1>7. QED
  BY <1>4, <1>5, <1>6 DEF IpInv

\* An interface goes, up or down.
LEMMA IpPlugs ==
    ASSUME IpInv, NEW i \in Ifaces, Ip!Unplug(i) \/ Ip!UpOrDown(i)
    PROVE  IpInv'
<1>1. /\ UNCHANGED <<addrs, queue, overrun, monitor, socket, thread, list, view, left, shown>>
      /\ gone \subseteq gone'
  BY DEF Ip!Unplug, Ip!UpOrDown, Ip!program, Ip!known
<1>2. Ip!TypeOK'
  BY <1>1 DEF IpInv, Ip!TypeOK, Ip!Unplug, Ip!UpOrDown
<1>3. \A a \in addrs' : Iface[a] \notin gone'
  BY DEF IpInv, IpPlaces, Ip!Unplug, Ip!UpOrDown
<1>4. IpPlaces'
  BY <1>1, <1>3 DEF IpInv, IpPlaces
<1>5. Reliable' = Reliable /\ (QueueTells => QueueTells') /\ (ViewTrue => ViewTrue')
  BY <1>1 DEF Reliable, QueueTells, LastOfItsAddress, ViewTrue, Pending
<1>6. QED
  BY <1>1, <1>2, <1>4, <1>5 DEF IpInv

\* The monitor is made, started, stopped and freed.
LEMMA IpControls ==
    ASSUME Ip!IpAssumption, IpInv,
           \/ Ip!netut_create_ip_monitor_event \/ Ip!netut_start_ip_monitor_event
           \/ Ip!netut_stop_ip_monitor_event \/ Ip!netut_free_ip_monitor_event
    PROVE  IpInv'
<1>1. CASE Ip!netut_create_ip_monitor_event
  <2>1. /\ UNCHANGED <<addrs, down, gone, queue, overrun, socket, thread, list, view, left, shown>>
        /\ monitor = "none" /\ monitor' = "created"
    BY <1>1 DEF Ip!netut_create_ip_monitor_event, Ip!kernel, Ip!known
  <2>2. Ip!TypeOK'
    BY <2>1 DEF IpInv, Ip!TypeOK
  <2>3. IpPlaces' /\ ~Reliable'
    BY <2>1 DEF IpInv, IpPlaces, Reliable
  <2>4. QED
    BY <2>2, <2>3 DEF IpInv
<1>2. CASE Ip!netut_start_ip_monitor_event
  <2>1. /\ UNCHANGED <<addrs, down, gone, shown>> /\ queue' = <<>> /\ overrun' = FALSE
        /\ monitor' = "running" /\ socket' = TRUE
        /\ thread # "crashed" /\ thread' = IF thread = "done" THEN "out" ELSE thread
        /\ list' = None /\ view' = {} /\ left' = {}
    BY <1>2 DEF Ip!netut_start_ip_monitor_event
  <2>2. Ip!TypeOK'
    BY <2>1, NoMessages DEF IpInv, Ip!TypeOK
  <2>3. IpPlaces'
    BY <2>1 DEF IpInv, IpPlaces
  <2>4. QueueTells'
    BY <2>1 DEF QueueTells
  <2>5. QED
    BY <2>1, <2>2, <2>3, <2>4 DEF IpInv
<1>3. CASE Ip!netut_stop_ip_monitor_event \/ Ip!netut_free_ip_monitor_event
  <2>1. /\ UNCHANGED <<addrs, down, gone, list, view, left, shown>>
        /\ thread' = thread \/ (thread = "polling" /\ thread' = "stale" /\ monitor' = "stopped")
        /\ queue' = <<>> /\ overrun' = FALSE /\ socket' = FALSE
        /\ monitor' \in {"stopped", "freed"} /\ (monitor' = "freed" => thread \in {"out", "done"})
    BY <1>3 DEF Ip!netut_stop_ip_monitor_event, Ip!netut_free_ip_monitor_event, Ip!known
  <2>2. Ip!TypeOK'
    BY <2>1, NoMessages DEF IpInv, Ip!TypeOK
  <2>3. IpPlaces' /\ ~Reliable'
    BY <2>1 DEF IpInv, IpPlaces, Reliable
  <2>4. QED
    BY <2>2, <2>3 DEF IpInv
<1>4. QED
  BY <1>1, <1>2, <1>3

\* The blocking thread takes its turns.
LEMMA IpTurns ==
    ASSUME IpInv, Ip!netut_process_ip_events_blocking \/ Ip!Turn \/ Ip!Select
    PROVE  IpInv'
<1>1. /\ UNCHANGED <<addrs, down, gone, queue, overrun, monitor, socket, list, view, left, shown>>
      /\ thread' \in {"in", "polling", "ready", "done", "crashed"}
      /\ thread # "done"
      /\ monitor # "freed"
      /\ thread' = "crashed" => ~socket
  BY DEF IpInv, IpPlaces, Ip!netut_process_ip_events_blocking, Ip!Turn, Ip!Select, Ip!At, Ip!kernel, Ip!known
<1>2. Ip!TypeOK'
  BY <1>1 DEF IpInv, Ip!TypeOK
<1>3. IpPlaces'
  BY <1>1 DEF IpInv, IpPlaces
<1>4. (Reliable' => Reliable) /\ (QueueTells => QueueTells') /\ (ViewTrue => ViewTrue')
  BY <1>1 DEF Reliable, QueueTells, LastOfItsAddress, ViewTrue, Pending
<1>5. QED
  BY <1>1, <1>2, <1>3, <1>4 DEF IpInv

\* A message is read.
LEMMA IpReads == ASSUME Ip!IpAssumption, IpInv, Ip!netut__parse_netlink_message PROVE IpInv'
<1>1. /\ thread = "ready" /\ UNCHANGED <<addrs, down, gone, monitor, socket, list, left, shown>>
      /\ monitor # "freed"
  BY DEF Ip!netut__parse_netlink_message, IpInv, IpPlaces
<1>2. /\ queue \in Seq(MessageType) /\ Len(queue) <= Buffer /\ Len(queue) \in Nat
      /\ addrs \subseteq Addrs /\ view \subseteq Printed
  BY IpTypes DEF IpInv
<1>3. CASE ~socket \/ overrun
  <2>1. thread' = "done" /\ overrun' = FALSE /\ UNCHANGED <<queue, view>>
    BY <1>3 DEF Ip!netut__parse_netlink_message
  <2>2. Ip!TypeOK'
    BY <1>1, <2>1 DEF IpInv, Ip!TypeOK
  <2>3. IpPlaces' /\ ~Reliable'
    BY <1>1, <2>1 DEF IpInv, IpPlaces, Reliable
  <2>4. QED
    BY <2>2, <2>3 DEF IpInv
<1>4. CASE socket /\ ~overrun /\ queue = <<>>
  <2>1. thread' = "in" /\ UNCHANGED <<queue, overrun, view>>
    BY <1>4 DEF Ip!netut__parse_netlink_message
  <2>2. Ip!TypeOK'
    BY <1>1, <2>1 DEF IpInv, Ip!TypeOK
  <2>3. IpPlaces'
    BY <1>1, <2>1 DEF IpInv, IpPlaces
  <2>4. Reliable /\ (QueueTells => QueueTells') /\ (ViewTrue => ViewTrue')
    BY <1>1, <1>4, <2>1 DEF Reliable, QueueTells, LastOfItsAddress, ViewTrue, Pending
  <2>5. QED
    BY <1>1, <2>2, <2>3, <2>4 DEF IpInv
<1>5. CASE socket /\ ~overrun /\ queue # <<>>
  <2>1. /\ thread' = "in" /\ queue' = Tail(queue) /\ UNCHANGED overrun
        /\ IF Ip!Named(Head(queue)) THEN Ip!Apply(Head(queue)) ELSE UNCHANGED view
    BY <1>5 DEF Ip!netut__parse_netlink_message
  <2>2. /\ queue' \in Seq(MessageType) /\ Len(queue') = Len(queue) - 1 /\ Head(queue) \in MessageType
    BY <1>2, <1>5, <2>1
  <2>3. view' \subseteq Printed
    <3>1. Ip!Told(Head(queue).addr) \subseteq Printed
      BY <2>2 DEF Printed, MessageType
    <3>2. QED
      BY <1>2, <2>1, <3>1 DEF Ip!Apply
  <2>4. Len(queue') <= Buffer
    BY <1>2, <2>2 DEF Ip!IpAssumption
  <2>5. Ip!TypeOK'
    BY <1>1, <2>1, <2>2, <2>3, <2>4 DEF IpInv, Ip!TypeOK, MessageType, Printed
  <2>6. IpPlaces'
    BY <1>1, <2>1 DEF IpInv, IpPlaces
  <2>7. QueueTells /\ (list # None => ViewTrue)
    BY <1>1, <1>5 DEF Reliable, IpInv
  <2>8. QueueTells' /\ (ViewTrue => ViewTrue')
    BY <1>1, <1>2, <1>5, <2>1, <2>7, ReadingTells DEF IpInv, IpPlaces
  <2>9. QED
    BY <1>1, <2>5, <2>6, <2>7, <2>8 DEF IpInv
<1>6. QED
  BY <1>3, <1>4, <1>5

\* The program lists, and may leave addresses out.
LEMMA IpLists ==
    ASSUME Ip!IpAssumption, IpInv, NEW all, all \subseteq {Ip!Listed(a) : a \in addrs}, Ip!List(all)
    PROVE  IpInv'
<1>1. /\ monitor = "running" /\ list' = all /\ view' = all
      /\ left' = {a \in addrs : Ip!Listed(a) \notin all}
      /\ UNCHANGED <<addrs, down, gone, queue, overrun, monitor, socket, thread, shown>>
  BY DEF Ip!List, Ip!kernel, Ip!program
<1>2. addrs \subseteq Addrs
  BY IpTypes DEF IpInv
<1>3. all \subseteq {Ip!Listed(a) : a \in Addrs} /\ all \subseteq Printed
  BY <1>2 DEF Printed
<1>4. Ip!TypeOK'
  BY <1>1, <1>2, <1>3 DEF IpInv, Ip!TypeOK, Printed
<1>5. IpPlaces'
  BY <1>1 DEF IpInv, IpPlaces
<1>6. ASSUME NEW e \in view'
      PROVE  \/ e \in list' /\ e[2] # None
             \/ \E a \in Addrs : e \in Ip!Told(a) /\ (Pending(a)' \/ a \in addrs' \/ Iface[a] \in gone')
  <2>1. PICK a \in addrs : e = Ip!Listed(a)
    BY <1>1, <1>6
  <2>2. CASE a \in LinkLocal
    <3>1. e[2] = Iface[a] /\ Iface[a] # None
      BY <1>2, <2>1, <2>2 DEF Ip!Listed, Ip!IpAssumption
    <3>2. QED
      BY <1>1, <1>6, <3>1
  <2>3. CASE a \notin LinkLocal
    <3>1. e \in Ip!Told(a)
      BY <2>1, <2>3 DEF Ip!Listed, Ip!Told
    <3>2. QED
      BY <1>1, <1>2, <3>1
  <2>4. QED
    BY <2>2, <2>3
<1>7. \A a \in addrs' : a \in left' \/ {<<a, None>>, Ip!Listed(a)} \cap view' # {}
  BY <1>1
<1>8. ViewTrue'
  BY <1>6, <1>7 DEF ViewTrue
<1>9. Reliable' = Reliable /\ (QueueTells => QueueTells')
  BY <1>1 DEF Reliable, QueueTells, LastOfItsAddress
<1>10. QED
  BY <1>4, <1>5, <1>8, <1>9 DEF IpInv

\* What the program does with its list when the monitor is gone.
LEMMA IpEnds ==
    ASSUME Ip!IpAssumption, IpInv,
           (\E i \in Ifaces, spare \in {2, 3} : Ip!Show(i, spare)) \/ Ip!netut_free_ip_list
    PROVE  IpInv'
<1>1. /\ UNCHANGED <<addrs, down, gone, queue, overrun, monitor, socket, thread, view, left>>
      /\ monitor = "freed" /\ list # None /\ list' \in {list, None}
  BY DEF Ip!Show, Ip!netut_free_ip_list, Ip!kernel, Ip!program
<1>2. shown' = None \/ shown' \in [found : SUBSET {Ip!Listed(a) : a \in Addrs}, text : [result : {0, -5}, closed : BOOLEAN]]
  <2>1. ASSUME NEW i \in Ifaces, NEW spare \in {2, 3}, Ip!Show(i, spare)
        PROVE  shown' \in [found : SUBSET {Ip!Listed(a) : a \in Addrs}, text : [result : {0, -5}, closed : BOOLEAN]]
    <3>1. Ip!netut_find_ip_by_interface(list, i) \in SUBSET {Ip!Listed(a) : a \in Addrs}
      BY <1>1 DEF Ip!netut_find_ip_by_interface, IpInv, Ip!TypeOK
    <3>2. Ip!netut_format_ip_list_json(list, spare) \in [result : {0, -5}, closed : BOOLEAN]
      BY DEF Ip!netut_format_ip_list_json
    <3>3. QED
      BY <2>1, <3>1, <3>2 DEF Ip!Show
  <2>2. QED
    BY <2>1 DEF Ip!netut_free_ip_list, IpInv, Ip!TypeOK
<1>3. Ip!TypeOK'
  BY <1>1, <1>2 DEF IpInv, Ip!TypeOK
<1>4. IpPlaces' /\ ~Reliable'
  BY <1>1 DEF IpInv, IpPlaces, Reliable
<1>5. QED
  BY <1>3, <1>4 DEF IpInv

LEMMA IpStep == ASSUME Ip!IpAssumption, IpInv, [Ip!Next]_(Ip!vars) PROVE IpInv'
<1>1. /\ Ip!netut_get_all_ip_addresses \subseteq {Ip!Listed(a) : a \in addrs}
      /\ Ip!netut_get_ipv4_addresses \subseteq {Ip!Listed(a) : a \in addrs}
      /\ Ip!netut_get_ipv6_addresses \subseteq {Ip!Listed(a) : a \in addrs}
  BY DEF Ip!netut_get_all_ip_addresses, Ip!netut_get_ipv4_addresses, Ip!netut_get_ipv6_addresses,
         Ip!netut_get_ip_addresses
<1>2. CASE Ip!Next
  BY <1>1, <1>2, IpChanges, IpPlugs, IpControls, IpTurns, IpReads, IpLists, IpEnds DEF Ip!Next
<1>3. CASE UNCHANGED Ip!vars
  BY <1>3 DEF Ip!vars, Ip!kernel, Ip!program, Ip!known, IpInv, IpPlaces, Ip!TypeOK, Reliable,
              QueueTells, LastOfItsAddress, ViewTrue, Pending
<1>4. QED
  BY <1>2, <1>3

LEMMA IpKnows == IpInv => Ip!CaughtUp
<1> SUFFICES ASSUME IpInv, Ip!Following
             PROVE  /\ \A e \in view : Ip!Founded(e)
                    /\ \A a \in addrs \ left :
                         Ip!FarEnd(a) \/ {<<a, None>>, Ip!Listed(a)} \cap view # {}
  BY DEF Ip!CaughtUp
<1>1. Reliable /\ list # None /\ ViewTrue
  BY DEF Ip!Following, IpInv, IpPlaces, Reliable
<1>2. \A a : ~Pending(a)
  BY DEF Ip!Following, Pending
<1>3. QED
  BY <1>1, <1>2 DEF ViewTrue, Ip!Founded

---------------------------------------------------------------------------
(* The process listings of psutil. *)

AllCalls == Calls \cup {Process!main_demo_process_threads_count[i] : i \in 1..6}
Scanning == place # None /\ Process!Call.kind \in Process!Scans
Titles == Names \cup {"unknown"} \cup {Shown[n] : n \in Names} \cup {Argv0[n] : n \in Names}

\* The process has had its turn.
Passed(p) == p < place.pid \/ (p = place.pid /\ place.next = "dir")

\* What the listing owes a process that was there all along and has had its turn.
Told(call, l, p) ==
    CASE call.kind = "find_max" -> l # <<>> /\ \E x \in Process!Was(p) : x.threads <= l[1].threads
      [] call.kind = "enumerate" -> Len(l) < call.max => \E i \in DOMAIN l : l[i].pid = p
      [] OTHER -> \E i \in DOMAIN l : l[i].pid = p

\* The walk stands at an entry, those handed out with it lie ahead, and whoever lies
\* ahead and was not handed out lies beyond them.
WalkFine ==
    /\ place \in [next : {"dir", "name", "threads"}, pid : Nat, batch : SUBSET Pids, name : Titles \cup {None}]
    /\ place.next # "dir" => place.pid \in Pids
    /\ place.next = "threads" => place.name \in Titles
    /\ place.next = "threads" /\ Process!Call.kind # "by_name" => Process!HadName(place.pid, place.name)
    /\ \A b \in place.batch : b > place.pid
    /\ \A p \in steady : p > place.pid => p \in place.batch \/ \A b \in place.batch : p > b

Entry == [pid : Pids, threads : Threads, name : Titles]

\* Each entry is of another process, and true of it.
Truthful(l) ==
    /\ l \in Seq(Entry)
    /\ \A i, j \in 1..Len(l) : i < j => l[i].pid < l[j].pid
    /\ \A i \in 1..Len(l) : Process!HadThreads(l[i].pid, l[i].threads)
    /\ Process!Call.kind # "by_name" => \A i \in 1..Len(l) : Process!HadName(l[i].pid, l[i].name)

\* What was gathered is of processes that had their turn, and all it should be.
GatheredFine ==
    /\ Truthful(out)
    /\ \A i \in 1..Len(out) : Passed(out[i].pid)
    /\ Process!Call.kind # "by_name" => \A p \in steady : Passed(p) => Told(Process!Call, out, p)

ProcessInv ==
    /\ table \in [Pids -> Process!Processes] /\ churn \in 0..Churn
    /\ steady \subseteq Pids /\ held \subseteq Pids \X (Process!Processes \ {None})
    /\ todo \in Seq(AllCalls)
    /\ place # None => /\ todo # <<>> /\ answer = None
                       /\ steady \subseteq Process!Alive /\ Process!Facts(table) \subseteq held
    /\ Scanning => WalkFine /\ GatheredFine
    /\ Process!Listed

\* The least of some numbers, by the sets of those below them.
LEMMA LeastOf ==
    ASSUME NEW S, IsFiniteSet(S), S \subseteq Nat, S # {}
    PROVE  /\ Process!Least(S) \in S
           /\ \A q \in S : Process!Least(S) <= q
<1> DEFINE Below(p) == {q \in S : q < p}
           R == StrictSubsetOrdering(S)
           T == {Below(p) : p \in S}
<1>1. IsWellFoundedOn(R, SUBSET S)
  BY FS_FiniteSubsetsOfFinite, FS_StrictSubsetOrderingWellFounded
<1>2. T \subseteq SUBSET S /\ T # {}
  OBVIOUS
<1>3. PICK t \in T : \A u \in T : ~(<<u, t>> \in R)
  <2> HIDE DEF T, R
  <2>1. QED
    BY <1>1, <1>2, WFMin
<1>4. PICK p \in S : t = Below(p)
  OBVIOUS
<1>5. ASSUME NEW q \in S, q < p PROVE FALSE
  <2>1. Below(q) \subseteq Below(p) /\ Below(q) # Below(p)
    <3>1. q \in Below(p) /\ q \notin Below(q)
      BY <1>5
    <3>2. \A x \in Below(q) : x \in Below(p)
      BY <1>5
    <3>3. QED
      BY <3>1, <3>2
  <2>2. <<Below(q), Below(p)>> \in R
    BY <2>1 DEF StrictSubsetOrdering
  <2>3. QED
    BY <1>3, <1>4, <2>2
<1>6. \A q \in S : p <= q
  BY <1>5
<1>7. QED
  BY <1>6 DEF Process!Least

LEMMA SameSets ==
    /\ \A S : Process!IsFiniteSet(S) = IsFiniteSet(S)
    /\ \A S : Process!Cardinality(S) = Cardinality(S)
BY Zenon DEF Process!IsFiniteSet, IsFiniteSet, Process!Cardinality, Cardinality

LEMMA PidsFine ==
    ASSUME Process!ProcessAssumption
    PROVE  /\ IsFiniteSet(Pids) /\ Pids \subseteq Nat \ {0} /\ Threads \subseteq Nat \ {0}
           /\ Batch \in Nat \ {0} /\ Churn \in Nat \ {0} /\ Process!Alive \subseteq Pids
<1>1. IsFiniteSet(Pids)
  BY SameSets, Zenon DEF Process!ProcessAssumption
<1>2. QED
  BY <1>1 DEF Process!ProcessAssumption, Process!Alive

\* One system call returns the next entries, none only when there are none.
LEMMA NextOnes ==
    ASSUME Process!ProcessAssumption, NEW pid \in Nat
    PROVE  LET rest == Process!After(pid)
               next == Process!NextEntries(pid)
           IN /\ next \subseteq rest
              /\ \A p \in rest : p \in next \/ \A b \in next : p > b
              /\ rest # {} => next # {}
<1> DEFINE rest == Process!After(pid)
           next == Process!NextEntries(pid)
           Below(p) == {q \in rest : q < p}
<1>1. /\ IsFiniteSet(Pids) /\ Pids \subseteq Nat /\ Batch \in Nat \ {0} /\ rest \subseteq Pids
  BY PidsFine DEF Process!After
<1>2. IsFiniteSet(rest) /\ rest \subseteq Nat
  BY <1>1, FS_Subset
<1>3. next = {p \in rest : Cardinality(Below(p)) < Batch}
  BY SameSets, Zenon DEF Process!NextEntries
<1>4. \A p \in rest : IsFiniteSet(Below(p)) /\ Cardinality(Below(p)) \in Nat
  BY <1>2, FS_Subset, FS_CardinalityType
<1>5. ASSUME NEW p \in rest, NEW b \in next, ~(p > b) PROVE p \in next
  <2>1. b \in rest /\ p <= b
    BY <1>2, <1>3, <1>5
  <2>2. Below(p) \in SUBSET Below(b)
    BY <1>2, <2>1
  <2>3. Cardinality(Below(p)) <= Cardinality(Below(b))
    BY <1>4, <2>1, <2>2, FS_Subset
  <2>4. Cardinality(Below(b)) < Batch
    BY <1>3
  <2>5. Cardinality(Below(p)) < Batch
    BY <1>1, <1>4, <2>1, <2>3, <2>4
  <2>6. QED
    BY <1>3, <2>5
<1>6. ASSUME rest # {} PROVE next # {}
  <2>1. PICK p \in rest : \A q \in rest : p <= q
    BY <1>2, <1>6, LeastOf
  <2>2. Below(p) = {}
    BY <1>2, <2>1
  <2>3. Cardinality(Below(p)) < Batch
    BY <1>1, <2>2, FS_EmptySet
  <2>4. QED
    BY <1>3, <2>3
<1>7. next \subseteq rest
  BY <1>3
<1>8. QED
  BY <1>5, <1>6, <1>7

\* Every call a program makes carries the limit its kind needs.
LEMMA CallsFine ==
    ASSUME Process!ProcessAssumption
    PROVE  /\ Process!Programs \subseteq Seq(AllCalls)
           /\ \A c \in AllCalls : /\ c.kind = "all" => c.max \in Int
                                  /\ c.kind \in {"enumerate", "top"} => c.max \in Nat \ {0}
<1> DEFINE main == Process!main_demo_process_threads_count
<1>1. Len(main) = 6 /\ main \in Seq(AllCalls)
  <2>1. main \in Seq({main[i] : i \in 1..6}) /\ Len(main) = 6
    BY DEF Process!main_demo_process_threads_count
  <2>2. {main[i] : i \in 1..6} \subseteq AllCalls
    BY DEF AllCalls
  <2>3. QED
    BY <2>1, <2>2
<1>2. ASSUME NEW c \in Calls PROVE <<c>> \in Seq(AllCalls)
  BY DEF AllCalls
<1>3. ASSUME NEW i \in 1..6
      PROVE  /\ main[i].kind = "all" => main[i].max \in Int
             /\ main[i].kind \in {"enumerate", "top"} => main[i].max \in Nat \ {0}
  <2>1. /\ main[1].kind = "count" /\ main[2].kind = "enumerate" /\ main[2].max = Demo.first
        /\ main[3].kind = "top" /\ main[3].max = Demo.top /\ main[4].kind = "by_name"
        /\ main[5].kind = "count" /\ main[6].kind = "find_max"
    BY DEF Process!main_demo_process_threads_count
  <2>2. i \in {1, 2, 3, 4, 5, 6} /\ Demo.first \in Nat \ {0} /\ Demo.top \in Nat \ {0}
    BY DEF Process!ProcessAssumption
  <2>3. QED
    BY <2>1, <2>2
<1>4. Process!Programs \subseteq Seq(AllCalls)
  <2>1. Process!Programs = {main} \cup {<<c>> : c \in Calls}
    BY DEF Process!Programs
  <2> HIDE DEF main
  <2>2. QED
    BY <1>1, <1>2, <2>1
<1>5. \A c \in Calls : /\ c.kind = "all" => c.max \in Int
                       /\ c.kind \in {"enumerate", "top"} => c.max \in Nat \ {0}
  BY DEF Process!ProcessAssumption
<1>6. QED
  <2> HIDE DEF main
  <2>1. AllCalls = Calls \cup {main[i] : i \in 1..6}
    BY DEF AllCalls, main
  <2>2. QED
    BY <1>3, <1>4, <1>5, <2>1

\* What was seen stays seen.
LEMMA MoreHeld ==
    ASSUME held \subseteq held'
    PROVE  /\ \A p : Process!Was(p) \subseteq Process!Was(p)'
           /\ \A p, n : Process!HadThreads(p, n) => Process!HadThreads(p, n)'
           /\ \A p, n : Process!HadName(p, n) => Process!HadName(p, n)'
           /\ \A call, l, p : Told(call, l, p) => Told(call, l, p)'
<1>1. ASSUME NEW p PROVE Process!Was(p) \subseteq Process!Was(p)'
  BY DEF Process!Was
<1>2. ASSUME NEW p, NEW n, Process!HadThreads(p, n) PROVE Process!HadThreads(p, n)'
  BY <1>1, <1>2 DEF Process!HadThreads
<1>3. ASSUME NEW p, NEW n, Process!HadName(p, n) PROVE Process!HadName(p, n)'
  BY <1>1, <1>3 DEF Process!HadName
<1>4. ASSUME NEW call, NEW l, NEW p, Told(call, l, p) PROVE Told(call, l, p)'
  BY <1>1, <1>4 DEF Told
<1>5. QED
  BY <1>1, <1>2, <1>3, <1>4

LEMMA StaysTrue ==
    ASSUME UNCHANGED <<todo, held>>
    PROVE  /\ \A l : Truthful(l) => Truthful(l)'
           /\ \A l, p : Told(Process!Call, l, p) => Told(Process!Call, l, p)'
           /\ \A p, n : Process!HadName(p, n) => Process!HadName(p, n)'
<1>1. Process!Call' = Process!Call /\ held \subseteq held'
  BY DEF Process!Call
<1>2. ASSUME NEW l, Truthful(l) PROVE Truthful(l)'
  BY <1>1, <1>2, MoreHeld DEF Truthful
<1>3. ASSUME NEW l, NEW p, Told(Process!Call, l, p) PROVE Told(Process!Call, l, p)'
  BY <1>1, <1>3, MoreHeld
<1>4. \A p, n : Process!HadName(p, n) => Process!HadName(p, n)'
  BY <1>1, MoreHeld
<1>5. QED
  BY <1>2, <1>3, <1>4

LEMMA EntriesTyped ==
    ASSUME Process!ProcessAssumption, NEW l, Truthful(l)
    PROVE  /\ Len(l) \in Nat
           /\ \A i \in 1..Len(l) : l[i] \in Entry /\ l[i].pid \in Pids /\ l[i].pid \in Nat
                                   /\ l[i].threads \in Threads /\ l[i].threads \in Nat
<1>1. l \in Seq(Entry)
  BY DEF Truthful
<1>2. Len(l) \in Nat /\ \A i \in 1..Len(l) : l[i] \in Entry
  BY <1>1
<1>3. QED
  BY <1>2, PidsFine DEF Entry

\* Nothing was told while no answer stands.
LEMMA NothingTold == (answer = None => Process!Listed) /\ (answer' = None => Process!Listed')
BY DEF Process!Listed, Process!Lists

\* The system changes a process while a call runs.
LEMMA ProcessChanges ==
    ASSUME Process!ProcessAssumption, ProcessInv, NEW q \in Pids, NEW new \in Process!Processes, Process!Change(q, new)
    PROVE  ProcessInv'
<1>1. /\ place # None /\ churn < Churn /\ table' = [table EXCEPT ![q] = new] /\ churn' = churn + 1
      /\ steady' = IF new = None THEN steady \ {q} ELSE steady
      /\ held' = held \cup Process!Facts(table')
      /\ UNCHANGED <<todo, place, out, answer>>
  BY DEF Process!Change
<1>2. /\ table' \in [Pids -> Process!Processes] /\ churn' \in 0..Churn /\ steady' \subseteq steady
      /\ held \subseteq held' /\ Process!Facts(table') \subseteq held'
  BY <1>1, PidsFine DEF ProcessInv
<1>3. held' \subseteq Pids \X (Process!Processes \ {None})
  BY <1>1, <1>2 DEF ProcessInv, Process!Facts
<1>4. steady' \subseteq Process!Alive'
  <2>1. \A p \in steady' : p \in Pids /\ table[p] # None /\ (p = q => new # None)
    BY <1>1 DEF ProcessInv, Process!Alive
  <2>2. QED
    BY <1>1, <2>1 DEF Process!Alive, ProcessInv
<1>5. Process!Listed'
  BY <1>1, NothingTold DEF ProcessInv
<1>6. ASSUME Scanning' PROVE WalkFine' /\ GatheredFine'
  <2>1. Scanning /\ Process!Call' = Process!Call /\ WalkFine /\ GatheredFine
    BY <1>1, <1>6 DEF Scanning, ProcessInv, Process!Call
  <2>2. \A p : Passed(p)' = Passed(p)
    BY <1>1 DEF Passed
  <2>3. WalkFine'
    BY <1>1, <1>2, <2>1, MoreHeld DEF WalkFine
  <2>4. GatheredFine'
    BY <1>1, <1>2, <2>1, <2>2, MoreHeld DEF GatheredFine, Truthful
  <2>5. QED
    BY <2>3, <2>4
<1>7. QED
  BY <1>1, <1>2, <1>3, <1>4, <1>5, <1>6 DEF ProcessInv

\* A call begins, moves on, or returns.
LEMMA ProcessBegins ==
    ASSUME Process!ProcessAssumption, ProcessInv, NEW first, Process!Begin(first),
           Scanning' => WalkFine' /\ GatheredFine'
    PROVE  ProcessInv'
<1>1. /\ todo # <<>> /\ place' = first /\ out' = <<>> /\ churn' = 0
      /\ steady' = Process!Alive /\ held' = Process!Facts(table) /\ answer' = None
      /\ UNCHANGED <<table, todo>>
  BY DEF Process!Begin
<1>2. /\ steady' \subseteq Pids /\ held' \subseteq Pids \X (Process!Processes \ {None})
      /\ Process!Alive' = Process!Alive /\ Process!Facts(table') = Process!Facts(table)
  BY <1>1 DEF ProcessInv, Process!Alive, Process!Facts
<1>3. QED
  BY <1>1, <1>2, NothingTold, PidsFine DEF ProcessInv

LEMMA ProcessGoes ==
    ASSUME ProcessInv, NEW next, NEW gathered, Process!Go(next, gathered), place # None,
           Scanning' => WalkFine' /\ GatheredFine'
    PROVE  ProcessInv'
<1>1. UNCHANGED <<table, churn, todo, answer, steady, held>>
  BY DEF Process!Go
<1>2. Process!Alive' = Process!Alive /\ Process!Facts(table') = Process!Facts(table)
  BY <1>1 DEF Process!Alive, Process!Facts
<1>3. answer' = None /\ todo # <<>> /\ steady \subseteq Process!Alive /\ Process!Facts(table) \subseteq held
  BY <1>1 DEF ProcessInv
<1>4. QED
  BY <1>1, <1>2, <1>3, NothingTold DEF ProcessInv

LEMMA ProcessReturns ==
    ASSUME ProcessInv, todo # <<>>, NEW result, Process!Return(result), Process!Listed'
    PROVE  ProcessInv'
<1>1. /\ todo' = Tail(todo) /\ place' = None /\ UNCHANGED <<table, churn, out, steady, held>>
  BY DEF Process!Return
<1>2. todo' \in Seq(AllCalls)
  BY <1>1 DEF ProcessInv
<1>3. QED
  BY <1>1, <1>2 DEF ProcessInv, Scanning

\* The calls that list nothing.
LEMMA OtherCalls ==
    ASSUME Process!ProcessAssumption, ProcessInv, todo # <<>>, Process!Call.kind \notin Process!Scans,
           \/ \E first : Process!Begin(first)
           \/ place # None /\ \E next, gathered : Process!Go(next, gathered)
           \/ \E result : Process!Return(result)
    PROVE  ProcessInv'
<1>1. CASE \E first : Process!Begin(first)
  <2>1. PICK first : Process!Begin(first)
    BY <1>1
  <2>2. ~Scanning'
    BY <2>1 DEF Process!Begin, Scanning, Process!Call
  <2>3. QED
    BY <2>1, <2>2, ProcessBegins
<1>2. CASE place # None /\ \E next, gathered : Process!Go(next, gathered)
  <2>1. PICK next, gathered : Process!Go(next, gathered)
    BY <1>2
  <2>2. ~Scanning'
    BY <2>1 DEF Process!Go, Scanning, Process!Call
  <2>3. QED
    BY <1>2, <2>1, <2>2, ProcessGoes
<1>3. CASE \E result : Process!Return(result)
  <2>1. PICK result : Process!Return(result)
    BY <1>3
  <2>2. answer'.call.kind \notin Process!Scans
    BY <2>1 DEF Process!Return
  <2>3. Process!Listed'
    BY <2>2 DEF Process!Listed, Process!Lists, Process!Scans
  <2>4. QED
    BY <2>1, <2>3, ProcessReturns
<1>4. QED
  BY <1>1, <1>2, <1>3

\* A listing begins at the directory's first entry.
LEMMA ScanBegins == ASSUME Process!ProcessAssumption, ProcessInv, Process!BeginScan PROVE ProcessInv'
<1> DEFINE first == [next |-> "dir", pid |-> 0, batch |-> {}, name |-> None]
<1>1. Process!Begin(first)
  BY DEF Process!BeginScan
<1>2. place' = first /\ out' = <<>> /\ steady' = Process!Alive
  BY <1>1 DEF Process!Begin
<1>3. \A p \in steady' : p \in Nat \ {0}
  BY <1>2, PidsFine
<1>4. WalkFine'
  BY <1>2, <1>3 DEF WalkFine
<1>5. \A p \in steady' : ~Passed(p)'
  BY <1>2, <1>3 DEF Passed
<1>6. GatheredFine'
  BY <1>2, <1>5 DEF GatheredFine, Truthful
<1>7. QED
  BY <1>1, <1>4, <1>6, ProcessBegins

\* What readdir has at hand: entries that lie ahead, before all others that do.
LEMMA EntriesAhead ==
    ASSUME Process!ProcessAssumption, ProcessInv, Scanning, place.next = "dir"
    PROVE  LET entries == IF place.batch # {} THEN place.batch ELSE Process!NextEntries(place.pid)
           IN /\ entries \subseteq {b \in Pids : b > place.pid}
              /\ \A p \in steady : p > place.pid => p \in entries \/ \A b \in entries : p > b
              /\ entries = {} => \A p \in steady : p <= place.pid
<1>1. /\ WalkFine /\ steady \subseteq Process!Alive /\ place.pid \in Nat /\ place.batch \subseteq Pids
      /\ steady \subseteq Pids /\ Pids \subseteq Nat
  BY PidsFine DEF ProcessInv, Scanning, WalkFine
<1>2. CASE place.batch # {}
  BY <1>1, <1>2 DEF WalkFine
<1>3. CASE place.batch = {}
  <2> DEFINE next == Process!NextEntries(place.pid)
             rest == Process!After(place.pid)
  <2>1. /\ next \subseteq rest /\ \A p \in rest : p \in next \/ \A b \in next : p > b
        /\ rest # {} => next # {}
    BY <1>1, NextOnes
  <2>2. rest = {p \in Process!Alive : p > place.pid} /\ rest \subseteq Pids
    BY PidsFine DEF Process!After
  <2> HIDE DEF next, rest
  <2>3. /\ next \subseteq {b \in Pids : b > place.pid}
        /\ \A p \in steady : p > place.pid => p \in next \/ \A b \in next : p > b
    BY <1>1, <2>1, <2>2
  <2>4. next = {} => \A p \in steady : p <= place.pid
    BY <1>1, <2>1, <2>2
  <2>5. QED
    BY <1>3, <2>3, <2>4 DEF next
<1>4. QED
  BY <1>2, <1>3

\* The next entry is taken.
LEMMA EntryTaken ==
    ASSUME Process!ProcessAssumption, ProcessInv, Scanning, place.next = "dir",
           NEW entries, entries # {}, entries \subseteq {b \in Pids : b > place.pid},
           \A p \in steady : p > place.pid => p \in entries \/ \A b \in entries : p > b,
           Process!Go([next |-> "name", pid |-> Process!Least(entries),
                       batch |-> entries \ {Process!Least(entries)}, name |-> None], out)
    PROVE  ProcessInv'
<1> DEFINE m == Process!Least(entries)
<1>1. /\ WalkFine /\ GatheredFine /\ place.pid \in Nat /\ steady \subseteq Nat /\ Pids \subseteq Nat
      /\ entries \subseteq Nat /\ IsFiniteSet(entries)
  <2>1. entries \in SUBSET Pids
    OBVIOUS
  <2>2. IsFiniteSet(entries)
    BY <2>1, PidsFine, FS_Subset
  <2>3. WalkFine /\ GatheredFine /\ steady \subseteq Pids
    BY DEF ProcessInv
  <2>4. place.pid \in Nat
    BY <2>3 DEF WalkFine
  <2>5. Pids \subseteq Nat
    BY PidsFine
  <2>6. steady \subseteq Nat /\ entries \subseteq Nat
    BY <2>1, <2>3, <2>5
  <2>7. QED
    BY <2>2, <2>3, <2>4, <2>5, <2>6
<1>2. m \in entries /\ (\A q \in entries : m <= q)
  BY <1>1, LeastOf
<1> HIDE DEF m
<1>3. place' = [next |-> "name", pid |-> m, batch |-> entries \ {m}, name |-> None]
  BY DEF Process!Go, m
<1>4. UNCHANGED <<todo, out, steady, held>> /\ Process!Call' = Process!Call
  BY DEF Process!Go, Process!Call
<1>5. m \in Pids /\ m \in Nat /\ m > place.pid
  BY <1>1, <1>2
<1>6. WalkFine'
  <2>1. place' \in [next : {"dir", "name", "threads"}, pid : Nat, batch : SUBSET Pids, name : Titles \cup {None}]
    BY <1>3, <1>5
  <2>2. \A b \in place'.batch : b > place'.pid
    BY <1>1, <1>2, <1>3
  <2>3. \A p \in steady' : p > place'.pid => p \in place'.batch \/ \A b \in place'.batch : p > b
    BY <1>1, <1>2, <1>3, <1>4, <1>5
  <2>4. QED
    BY <1>3, <1>5, <2>1, <2>2, <2>3 DEF WalkFine
<1>7. \A p \in Nat : Passed(p) => Passed(p)'
  BY <1>1, <1>3, <1>5 DEF Passed
<1>8. \A p \in steady : Passed(p)' => Passed(p)
  BY <1>1, <1>2, <1>3, <1>5 DEF Passed
<1>9. GatheredFine'
  <2>1. \A i \in 1..Len(out) : out[i].pid \in Nat
    BY <1>1, EntriesTyped DEF GatheredFine
  <2>2. Truthful(out)'
    BY <1>1, <1>4, StaysTrue DEF GatheredFine
  <2>3. \A p \in steady : Told(Process!Call, out, p) => Told(Process!Call, out, p)'
    BY <1>4, StaysTrue
  <2>4. QED
    BY <1>1, <1>4, <1>7, <1>8, <2>1, <2>2, <2>3 DEF GatheredFine
<1>10. QED
  BY <1>6, <1>9, ProcessGoes DEF Scanning

\* The next step finds the entry of the same process.
LEMMA SamePassed ==
    ASSUME ProcessInv, Scanning, place.next # "dir", place'.next # "dir", place'.pid = place.pid,
           UNCHANGED <<todo, out, steady, held>>
    PROVE  GatheredFine'
<1>1. GatheredFine /\ Process!Call' = Process!Call
  BY DEF ProcessInv, Process!Call
<1>2. \A p : Passed(p)' = Passed(p)
  BY DEF Passed
<1>3. Truthful(out)' /\ \A p : Told(Process!Call, out, p) => Told(Process!Call, out, p)'
  BY <1>1, StaysTrue DEF GatheredFine
<1>4. QED
  BY <1>1, <1>2, <1>3 DEF GatheredFine

LEMMA NameRead ==
    ASSUME Process!ProcessAssumption, ProcessInv, Scanning, place.next = "name",
           NEW title \in Titles,
           Process!Call.kind # "by_name" => Process!HadName(place.pid, title),
           Process!Go([place EXCEPT !.next = "threads", !.name = title], out)
    PROVE  ProcessInv'
<1>1. UNCHANGED <<todo, out, steady, held>> /\ Process!Call' = Process!Call
  BY DEF Process!Go, Process!Call
<1>2. WalkFine
  BY DEF ProcessInv
<1>3. /\ place' \in [next : {"dir", "name", "threads"}, pid : Nat, batch : SUBSET Pids, name : Titles \cup {None}]
      /\ place'.next = "threads" /\ place'.pid = place.pid /\ place'.batch = place.batch /\ place'.name = title
  BY <1>2 DEF Process!Go, WalkFine
<1>4. \A p, n : Process!HadName(p, n) => Process!HadName(p, n)'
  BY <1>1, StaysTrue
<1>5. WalkFine'
  BY <1>1, <1>2, <1>3, <1>4 DEF WalkFine
<1>6. GatheredFine'
  BY <1>1, <1>3, SamePassed
<1>7. QED
  BY <1>5, <1>6, ProcessGoes DEF Scanning

\* What is true of a process that is alive was seen.
LEMMA AliveSeen ==
    ASSUME ProcessInv, place # None, NEW p \in Process!Alive
    PROVE  table[p] \in Process!Processes \ {None} /\ table[p] \in Process!Was(p)
<1>1. p \in Pids /\ table[p] # None /\ <<p, table[p]>> \in Process!Facts(table)
  BY DEF Process!Alive, Process!Facts
<1>2. <<p, table[p]>> \in held /\ table[p] \in Process!Processes
  BY <1>1 DEF ProcessInv
<1>3. QED
  BY <1>1, <1>2 DEF Process!Was

\* The command line is read, or the kernel thread is without one.
LEMMA NamesRead ==
    ASSUME Process!ProcessAssumption, ProcessInv, Process!psutil_enumerate_process_threads
    PROVE  ProcessInv'
<1> DEFINE title == Process!CommandName(place.pid)
<1>1. /\ Scanning /\ place.next = "name" /\ Process!Go([place EXCEPT !.next = "threads", !.name = title], out)
  BY DEF Process!psutil_enumerate_process_threads, Scanning
<1>2. title \in Titles /\ Process!HadName(place.pid, title)
  <2>1. CASE place.pid \in Process!Alive /\ table[place.pid].name \notin Kernel
    <3>1. table[place.pid] \in Process!Was(place.pid) /\ table[place.pid].name \in Names
      BY <1>1, <2>1, AliveSeen DEF Scanning, Process!Processes
    <3>2. title = Shown[table[place.pid].name]
      BY <2>1 DEF Process!CommandName
    <3>3. QED
      BY <3>1, <3>2 DEF Titles, Process!HadName
  <2>2. CASE ~(place.pid \in Process!Alive /\ table[place.pid].name \notin Kernel)
    BY <2>2 DEF Process!CommandName, Titles, Process!HadName
  <2>3. QED
    BY <2>1, <2>2
<1> HIDE DEF title
<1>3. QED
  BY <1>1, <1>2, NameRead

\* The entry is done with.
LEMMA EntryDone ==
    ASSUME Process!ProcessAssumption, ProcessInv, Scanning, place.next # "dir", NEW kept,
           Process!Go(Process!Next_entry, kept), Truthful(kept),
           \A i \in 1..Len(kept) : kept[i].pid <= place.pid,
           Process!Call.kind # "by_name" =>
             \A p \in steady : p <= place.pid => Told(Process!Call, kept, p)
    PROVE  ProcessInv'
<1>1. UNCHANGED <<todo, steady, held>> /\ Process!Call' = Process!Call /\ out' = kept
  BY DEF Process!Go, Process!Call
<1>2. WalkFine /\ place.pid \in Nat /\ steady \subseteq Nat /\ Pids \subseteq Nat
  BY PidsFine DEF ProcessInv, WalkFine
<1>3. /\ place' \in [next : {"dir", "name", "threads"}, pid : Nat, batch : SUBSET Pids, name : Titles \cup {None}]
      /\ place'.next = "dir" /\ place'.pid = place.pid /\ place'.batch = place.batch
  BY <1>2 DEF Process!Go, Process!Next_entry, WalkFine
<1>4. WalkFine'
  BY <1>1, <1>2, <1>3 DEF WalkFine
<1>5. \A p \in Nat : Passed(p)' <=> p <= place.pid
  BY <1>2, <1>3 DEF Passed
<1>6. Truthful(kept)'
  BY <1>1, StaysTrue
<1>7. \A i \in 1..Len(kept) : kept[i].pid \in Nat
  BY EntriesTyped
<1>8. \A p \in steady : Told(Process!Call, kept, p) => Told(Process!Call, kept, p)'
  BY <1>1, StaysTrue
<1>9. GatheredFine'
  BY <1>1, <1>2, <1>5, <1>6, <1>7, <1>8 DEF GatheredFine
<1>10. QED
  BY <1>4, <1>9, ProcessGoes DEF Scanning

\* By name, the processes of that program are counted and the others left out.
LEMMA ByName ==
    ASSUME Process!ProcessAssumption, ProcessInv, Process!psutil_get_thread_count_by_name
    PROVE  ProcessInv'
<1>1. Scanning /\ place.next = "name" /\ Process!Call.kind = "by_name"
  BY DEF Process!psutil_get_thread_count_by_name, Scanning, Process!Scans
<1>2. WalkFine /\ GatheredFine /\ place.pid \in Pids
  BY <1>1 DEF ProcessInv, WalkFine
<1>3. CASE Process!Go([place EXCEPT !.next = "threads", !.name = Process!Call.name], out)
           /\ place.pid \in Process!Alive /\ Argv0[table[place.pid].name] = Process!Call.name
  <2>1. table[place.pid].name \in Names
    BY <1>1, <1>3, AliveSeen DEF Scanning, Process!Processes
  <2>2. Process!Call.name \in Titles
    BY <1>3, <2>1 DEF Titles
  <2>3. QED
    BY <1>1, <1>3, <2>2, NameRead
<1>4. CASE Process!Go(Process!Next_entry, out)
  <2>1. \A i \in 1..Len(out) : out[i].pid \in Nat /\ Passed(out[i].pid)
    BY <1>2, EntriesTyped DEF GatheredFine
  <2>2. place.pid \in Nat
    BY <1>2, PidsFine
  <2>3. \A i \in 1..Len(out) : out[i].pid <= place.pid
    BY <2>1, <2>2 DEF Passed
  <2>4. QED
    BY <1>1, <1>2, <1>4, <2>3, EntryDone DEF GatheredFine
<1>5. QED
  BY <1>3, <1>4 DEF Process!psutil_get_thread_count_by_name

\* A listing of what was gathered, or of some of it in another order, tells the truth.
LEMMA ListingTells ==
    ASSUME Process!ProcessAssumption, ProcessInv, Process!Call \in AllCalls,
           NEW l, Process!Return(l), l \in Seq(Entry), Process!Call.kind # "by_name",
           \A i, j \in 1..Len(l) : l[i].pid = l[j].pid => i = j,
           \A i \in 1..Len(l) : Process!HadThreads(l[i].pid, l[i].threads) /\ Process!HadName(l[i].pid, l[i].name),
           Process!Call.kind = "find_max" => \A p \in steady : Told(Process!Call, l, p),
           Process!Call.kind \in {"all", "enumerate", "top"} =>
             ((Process!Call.max = 0 \/ Len(l) < Process!Call.max) =>
                \A p \in steady : \E i \in 1..Len(l) : l[i].pid = p)
    PROVE  Process!Listed'
<1>1. answer' = [call |-> Process!Call, result |-> l] /\ steady' = steady /\ held' = held
  BY DEF Process!Return
<1>2. answer'.call = Process!Call /\ answer'.result = l /\ DOMAIN l = 1..Len(l)
  BY <1>1
<1>3. /\ \A p, n : Process!HadThreads(p, n) => Process!HadThreads(p, n)'
      /\ \A p, n : Process!HadName(p, n) => Process!HadName(p, n)'
      /\ \A p : Process!Was(p) \subseteq Process!Was(p)'
  BY <1>1, MoreHeld
<1>4. CASE Process!Call.kind \in {"all", "enumerate", "top"}
  <2>1. steady \subseteq {l[i].pid : i \in 1..Len(l)}
          \/ ~(Process!Call.max = 0 \/ Len(l) < Process!Call.max)
    BY <1>4
  <2>2. QED
    BY <1>1, <1>2, <1>3, <1>4, <2>1 DEF Process!Listed, Process!Lists
<1>5. CASE Process!Call.kind = "find_max"
  <2>1. \A p \in steady : l # <<>> /\ \E x \in Process!Was(p)' : x.threads <= l[1].threads
    BY <1>3, <1>5 DEF Told
  <2>2. QED
    BY <1>1, <1>2, <1>5, <2>1 DEF Process!Listed, Process!Lists
<1>6. QED
  BY <1>2, <1>4, <1>5 DEF Process!Listed, Process!Lists

\* The first entries of a list, or all of them.
LEMMA FirstOnes ==
    ASSUME NEW S, NEW gathered \in Seq(S), NEW n \in Nat \ {0}
    PROVE  LET l == Process!AtMost(gathered, n) IN
           /\ l \in Seq(S) /\ Len(l) \in Nat /\ Len(l) <= Len(gathered)
           /\ \A i \in 1..Len(l) : i \in 1..Len(gathered) /\ l[i] = gathered[i]
           /\ Len(l) < n => Len(l) = Len(gathered)
<1> DEFINE m == IF n < Len(gathered) THEN n ELSE Len(gathered)
<1>1. Len(gathered) \in Nat
  OBVIOUS
<1>2. m \in Nat /\ m <= Len(gathered) /\ m <= n /\ (m < n => m = Len(gathered))
  <2>1. CASE n < Len(gathered)
    BY <1>1, <2>1
  <2>2. CASE ~(n < Len(gathered))
    BY <1>1, <2>2
  <2>3. QED
    BY <2>1, <2>2
<1>3. Process!AtMost(gathered, n) = SubSeq(gathered, 1, m)
  BY DEF Process!AtMost
<1> HIDE DEF m
<1>4. /\ SubSeq(gathered, 1, m) \in Seq(S) /\ Len(SubSeq(gathered, 1, m)) = m
      /\ \A i \in 1..m : SubSeq(gathered, 1, m)[i] = gathered[i]
  BY <1>1, <1>2
<1>5. \A i \in 1..m : i \in 1..Len(gathered)
  BY <1>1, <1>2
<1>6. QED
  BY <1>2, <1>3, <1>4, <1>5

\* What qsort makes of a list, cut to the first of them, has entries of the list, each
\* once, and all of them when it is not full.
LEMMA Arranged ==
    ASSUME NEW S, NEW gathered \in Seq(S), NEW n \in Nat \ {0},
           NEW l \in Process!psutil_show_top_processes_by_threads(gathered, n),
           \A i, j \in 1..Len(gathered) : gathered[i].pid = gathered[j].pid => i = j
    PROVE  /\ l \in Seq(S)
           /\ \A i \in 1..Len(l) : \E k \in 1..Len(gathered) : l[i] = gathered[k]
           /\ \A i, j \in 1..Len(l) : l[i].pid = l[j].pid => i = j
           /\ Len(l) < n => \A k \in 1..Len(gathered) : \E i \in 1..Len(l) : l[i] = gathered[k]
<1> DEFINE I == 1..Len(gathered)
<1>1. DOMAIN gathered = I /\ Len(gathered) \in Nat
  OBVIOUS
<1>2. PICK g \in Process!Bijection(I, I) : l = Process!AtMost([i \in I |-> gathered[g[i]]], n)
  BY <1>1 DEF Process!psutil_show_top_processes_by_threads
<1>3. g \in [I -> I] /\ (\A i, j \in I : g[i] = g[j] => i = j) /\ \A k \in I : \E i \in I : g[i] = k
  BY <1>2 DEF Process!Bijection, Process!Injection, Process!Surjection, Process!IsInjective
<1> DEFINE whole == [i \in I |-> gathered[g[i]]]
<1>4. \A i \in I : gathered[i] \in S
  OBVIOUS
<1>5. \A i \in I : g[i] \in I /\ whole[i] = gathered[g[i]] /\ whole[i] \in S
  BY <1>3, <1>4
<1>6. whole \in Seq(S) /\ Len(whole) = Len(gathered)
  <2>1. whole \in [1..Len(gathered) -> S]
    BY <1>5
  <2> HIDE DEF whole
  <2>2. QED
    BY <1>1, <2>1
<1> HIDE DEF whole
<1>7. l = Process!AtMost(whole, n)
  BY <1>2 DEF whole
<1>8. /\ l \in Seq(S) /\ Len(l) \in Nat
      /\ \A i \in 1..Len(l) : i \in I /\ l[i] = whole[i]
      /\ Len(l) < n => Len(l) = Len(gathered)
  BY <1>6, <1>7, FirstOnes
<1> HIDE DEF I
<1>9. \A i \in 1..Len(l) : l[i] = gathered[g[i]] /\ g[i] \in I /\ i \in I
  BY <1>5, <1>8
<1>10. ASSUME NEW i \in 1..Len(l), NEW j \in 1..Len(l), l[i].pid = l[j].pid PROVE i = j
  <2>1. gathered[g[i]].pid = gathered[g[j]].pid
    BY <1>9, <1>10
  <2>2. g[i] = g[j]
    BY <1>9, <2>1 DEF I
  <2>3. QED
    BY <1>3, <1>9, <2>2
<1>11. ASSUME Len(l) < n, NEW k \in I PROVE \E i \in 1..Len(l) : l[i] = gathered[k]
  <2>1. PICK i \in I : g[i] = k
    BY <1>3
  <2>2. i \in 1..Len(l)
    BY <1>8, <1>11 DEF I
  <2>3. QED
    BY <1>9, <2>1, <2>2
<1>12. QED
  BY <1>8, <1>9, <1>10, <1>11 DEF I

LEMMA EachOnce ==
    ASSUME Process!ProcessAssumption, NEW l, Truthful(l)
    PROVE  \A i, j \in 1..Len(l) : l[i].pid = l[j].pid => i = j
<1> SUFFICES ASSUME NEW i \in 1..Len(l), NEW j \in 1..Len(l), l[i].pid = l[j].pid, i # j PROVE FALSE
  OBVIOUS
<1>1. l[i].pid \in Nat /\ l[j].pid \in Nat
  BY EntriesTyped
<1>2. i < j \/ j < i
  BY EntriesTyped
<1>3. QED
  BY <1>1, <1>2 DEF Truthful

\* The walk is over: what was gathered is told.
LEMMA WalkOver ==
    ASSUME Process!ProcessAssumption, ProcessInv, Scanning,
           \A p \in steady : Passed(p),
           NEW l, Process!Return(l),
           IF Process!Call.kind = "top"
             THEN l \in Process!psutil_show_top_processes_by_threads(out, Process!Call.max) ELSE l = out
    PROVE  ProcessInv'
<1>1. GatheredFine /\ todo # <<>> /\ todo \in Seq(AllCalls)
  BY DEF ProcessInv, Scanning
<1>2. Process!Call \in AllCalls
  BY <1>1 DEF Process!Call
<1>3. /\ out \in Seq(Entry)
      /\ \A i, j \in 1..Len(out) : out[i].pid = out[j].pid => i = j
      /\ \A i \in 1..Len(out) : Process!HadThreads(out[i].pid, out[i].threads)
  BY <1>1, EachOnce DEF GatheredFine, Truthful
<1>4. CASE Process!Call.kind = "by_name"
  <2>1. answer'.call.kind = "by_name"
    BY <1>4 DEF Process!Return
  <2>2. Process!Listed'
    BY <2>1 DEF Process!Listed, Process!Lists
  <2>3. QED
    BY <1>1, <2>2, ProcessReturns
<1>5. ASSUME Process!Call.kind # "by_name"
      PROVE  /\ \A i \in 1..Len(out) : Process!HadName(out[i].pid, out[i].name)
             /\ \A p \in steady : Told(Process!Call, out, p)
  BY <1>1, <1>5 DEF GatheredFine, Truthful
<1>6. CASE Process!Call.kind = "top"
  <2>1. Process!Call.max \in Nat \ {0}
    BY <1>2, <1>6, CallsFine
  <2>2. /\ l \in Seq(Entry)
        /\ \A i \in 1..Len(l) : \E k \in 1..Len(out) : l[i] = out[k]
        /\ \A i, j \in 1..Len(l) : l[i].pid = l[j].pid => i = j
        /\ Len(l) < Process!Call.max => \A k \in 1..Len(out) : \E i \in 1..Len(l) : l[i] = out[k]
    BY <1>3, <1>6, <2>1, Arranged
  <2>3. \A i \in 1..Len(l) : Process!HadThreads(l[i].pid, l[i].threads) /\ Process!HadName(l[i].pid, l[i].name)
    BY <1>3, <1>5, <1>6, <2>2
  <2>4. ASSUME Process!Call.max = 0 \/ Len(l) < Process!Call.max, NEW p \in steady
        PROVE  \E i \in 1..Len(l) : l[i].pid = p
    <3>1. PICK k \in 1..Len(out) : out[k].pid = p
      BY <1>3, <1>5, <1>6 DEF Told
    <3>2. QED
      BY <2>1, <2>2, <2>4, <3>1
  <2>5. Process!Listed'
    BY <1>2, <1>6, <2>2, <2>3, <2>4, ListingTells
  <2>6. QED
    BY <1>1, <2>5, ProcessReturns
<1>7. CASE Process!Call.kind \notin {"by_name", "top"}
  <2>1. l = out
    BY <1>7
  <2>2. ASSUME Process!Call.kind \in {"all", "enumerate"},
               Process!Call.max = 0 \/ Len(out) < Process!Call.max, NEW p \in steady
        PROVE  \E i \in 1..Len(out) : out[i].pid = p
    <3>1. Process!Call.kind = "enumerate" => Process!Call.max \in Nat \ {0}
      BY <1>2, CallsFine
    <3>2. Told(Process!Call, out, p)
      BY <1>5, <1>7
    <3>3. QED
      BY <1>3, <2>2, <3>1, <3>2 DEF Told
  <2>3. Process!Listed'
    BY <1>2, <1>3, <1>5, <1>7, <2>1, <2>2, ListingTells
  <2>4. QED
    BY <1>1, <2>3, ProcessReturns
<1>8. QED
  BY <1>4, <1>6, <1>7

LEMMA ScanMoves == ASSUME Process!ProcessAssumption, ProcessInv, Process!Readdir PROVE ProcessInv'
<1> DEFINE entries == IF place.batch # {} THEN place.batch ELSE Process!NextEntries(place.pid)
           m == Process!Least(entries)
           taken == [next |-> "name", pid |-> m, batch |-> entries \ {m}, name |-> None]
<1>1. Scanning /\ place.next = "dir"
  BY DEF Process!Readdir, Scanning
<1>2. /\ entries \subseteq {b \in Pids : b > place.pid}
      /\ \A p \in steady : p > place.pid => p \in entries \/ \A b \in entries : p > b
      /\ entries = {} => \A p \in steady : p <= place.pid
  BY <1>1, EntriesAhead
<1>3. \/ entries # {} /\ Process!Go(taken, out)
      \/ /\ entries = {}
         /\ \E l : /\ Process!Return(l)
                   /\ IF Process!Call.kind = "top"
                        THEN l \in Process!psutil_show_top_processes_by_threads(out, Process!Call.max)
                        ELSE l = out
  BY DEF Process!Readdir
<1> HIDE DEF entries
<1>4. CASE entries # {} /\ Process!Go(taken, out)
  BY <1>1, <1>2, <1>4, EntryTaken
<1>5. CASE entries = {} /\ ~(entries # {})
  <2>1. \A p \in steady : Passed(p)
    <3>1. WalkFine /\ place.pid \in Nat /\ steady \subseteq Nat
      BY <1>1, PidsFine DEF ProcessInv, WalkFine
    <3>2. QED
      BY <1>1, <1>2, <1>5, <3>1 DEF Passed
  <2>2. PICK l : /\ Process!Return(l)
                 /\ IF Process!Call.kind = "top"
                      THEN l \in Process!psutil_show_top_processes_by_threads(out, Process!Call.max)
                      ELSE l = out
    BY <1>3, <1>5
  <2>3. QED
    BY <1>1, <2>1, <2>2, WalkOver
<1>6. QED
  BY <1>3, <1>4, <1>5

\* The entry of a process that is alive, and what the calls keep of it.
LEMMA EntryKept ==
    ASSUME Process!ProcessAssumption, ProcessInv, Scanning, place.next = "threads",
           NEW e, e.pid = place.pid, e \in Entry,
           Process!HadThreads(e.pid, e.threads),
           Process!Call.kind # "by_name" => Process!HadName(e.pid, e.name),
           place.pid \in steady => \E x \in Process!Was(place.pid) : x.threads <= e.threads
    PROVE  /\ Truthful(Process!Kept(e))
           /\ \A i \in 1..Len(Process!Kept(e)) : Process!Kept(e)[i].pid <= place.pid
           /\ Process!Call.kind # "by_name" =>
                \A p \in steady : p <= place.pid => Told(Process!Call, Process!Kept(e), p)
<1>1. /\ WalkFine /\ GatheredFine /\ place.pid \in Pids /\ place.pid \in Nat /\ steady \subseteq Nat
      /\ Process!Call \in AllCalls
  <2>1. WalkFine /\ GatheredFine /\ steady \subseteq Pids
    BY DEF ProcessInv
  <2>2. place.pid \in Pids
    BY <2>1 DEF WalkFine
  <2>3. Process!Call \in AllCalls
    BY DEF ProcessInv, Scanning, Process!Call
  <2>4. QED
    BY <2>1, <2>2, <2>3, PidsFine
<1>2. /\ \A i \in 1..Len(out) : out[i].pid < place.pid /\ out[i].pid <= place.pid /\ out[i].threads \in Nat
      /\ Len(out) \in Nat /\ out \in Seq(Entry)
  <2>1. \A i \in 1..Len(out) : Passed(out[i].pid)
    BY <1>1 DEF GatheredFine
  <2>2. QED
    BY <1>1, <2>1, EntriesTyped DEF GatheredFine, Passed, Truthful
<1>3. \A p \in steady : p < place.pid => Passed(p)
  BY DEF Passed
<1>4. Truthful(out) /\ e.threads \in Nat
  BY <1>1, PidsFine DEF GatheredFine, Entry
<1> DEFINE more == Append(out, e)
<1>5. /\ more \in Seq(Entry) /\ Len(more) = Len(out) + 1
      /\ more[Len(out) + 1] = e /\ \A i \in 1..Len(out) : more[i] = out[i]
  BY <1>2
<1> HIDE DEF more
<1>6. \A i \in 1..Len(more) : i \in 1..Len(out) \/ i = Len(out) + 1
  BY <1>2, <1>5
<1>7. Truthful(more) /\ \A i \in 1..Len(more) : more[i].pid <= place.pid
  <2>1. \A i, j \in 1..Len(more) : i < j => more[i].pid < more[j].pid
    BY <1>1, <1>2, <1>4, <1>5, <1>6 DEF Truthful
  <2>2. \A i \in 1..Len(more) : Process!HadThreads(more[i].pid, more[i].threads)
    BY <1>4, <1>5, <1>6 DEF Truthful
  <2>3. Process!Call.kind # "by_name" => \A i \in 1..Len(more) : Process!HadName(more[i].pid, more[i].name)
    BY <1>4, <1>5, <1>6 DEF Truthful
  <2>4. \A i \in 1..Len(more) : more[i].pid <= place.pid
    <3>1. e.pid <= place.pid
      BY <1>1
    <3>2. QED
      BY <1>2, <1>5, <1>6, <3>1
  <2>5. QED
    BY <1>5, <2>1, <2>2, <2>3, <2>4 DEF Truthful
<1>8. ASSUME NEW p \in steady, p <= place.pid, Process!Call.kind # "by_name"
      PROVE  p = place.pid \/ Told(Process!Call, out, p)
  BY <1>1, <1>3, <1>8 DEF GatheredFine
<1>9. CASE Process!Call.kind = "find_max"
  <2>1. Process!Kept(e) = IF out = <<>> \/ e.threads > Head(out).threads THEN <<e>> ELSE out
    BY <1>9 DEF Process!Kept, Process!psutil_finder_callback
  <2>2. CASE out = <<>> \/ e.threads > Head(out).threads
    <3>1. Process!Kept(e) = <<e>>
      BY <2>1, <2>2
    <3>2. Truthful(<<e>>)
      <4>1. /\ <<e>> \in Seq(Entry) /\ Len(<<e>>) = 1 /\ <<e>>[1] = e
        OBVIOUS
      <4>2. QED
        BY <4>1, <1>9 DEF Truthful
    <3>3. ASSUME NEW p \in steady, p <= place.pid PROVE Told(Process!Call, <<e>>, p)
      <4>1. \E x \in Process!Was(p) : x.threads <= e.threads
        <5>1. CASE p = place.pid
          BY <5>1
        <5>2. CASE p # place.pid
          <6>1. out # <<>> /\ \E x \in Process!Was(p) : x.threads <= out[1].threads
            BY <1>8, <1>9, <3>3, <5>2 DEF Told
          <6>2. PICK x \in Process!Was(p) : x.threads <= out[1].threads
            BY <6>1
          <6>3. x.threads \in Nat
            BY PidsFine DEF Process!Was, Process!Processes
          <6>4. Head(out) = out[1] /\ out[1].threads \in Nat /\ e.threads > out[1].threads
            BY <1>2, <2>2, <6>1
          <6>5. QED
            BY <1>4, <6>2, <6>3, <6>4
        <5>3. QED
          BY <5>1, <5>2
      <4>2. <<e>> # <<>> /\ <<e>>[1] = e
        OBVIOUS
      <4>3. QED
        BY <1>9, <4>1, <4>2 DEF Told
    <3>4. \A i \in 1..Len(<<e>>) : <<e>>[i].pid <= place.pid
      BY <1>1
    <3>5. QED
      BY <3>1, <3>2, <3>3, <3>4
  <2>3. CASE ~(out = <<>> \/ e.threads > Head(out).threads)
    <3>1. Process!Kept(e) = out
      BY <2>1, <2>3
    <3>2. Head(out) = out[1] /\ out[1].threads \in Nat /\ e.threads <= out[1].threads /\ out # <<>>
      BY <1>2, <1>4, <2>3
    <3>3. ASSUME NEW p \in steady, p <= place.pid PROVE Told(Process!Call, out, p)
      <4>1. CASE p = place.pid
        <5>1. PICK x \in Process!Was(p) : x.threads <= e.threads
          BY <4>1
        <5>2. x.threads \in Nat
          BY PidsFine DEF Process!Was, Process!Processes
        <5>3. QED
          BY <1>4, <1>9, <3>2, <5>1, <5>2 DEF Told
      <4>2. CASE p # place.pid
        BY <1>8, <1>9, <3>3, <4>2
      <4>3. QED
        BY <4>1, <4>2
    <3>4. QED
      BY <1>1, <1>2, <1>4, <3>1, <3>3
  <2>4. QED
    BY <2>2, <2>3
<1>10. CASE Process!Call.kind = "enumerate"
  <2>1. Process!Kept(e) = IF Len(out) < Process!Call.max THEN more ELSE out
    BY <1>10 DEF Process!Kept, Process!psutil_limited_callback, more
  <2>2. Process!Call.max \in Nat
    BY <1>1, <1>10, CallsFine
  <2>3. CASE Len(out) < Process!Call.max
    <3>1. ASSUME NEW p \in steady, p <= place.pid PROVE Told(Process!Call, more, p)
      <4>1. \E i \in 1..Len(more) : more[i].pid = p
        <5>1. CASE p = place.pid
          BY <1>2, <1>5, <5>1
        <5>2. CASE p # place.pid
          <6>1. PICK i \in 1..Len(out) : out[i].pid = p
            BY <1>2, <1>8, <1>10, <2>3, <3>1, <5>2 DEF Told
          <6>2. i \in 1..Len(more) /\ more[i].pid = p
            BY <1>2, <1>5, <6>1
          <6>3. QED
            BY <6>2
        <5>3. QED
          BY <5>1, <5>2
      <4>2. DOMAIN more = 1..Len(more)
        BY <1>5
      <4>3. QED
        BY <1>10, <4>1, <4>2 DEF Told
    <3>2. QED
      BY <1>7, <2>1, <2>3, <3>1
  <2>4. CASE ~(Len(out) < Process!Call.max)
    <3>1. \A p : Told(Process!Call, out, p)
      BY <1>10, <2>4 DEF Told
    <3>2. QED
      BY <1>1, <1>2, <1>4, <2>1, <2>4, <3>1
  <2>5. QED
    BY <2>3, <2>4
<1>11. CASE Process!Call.kind \notin {"find_max", "enumerate"}
  <2>1. Process!Kept(e) = more
    BY <1>11 DEF Process!Kept, more
  <2>2. ASSUME NEW p \in steady, p <= place.pid, Process!Call.kind # "by_name" PROVE Told(Process!Call, more, p)
    <3>1. \E i \in 1..Len(more) : more[i].pid = p
      <4>1. CASE p = place.pid
        BY <1>2, <1>5, <4>1
      <4>2. CASE p # place.pid
        <5>1. PICK i \in 1..Len(out) : out[i].pid = p
          BY <1>2, <1>8, <1>11, <2>2, <4>2 DEF Told
        <5>2. i \in 1..Len(more) /\ more[i].pid = p
          BY <1>2, <1>5, <5>1
        <5>3. QED
          BY <5>2
      <4>3. QED
        BY <4>1, <4>2
    <3>2. DOMAIN more = 1..Len(more)
      BY <1>5
    <3>3. QED
      BY <1>11, <3>1, <3>2 DEF Told
  <2>3. QED
    BY <1>7, <2>1, <2>2
<1>12. QED
  BY <1>9, <1>10, <1>11

\* The entry is kept, or left out when the process has ended.
LEMMA EntryRead == ASSUME Process!ProcessAssumption, ProcessInv, Process!psutil_get_all_processes PROVE ProcessInv'
<1> DEFINE count == Process!psutil_get_process_thread_count("linux", place.pid)
           e == [pid |-> place.pid, name |-> place.name, threads |-> count]
           kept == IF Process!Counted(place.pid) THEN Process!Kept(e) ELSE out
           full == Process!Call.kind = "all" /\ Process!Call.max > 0 /\ Len(kept) >= Process!Call.max
<1>1. /\ Scanning /\ place.next = "threads" /\ todo # <<>> /\ place # None
      /\ IF full THEN Process!Return(kept) ELSE Process!Go(Process!Next_entry, kept)
  BY DEF Process!psutil_get_all_processes, Scanning, ProcessInv
<1>2. /\ WalkFine /\ GatheredFine /\ place.pid \in Pids /\ place.pid \in Nat /\ steady \subseteq Nat
      /\ steady \subseteq Process!Alive /\ place.name \in Titles
  <2>1. WalkFine /\ GatheredFine /\ steady \subseteq Pids /\ steady \subseteq Process!Alive
    BY <1>1 DEF ProcessInv
  <2>2. place.pid \in Pids /\ place.name \in Titles
    BY <1>1, <2>1 DEF WalkFine
  <2>3. QED
    BY <2>1, <2>2, PidsFine
<1>3. /\ Truthful(kept) /\ \A i \in 1..Len(kept) : kept[i].pid <= place.pid
      /\ Process!Call.kind # "by_name" =>
           \A p \in steady : p <= place.pid => Told(Process!Call, kept, p)
  <2>1. CASE Process!Counted(place.pid)
    <3>1. count > 0
      BY <2>1 DEF Process!Counted
    <3>2. place.pid \in Process!Alive
      BY <3>1 DEF Process!psutil_get_process_thread_count
    <3>3. table[place.pid] \in Process!Processes \ {None} /\ table[place.pid] \in Process!Was(place.pid)
      BY <1>1, <3>2, AliveSeen
    <3>4. count = table[place.pid].threads /\ count \in Threads /\ count \in Nat
      BY <3>2, <3>3, PidsFine DEF Process!psutil_get_process_thread_count, Process!Processes
    <3> HIDE DEF count
    <3>5. e.pid = place.pid /\ e.threads = count /\ e.name = place.name /\ e \in Entry
      BY <1>2, <3>4 DEF Entry
    <3>6. Process!HadThreads(e.pid, e.threads)
      BY <3>3, <3>4, <3>5 DEF Process!HadThreads
    <3>7. Process!Call.kind # "by_name" => Process!HadName(e.pid, e.name)
      BY <1>1, <1>2, <3>5 DEF WalkFine
    <3>8. \E x \in Process!Was(place.pid) : x.threads <= e.threads
      <4>1. table[place.pid].threads <= e.threads
        BY <3>4, <3>5
      <4>2. QED
        BY <3>3, <4>1
    <3> HIDE DEF e
    <3>9. kept = Process!Kept(e)
      BY <2>1
    <3> HIDE DEF kept
    <3>10. QED
      BY <1>1, <3>5, <3>6, <3>7, <3>8, <3>9, EntryKept
  <2>2. CASE ~Process!Counted(place.pid)
    <3>1. place.pid \notin Process!Alive
      <4>1. ASSUME place.pid \in Process!Alive PROVE FALSE
        <5>1. table[place.pid].threads \in Threads
          BY <1>1, <4>1, AliveSeen DEF Process!Processes
        <5>2. count = table[place.pid].threads
          BY <4>1 DEF Process!psutil_get_process_thread_count
        <5>3. count > 0
          BY <5>1, <5>2, PidsFine
        <5>4. QED
          BY <2>2, <5>3 DEF Process!Counted
      <4>2. QED
        BY <4>1
    <3>2. kept = out
      BY <2>2
    <3> HIDE DEF kept
    <3>3. \A i \in 1..Len(out) : out[i].pid \in Nat /\ out[i].pid < place.pid
      BY <1>1, <1>2, EntriesTyped DEF GatheredFine, Passed
    <3>4. \A i \in 1..Len(out) : out[i].pid <= place.pid
      BY <1>2, <3>3
    <3>5. \A p \in steady : p <= place.pid => Passed(p)
      BY <1>2, <3>1 DEF Passed
    <3>6. QED
      BY <1>2, <3>2, <3>4, <3>5 DEF GatheredFine
  <2>3. QED
    BY <2>1, <2>2
<1> HIDE DEF kept
<1>4. CASE full
  <2>1. Process!Call \in AllCalls
    BY <1>1 DEF ProcessInv, Process!Call
  <2>2. Process!Call.max \in Int /\ Process!Call.kind = "all" /\ Len(kept) \in Nat
    BY <1>3, <1>4, <2>1, CallsFine, EntriesTyped
  <2>3. ~(Process!Call.max = 0 \/ Len(kept) < Process!Call.max)
    BY <1>4, <2>2
  <2>4. \A i, j \in 1..Len(kept) : kept[i].pid = kept[j].pid => i = j
    BY <1>3, EachOnce
  <2>5. Process!Listed'
    BY <1>1, <1>3, <1>4, <2>1, <2>2, <2>3, <2>4, ListingTells DEF Truthful
  <2>6. QED
    BY <1>1, <1>4, <2>5, ProcessReturns
<1>5. CASE ~full
  BY <1>1, <1>3, <1>5, EntryDone
<1>6. QED
  BY <1>4, <1>5

LEMMA ProcessInit == ASSUME Process!ProcessAssumption, Process!Init PROVE ProcessInv
<1>1. /\ churn = 0 /\ todo \in Process!Programs /\ place = None /\ answer = None
      /\ steady = {} /\ held = {}
  BY DEF Process!Init
<1>2. table \in [Pids -> Process!Processes]
  <2>1. PICK s \in SUBSET Pids, n \in Names :
          table = [p \in Pids |-> IF p \in s THEN [name |-> n, threads |-> 1] ELSE None]
    BY DEF Process!Init
  <2>2. \A p \in Pids : table[p] \in Process!Processes
    BY <2>1 DEF Process!Processes, Process!ProcessAssumption
  <2> HIDE DEF Process!Processes
  <2>3. QED
    BY <2>1, <2>2
<1>3. QED
  BY <1>1, <1>2, CallsFine, NothingTold, PidsFine DEF ProcessInv, Scanning

\* The calls that list nothing, one by one.
LEMMA OtherSteps ==
    ASSUME Process!ProcessAssumption, ProcessInv,
           \/ Process!Count \/ Process!psutil_monitor_threads \/ Process!psutil_get_process_memory
           \/ Process!Win_snapshot \/ Process!Mac_size \/ Process!psutil_get_all_processes_duped
           \/ Process!Mac_stub \/ Process!psutil_process_exists_duped \/ Process!psutil_get_full_process_info
    PROVE  ProcessInv'
<1>1. CASE Process!Count
  BY <1>1, OtherCalls DEF Process!Count, Process!Scans
<1>2. CASE Process!psutil_monitor_threads
  BY <1>2, OtherCalls DEF Process!psutil_monitor_threads, Process!Scans
<1>3. CASE Process!psutil_get_process_memory
  BY <1>3, OtherCalls DEF Process!psutil_get_process_memory, Process!Scans
<1>4. CASE Process!Win_snapshot
  BY <1>4, OtherCalls DEF Process!Win_snapshot, Process!Scans
<1>5. CASE Process!Mac_size
  BY <1>5, OtherCalls DEF Process!Mac_size, Process!Scans
<1>6. CASE Process!psutil_get_all_processes_duped
  BY <1>6, OtherCalls DEF Process!psutil_get_all_processes_duped, Process!Scans, ProcessInv
<1>7. CASE Process!Mac_stub
  <2>1. CASE \E result : Process!Return(result)
    BY <1>7, <2>1, OtherCalls DEF Process!Mac_stub, Process!Scans, ProcessInv
  <2>2. CASE ~\E result : Process!Return(result)
    <3>1. /\ todo' = <<>> /\ place' = None /\ answer' = None
          /\ UNCHANGED <<table, churn, out, steady, held>>
      BY <1>7, <2>2 DEF Process!Mac_stub
    <3>2. QED
      BY <3>1, NothingTold DEF ProcessInv, Scanning
  <2>3. QED
    BY <2>1, <2>2
<1>8. CASE Process!psutil_process_exists_duped
  BY <1>8, OtherCalls DEF Process!psutil_process_exists_duped, Process!Scans
<1>9. CASE Process!psutil_get_full_process_info
  BY <1>9, OtherCalls DEF Process!psutil_get_full_process_info, Process!Scans
<1>10. QED
  BY <1>1, <1>2, <1>3, <1>4, <1>5, <1>6, <1>7, <1>8, <1>9

LEMMA ProcessStep == ASSUME Process!ProcessAssumption, ProcessInv, [Process!Next]_(Process!vars) PROVE ProcessInv'
<1>1. CASE Process!Step
  BY <1>1, ScanBegins, ScanMoves, NamesRead, ByName, EntryRead, OtherSteps DEF Process!Step
<1>2. CASE UNCHANGED Process!vars
  <2>1. UNCHANGED <<table, churn, todo, place, out, answer, steady, held>>
    BY <1>2 DEF Process!vars
  <2>2. Scanning' = Scanning /\ (WalkFine => WalkFine') /\ (GatheredFine => GatheredFine')
    BY <2>1 DEF Scanning, Process!Call, WalkFine, Process!HadName, Process!Was, GatheredFine, Passed,
                Truthful, Process!HadThreads, Told
  <2>3. Process!Listed' = Process!Listed
    BY <2>1 DEF Process!Listed, Process!Lists, Process!HadName, Process!HadThreads, Process!Was
  <2>4. Process!Alive' = Process!Alive /\ Process!Facts(table)' = Process!Facts(table)
    BY <2>1 DEF Process!Alive, Process!Facts
  <2>5. QED
    BY <2>1, <2>2, <2>3, <2>4 DEF ProcessInv
<1>3. QED
  BY <1>1, <1>2, ProcessChanges DEF Process!Next

LEMMA ProcessKnows == ProcessInv => Process!TypeOK /\ Process!Listed
<1> SUFFICES ASSUME ProcessInv PROVE Process!TypeOK /\ Process!Listed
  OBVIOUS
<1>1. Entry = Process!Entries
  BY DEF Entry, Titles, Process!Entries
<1>2. place # None /\ Process!Call.kind \in Process!Scans => out \in Seq(Process!Entries)
  BY <1>1 DEF ProcessInv, Scanning, GatheredFine, Truthful
<1>3. QED
  BY <1>2 DEF ProcessInv, Process!TypeOK

---------------------------------------------------------------------------
(* The picture of an icon. *)

\* Pictures of a height, a width and the values of their pixels.
Rows(h, w, V) == [1..h -> [1..w -> V]]
Bytes == 0..255

\* The colours of a picture with fewer bits, by the place.
Fine(rows) == [p \in Xpm!Places(rows) |-> Xpm!Bits4(rows[p[1]][p[2]])]
Coarse(rows) == [p \in Xpm!Places(rows) |-> Xpm!Bits3(rows[p[1]][p[2]])]

\* Only a finished picture has an icon, and what is loaded is what a whole file holds.
PicturesInv ==
    /\ Xpm!TypeOK
    /\ step \in {"none", "named"} => pixels = <<>>
    /\ step # "done" => xpm = Xpm!NoXpm
    /\ step = "named" => file \in Xpm!File
    /\ step = "loaded" => /\ file \in Xpm!File /\ pixels \in Xpm!Picture
                          /\ Xpm!IsWhole(file) => pixels = file.picture
    /\ Xpm!PictureKept

\* The cardinality the picture's module speaks of is the usual one.
LEMMA SameFinite ==
    /\ \A S : Xpm!IsFiniteSet(S) = IsFiniteSet(S)
    /\ \A S : Xpm!Cardinality(S) = Cardinality(S)
BY Zenon DEF Xpm!IsFiniteSet, IsFiniteSet, Xpm!Cardinality, Cardinality

\* What is assumed of pictures.
LEMMA PictureConstants ==
    ASSUME Xpm!XpmAssumption
    PROVE  /\ Levels \subseteq Bytes
           /\ Side \in Nat \ {0} /\ Target \in Nat \ {0} /\ Few \in Nat \ {0} /\ Table \in Nat \ {0}
           /\ Few <= Table
BY DEF Xpm!XpmAssumption, Bytes

\* A picture has rows of one width.
LEMMA Sized ==
    ASSUME NEW h \in Nat \ {0}, NEW w \in Nat \ {0}, NEW V, NEW rows, rows \in Rows(h, w, V)
    PROVE  /\ Len(rows) = h /\ rows # <<>>
           /\ Xpm!Width(rows) = w
           /\ Xpm!Places(rows) = (1..h) \X (1..w)
           /\ DOMAIN rows = 1..h
<1>1. \A f \in [1..w -> V] : f \in Seq(V) /\ Len(f) = w
  BY LenProperties
<1>2. rows \in Seq([1..w -> V]) /\ Len(rows) = h /\ DOMAIN rows = 1..h
  BY LenProperties DEF Rows
<1>3. \A y \in 1..h : rows[y] \in [1..w -> V]
  BY DEF Rows
<1>4. Xpm!Width(rows) = w
  BY <1>1, <1>3 DEF Xpm!Width
<1>5. rows # <<>>
  BY <1>2
<1>6. QED
  BY <1>1, <1>2, <1>3, <1>4, <1>5 DEF Xpm!Places

\* Four or three bits of a value, and how far they are from each other and from it.
LEMMA Bits ==
    ASSUME NEW v \in Bytes
    PROVE  /\ Xpm!Bits4(v) \in Bytes /\ Xpm!Bits3(v) \in Bytes
           /\ Xpm!Bits3(v) <= v /\ v <= Xpm!Bits3(v) + 31
           /\ Xpm!Bits3(v) <= Xpm!Bits4(v) /\ Xpm!Bits4(v) <= Xpm!Bits3(v) + 16
<1> DEFINE a == v % 16
           b == v % 32
<1>1. a \in 0..15 /\ b \in 0..31
  BY DEF Bytes
<1>2. a <= b /\ b <= a + 16
  BY DEF Bytes
<1>3. a <= v /\ b <= v
  BY DEF Bytes
<1>4. QED
  BY <1>1, <1>2, <1>3 DEF Bytes, Xpm!Bits4, Xpm!Bits3

\* The place a pixel of an icon is taken from is in the picture, however the ratio
\* of their sizes is rounded.
LEMMA Sources ==
    ASSUME Xpm!XpmAssumption, NEW i \in 1..Target, NEW n \in 1..Side
    PROVE  Xpm!Source(i, n) \in 1..n
<1> DEFINE cut == Truncated[i - 1, n]
<1>1. Target \in Nat \ {0} /\ Side \in Nat \ {0} /\ n \in Nat \ {0}
  BY PictureConstants DEF Xpm!XpmAssumption
<1>2. <<i - 1, n>> \in (0..Target-1) \X (1..Side)
  BY <1>1
<1>3. cut \in Nat
  BY <1>2 DEF Xpm!XpmAssumption
<1>4. Xpm!Source(i, n) = (IF cut >= n THEN n - 1 ELSE cut) + 1
  BY DEF Xpm!Source
<1> HIDE DEF cut
<1>5. QED
  BY <1>1, <1>3, <1>4

\* Some numbers up to another.
UpTo(S, n) == S # {} /\ S \subseteq 0..n

\* One of them is the least.
LEMMA LeastNumber ==
    ASSUME NEW n \in Nat, NEW S, UpTo(S, n)
    PROVE  \E p \in S : \A q \in S : p <= q
<1>1. IsFiniteSet(0..n)
  BY FS_Interval
<1>2. S \subseteq 0..n /\ S \subseteq Nat /\ S # {}
  BY DEF UpTo
<1>3. IsFiniteSet(S)
  BY <1>1, <1>2, FS_Subset
<1>4. PICK p \in S : \A q \in S : p <= q
  BY <1>2, <1>3, LeastOf
<1>5. QED
  BY <1>4

\* Places of a picture.
Within(S, h, w) == S \subseteq (1..h) \X (1..w)

\* Of some places of a picture one comes first.
LEMMA FirstPlace ==
    ASSUME NEW h \in Nat, NEW w \in Nat, NEW S, Within(S, h, w), S # {}
    PROVE  \E p \in S : \A q \in S \ {p} : Xpm!Before(p, q)
<1> DEFINE Y == {y \in 1..h : \E x \in 1..w : <<y, x>> \in S}
<1>1. PICK top \in Y : \A y \in Y : top <= y
  <2>1. UpTo(Y, h)
    BY DEF UpTo, Within
  <2> HIDE DEF Y
  <2>2. QED
    BY <2>1, LeastNumber
<1> DEFINE X == {x \in 1..w : <<top, x>> \in S}
<1>2. PICK first \in X : \A x \in X : first <= x
  <2>1. UpTo(X, w)
    BY <1>1 DEF UpTo
  <2> HIDE DEF X
  <2>2. QED
    BY <2>1, LeastNumber
<1>3. <<top, first>> \in S
  BY <1>2
<1>4. ASSUME NEW q \in S \ {<<top, first>>} PROVE Xpm!Before(<<top, first>>, q)
  <2>1. PICK y \in 1..h, x \in 1..w : q = <<y, x>>
    BY DEF Within
  <2>2. y \in Y /\ top <= y
    BY <1>1, <2>1
  <2>3. y = top => x \in X /\ first <= x
    BY <1>2, <2>1
  <2>4. y = top => first # x
    BY <2>1
  <2>5. QED
    BY <2>1, <2>2, <2>3, <2>4 DEF Xpm!Before
<1>5. QED
  BY <1>3, <1>4

\* Of two places one comes before the other.
LEMMA OneBefore ==
    ASSUME NEW h \in Nat, NEW w \in Nat, NEW p \in (1..h) \X (1..w), NEW q \in (1..h) \X (1..w), p # q
    PROVE  Xpm!Before(p, q) \/ Xpm!Before(q, p)
BY DEF Xpm!Before

\* A colour for every place of a picture.
Coloring(colour, h, w, V) == colour \in [(1..h) \X (1..w) -> V]

\* The first pixel is an entry of every table.
LEMMA FirstEntry ==
    ASSUME NEW h \in Nat \ {0}, NEW w \in Nat \ {0}, NEW V,
           NEW colour, Coloring(colour, h, w, V), NEW n \in Nat \ {0}
    PROVE  <<1, 1>> \in Xpm!Entries(colour, n)
<1>1. Xpm!Met(colour, <<1, 1>>) = {}
  BY DEF Xpm!Met, Xpm!Before, Coloring
<1>2. Xpm!Cardinality(Xpm!Met(colour, <<1, 1>>)) = 0
  BY <1>1, SameFinite, FS_EmptySet
<1>3. QED
  BY <1>1, <1>2 DEF Xpm!Entries, Coloring

\* Of no more colours than a table has room for, the table has each once.
LEMMA EveryColour ==
    ASSUME NEW h \in Nat \ {0}, NEW w \in Nat \ {0}, NEW V, IsFiniteSet(V),
           NEW colour, Coloring(colour, h, w, V), NEW n \in Nat, Cardinality(V) <= n
    PROVE  /\ Cardinality(Xpm!Entries(colour, n)) <= Cardinality(V)
           /\ \A p \in DOMAIN colour : \E e \in Xpm!Entries(colour, n) : colour[e] = colour[p]
<1> DEFINE D == (1..h) \X (1..w)
           E == Xpm!Entries(colour, n)
           f == [e \in E |-> colour[e]]
<1>1. DOMAIN colour = D /\ E \subseteq D /\ \A p \in D : colour[p] \in V
  BY DEF Xpm!Entries, Coloring
<1>2. \A e \in E : colour[e] \notin Xpm!Met(colour, e)
  BY DEF Xpm!Entries
<1>3. f \in Injection(E, V)
  <2>1. f \in [E -> V]
    BY <1>1
  <2>2. ASSUME NEW a \in E, NEW b \in E, f[a] = f[b] PROVE a = b
    <3>1. SUFFICES ASSUME a # b PROVE FALSE
      OBVIOUS
    <3>2. a \in D /\ b \in D /\ colour[a] = colour[b]
      BY <1>1, <2>2
    <3>3. CASE Xpm!Before(a, b)
      BY <1>1, <1>2, <3>2, <3>3 DEF Xpm!Met
    <3>4. CASE Xpm!Before(b, a)
      BY <1>1, <1>2, <3>2, <3>4 DEF Xpm!Met
    <3>5. QED
      BY <3>1, <3>2, <3>3, <3>4, OneBefore
  <2>3. QED
    BY <2>1, <2>2 DEF Injection, IsInjective
<1>4. Cardinality(E) <= Cardinality(V)
  BY <1>3, FS_Injection
<1>5. ASSUME NEW p \in D PROVE \E e \in E : colour[e] = colour[p]
  <2> DEFINE S == {q \in D : colour[q] = colour[p]}
  <2>1. PICK e \in S : \A q \in S \ {e} : Xpm!Before(e, q)
    <3>1. Within(S, h, w) /\ S # {}
      BY DEF Within
    <3> HIDE DEF S
    <3>2. QED
      BY <3>1, FirstPlace
  <2> DEFINE M == Xpm!Met(colour, e)
             rest == V \ {colour[e]}
  <2>2. colour[e] \notin M
    <3>1. SUFFICES ASSUME NEW q \in D, Xpm!Before(q, e), colour[q] = colour[e] PROVE FALSE
      BY <1>1 DEF Xpm!Met
    <3>2. q \in S /\ (q # e => Xpm!Before(e, q))
      BY <2>1, <3>1
    <3>3. ~Xpm!Before(e, e) /\ ~(Xpm!Before(e, q) /\ Xpm!Before(q, e))
      BY DEF Xpm!Before
    <3>4. QED
      BY <3>1, <3>2, <3>3
  <2>3. M \subseteq V \ {colour[e]}
    BY <1>1, <2>2 DEF Xpm!Met
  <2>4. Cardinality(M) < Cardinality(V)
    <3>1. colour[e] \in V
      BY <1>1, <2>1
    <3>2. IsFiniteSet(V \ {colour[e]}) /\ Cardinality(V \ {colour[e]}) = Cardinality(V) - 1
      BY <3>1, FS_RemoveElement
    <3>3. Cardinality(M) <= Cardinality(V) - 1
      BY <2>3, <3>2, FS_Subset
    <3>4. Cardinality(M) \in Nat /\ Cardinality(V) \in Nat
      BY <2>3, <3>2, FS_Subset, FS_CardinalityType
    <3>5. QED
      BY <3>3, <3>4
  <2>5. Xpm!Cardinality(M) < n
    <3>1. IsFiniteSet(M) /\ Cardinality(M) \in Nat /\ Cardinality(V) \in Nat
      <4>1. M \in SUBSET V
        BY <2>3
      <4> HIDE DEF M
      <4>2. QED
        BY <4>1, FS_Subset, FS_CardinalityType
    <3> HIDE DEF M
    <3>2. QED
      BY <2>4, <3>1, SameFinite
  <2>6. e \in E
    BY <1>1, <2>1, <2>2, <2>5 DEF Xpm!Entries
  <2>7. QED
    BY <2>1, <2>6
<1>6. QED
  BY <1>1, <1>4, <1>5

\* How far two values are from each other, and a value from one that lost some bits.
LEMMA Distances ==
    ASSUME NEW a \in Bytes, NEW b \in Bytes
    PROVE  /\ Xpm!Distance(a, b) \in Bytes
           /\ a <= b + Xpm!Distance(a, b) /\ b <= a + Xpm!Distance(a, b)
           /\ \A n \in Nat : a <= b + n /\ b <= a + n => Xpm!Distance(a, b) <= n
<1>1. CASE a < b
  BY <1>1 DEF Xpm!Distance, Bytes
<1>2. CASE ~(a < b)
  BY <1>2 DEF Xpm!Distance, Bytes
<1>3. QED
  BY <1>1, <1>2

\* Looking a value up in a palette finds an entry that no other is nearer than.
LEMMA NearestFound ==
    ASSUME NEW h \in Nat, NEW w \in Nat, NEW P \in SUBSET ((1..h) \X (1..w)), P # {},
           NEW palette \in [P -> Bytes], NEW v \in Bytes
    PROVE  /\ Xpm!Nearest(palette, v) \in P
           /\ \A q \in P : Xpm!Distance(palette[Xpm!Nearest(palette, v)], Xpm!Bits3(v))
                             <= Xpm!Distance(palette[q], Xpm!Bits3(v))
<1> DEFINE near(e) == Xpm!Distance(palette[e], Xpm!Bits3(v))
           N == {d \in Bytes : \E e \in P : near(e) = d}
<1>1. ASSUME NEW e \in P PROVE near(e) \in Bytes
  <2>1. Xpm!Bits3(v) \in Bytes /\ palette[e] \in Bytes
    BY Bits
  <2>2. QED
    BY <2>1, Distances
<1> HIDE DEF near
<1>2. PICK least \in N : \A d \in N : least <= d
  <2>1. UpTo(N, 255)
    BY <1>1 DEF Bytes, UpTo
  <2> HIDE DEF N
  <2>2. QED
    BY <2>1, LeastNumber
<1> DEFINE S == {e \in P : near(e) = least}
<1>3. S # {} /\ Within(S, h, w)
  BY <1>2 DEF Within
<1>4. PICK p \in S : \A q \in S \ {p} : Xpm!Before(p, q)
  <2> HIDE DEF S
  <2>1. QED
    BY <1>3, FirstPlace
<1>5. ASSUME NEW q \in P PROVE near(p) <= near(q) /\ near(p) \in Nat /\ near(q) \in Nat
  <2>1. near(p) = least /\ p \in P /\ near(q) \in N
    BY <1>1, <1>4
  <2>2. near(p) <= near(q)
    BY <1>2, <2>1
  <2>3. QED
    BY <1>1, <2>1, <2>2 DEF Bytes
<1>6. \A q \in P \ {p} : near(p) < near(q) \/ (near(p) = near(q) /\ Xpm!Before(p, q))
  <2>1. ASSUME NEW q \in P \ {p} PROVE near(p) < near(q) \/ (near(p) = near(q) /\ Xpm!Before(p, q))
    <3>1. near(q) = near(p) => q \in S \ {p}
      BY <1>4
    <3>2. QED
      BY <1>4, <1>5, <3>1
  <2>2. QED
    BY <2>1
<1>7. \A a \in P, b \in P : Xpm!Nearer(palette, v, a, b)
                              = (near(a) < near(b) \/ (near(a) = near(b) /\ Xpm!Before(a, b)))
  BY DEF Xpm!Nearer, near
<1> DEFINE best == Xpm!Nearest(palette, v)
           Best(e) == \A q \in DOMAIN palette \ {e} : Xpm!Nearer(palette, v, e, q)
<1>8. p \in DOMAIN palette /\ Best(p)
  BY <1>4, <1>6, <1>7
<1>9. best \in DOMAIN palette /\ Best(best)
  <2> HIDE DEF Best
  <2>1. best = CHOOSE e \in DOMAIN palette : Best(e)
    BY DEF Xpm!Nearest, Best
  <2> HIDE DEF best
  <2>2. QED
    BY <1>8, <2>1
<1> HIDE DEF best
<1>10. \A q \in P : near(best) <= near(q)
  <2>1. SUFFICES ASSUME NEW q \in P PROVE near(best) <= near(q)
    OBVIOUS
  <2>2. best \in P /\ (q # best => Xpm!Nearer(palette, v, best, q))
    BY <1>9
  <2>3. near(best) \in Nat /\ near(q) \in Nat
    BY <1>5, <2>2
  <2>4. CASE q = best
    BY <2>3, <2>4
  <2>5. CASE q # best
    <3>1. near(best) < near(q) \/ (near(best) = near(q) /\ Xpm!Before(best, q))
      BY <1>7, <2>2, <2>5
    <3>2. QED
      BY <2>3, <3>1
  <2>6. QED
    BY <2>4, <2>5
<1>11. QED
  BY <1>9, <1>10 DEF near, best

\* The colours of a picture with fewer bits, by the place, are bytes as well.
LEMMA FewerBits ==
    ASSUME NEW h \in Nat \ {0}, NEW w \in Nat \ {0}, NEW rows \in Rows(h, w, Bytes)
    PROVE  /\ Fine(rows) \in [(1..h) \X (1..w) -> Bytes]
           /\ Coarse(rows) \in [(1..h) \X (1..w) -> Bytes]
           /\ \A y \in 1..h, x \in 1..w : Fine(rows)[<<y, x>>] = Xpm!Bits4(rows[y][x])
<1>1. Xpm!Places(rows) = (1..h) \X (1..w)
  BY Sized
<1>2. \A y \in 1..h, x \in 1..w : rows[y][x] \in Bytes
  BY DEF Rows
<1>3. ASSUME NEW p \in (1..h) \X (1..w)
      PROVE  Xpm!Bits4(rows[p[1]][p[2]]) \in Bytes /\ Xpm!Bits3(rows[p[1]][p[2]]) \in Bytes
  <2>1. rows[p[1]][p[2]] \in Bytes
    BY <1>2
  <2>2. QED
    BY <2>1, Bits
<1>4. QED
  BY <1>1, <1>3 DEF Fine, Coarse

\* A palette is made of places of a picture, one at least.
Made(palette, h, w) ==
    palette \in [DOMAIN palette -> Bytes] /\ DOMAIN palette # {} /\ Within(DOMAIN palette, h, w)
\* The entries of a table with their colours.
Entered(colour, n) == [p \in Xpm!Entries(colour, n) |-> colour[p]]

\* A table of at least one entry is a palette.
LEMMA Restricted ==
    ASSUME NEW h \in Nat \ {0}, NEW w \in Nat \ {0}, NEW colour, Coloring(colour, h, w, Bytes),
           NEW n \in Nat \ {0}
    PROVE  Made(Entered(colour, n), h, w)
<1>1. <<1, 1>> \in Xpm!Entries(colour, n)
  BY FirstEntry
<1>2. Xpm!Entries(colour, n) \subseteq (1..h) \X (1..w)
  BY DEF Xpm!Entries, Coloring
<1>3. QED
  BY <1>1, <1>2 DEF Within, Made, Entered, Coloring

\* A picture has one, whichever of the two tables it is made from.
LEMMA PaletteMade ==
    ASSUME Xpm!XpmAssumption,
           NEW h \in Nat \ {0}, NEW w \in Nat \ {0}, NEW rows \in Rows(h, w, Bytes)
    PROVE  Made(Xpm!Palette(rows), h, w)
<1> DEFINE fine == Fine(rows)
           coarse == Coarse(rows)
<1>1. Coloring(fine, h, w, Bytes) /\ Coloring(coarse, h, w, Bytes)
  BY FewerBits DEF Coloring
<1>2. Few \in Nat \ {0} /\ Table \in Nat \ {0}
  BY PictureConstants
<1>3. Xpm!Palette(rows) = IF Xpm!Cardinality(Xpm!Entries(fine, Table)) > Few
                            THEN [p \in Xpm!Entries(coarse, Few) |-> coarse[p]]
                            ELSE [p \in Xpm!Entries(fine, Table) |-> fine[p]]
  BY DEF Xpm!Palette, Fine, Coarse
<1> HIDE DEF fine, coarse
<1>4. CASE Xpm!Cardinality(Xpm!Entries(fine, Table)) > Few
  <2>1. Xpm!Palette(rows) = Entered(coarse, Few)
    BY <1>3, <1>4 DEF Entered
  <2>2. QED
    BY <1>1, <1>2, <2>1, Restricted
<1>5. CASE ~(Xpm!Cardinality(Xpm!Entries(fine, Table)) > Few)
  <2>1. Xpm!Palette(rows) = Entered(fine, Table)
    BY <1>3, <1>5 DEF Entered
  <2>2. QED
    BY <1>1, <1>2, <2>1, Restricted
<1>6. QED
  BY <1>4, <1>5

\* No more colours are left when each loses bits.
LEMMA NoMoreColours ==
    ASSUME NEW C, IsFiniteSet(C), NEW V, V = {Xpm!Bits4(c) : c \in C}
    PROVE  IsFiniteSet(V) /\ Cardinality(V) <= Cardinality(C)
<1> DEFINE g == [c \in C |-> Xpm!Bits4(c)]
<1>1. g \in Surjection(C, V)
  BY DEF Surjection
<1>2. QED
  BY <1>1, FS_Surjection

\* What few colours are: no more than these, all of them.
Coloured(rows, h, w, C) == \A y \in 1..h, x \in 1..w : rows[y][x] \in C

\* Few colours are all in the palette, with four bits.
LEMMA PaletteFew ==
    ASSUME Xpm!XpmAssumption,
           NEW h \in Nat \ {0}, NEW w \in Nat \ {0}, NEW rows \in Rows(h, w, Bytes),
           NEW C, IsFiniteSet(C), Cardinality(C) <= Few, Coloured(rows, h, w, C)
    PROVE  \A y \in 1..h, x \in 1..w : \E e \in DOMAIN Xpm!Palette(rows) :
               Xpm!Palette(rows)[e] = Xpm!Bits4(rows[y][x])
<1> DEFINE D == (1..h) \X (1..w)
           fine == Fine(rows)
           V == {Xpm!Bits4(c) : c \in C}
           E == Xpm!Entries(fine, Table)
<1>1. fine \in [D -> Bytes] /\ \A y \in 1..h, x \in 1..w : fine[<<y, x>>] = Xpm!Bits4(rows[y][x])
  BY FewerBits
<1>2. fine \in [D -> V]
  <2>1. ASSUME NEW p \in D PROVE fine[p] \in V
    <3>1. PICK y \in 1..h, x \in 1..w : p = <<y, x>>
      OBVIOUS
    <3>2. rows[y][x] \in C
      BY DEF Coloured
    <3>3. fine[p] = Xpm!Bits4(rows[y][x])
      BY <1>1, <3>1
    <3>4. QED
      BY <3>2, <3>3
  <2>2. QED
    BY <1>1, <2>1
<1>3. Few \in Nat \ {0} /\ Table \in Nat \ {0} /\ Few <= Table
  BY PictureConstants
<1>4. IsFiniteSet(V) /\ Cardinality(V) <= Cardinality(C)
  BY NoMoreColours
<1> HIDE DEF V, fine
<1>5. Cardinality(V) \in Nat /\ Cardinality(C) \in Nat
  BY <1>4, FS_CardinalityType
<1>6. Cardinality(V) <= Few /\ Cardinality(V) <= Table
  BY <1>3, <1>4, <1>5
<1>7. /\ Cardinality(E) <= Cardinality(V)
      /\ \A p \in DOMAIN fine : \E e \in E : fine[e] = fine[p]
  <2>1. Table \in Nat /\ Coloring(fine, h, w, V)
    BY <1>2, <1>3 DEF Coloring
  <2>2. QED
    BY <1>4, <1>6, <2>1, EveryColour
<1>8. IsFiniteSet(E)
  <2>1. IsFiniteSet(D)
    <3>1. IsFiniteSet(1..h) /\ IsFiniteSet(1..w)
      BY FS_Interval
    <3>2. QED
      BY <3>1, FS_Product
  <2>2. E \subseteq D
    BY <1>1 DEF Xpm!Entries
  <2>3. QED
    BY <2>1, <2>2, FS_Subset
<1>9. ~(Xpm!Cardinality(E) > Few)
  <2>1. Cardinality(E) \in Nat
    BY <1>8, FS_CardinalityType
  <2>2. QED
    BY <1>3, <1>5, <1>6, <1>7, <2>1, SameFinite
<1>10. Xpm!Palette(rows) = [p \in E |-> fine[p]]
  BY <1>9 DEF Xpm!Palette, fine, Fine
<1>11. ASSUME NEW y \in 1..h, NEW x \in 1..w
       PROVE  \E e \in DOMAIN Xpm!Palette(rows) : Xpm!Palette(rows)[e] = Xpm!Bits4(rows[y][x])
  <2>1. <<y, x>> \in DOMAIN fine /\ fine[<<y, x>>] = Xpm!Bits4(rows[y][x])
    BY <1>1
  <2>2. PICK e \in E : fine[e] = fine[<<y, x>>]
    BY <1>7, <2>1
  <2>3. QED
    BY <1>10, <2>1, <2>2
<1>12. QED
  BY <1>11

\* An icon has the size of its picture and every pixel an entry of its palette.
LEMMA IconMade ==
    ASSUME Xpm!XpmAssumption,
           NEW h \in Nat \ {0}, NEW w \in Nat \ {0}, NEW rows \in Rows(h, w, Bytes)
    PROVE  LET made == Xpm!x11ut__rgb_to_xpm(rows)
           IN /\ made.palette = Xpm!Palette(rows)
              /\ made.rows \in Rows(h, w, DOMAIN made.palette)
              /\ \A y \in 1..h, x \in 1..w :
                     made.rows[y][x] = Xpm!Nearest(made.palette, rows[y][x])
<1> DEFINE palette == Xpm!Palette(rows)
           P == DOMAIN palette
           made == Xpm!x11ut__rgb_to_xpm(rows)
<1>1. palette \in [P -> Bytes] /\ P # {} /\ Within(P, h, w)
  BY PaletteMade DEF Made
<1>2. DOMAIN rows = 1..h /\ \A y \in 1..h : rows[y] \in [1..w -> Bytes]
  BY DEF Rows
<1>3. made.palette = palette
  BY DEF Xpm!x11ut__rgb_to_xpm
<1>4. made.rows = [y \in 1..h |-> [x \in 1..w |-> Xpm!Nearest(palette, rows[y][x])]]
  BY <1>2 DEF Xpm!x11ut__rgb_to_xpm
<1> HIDE DEF made, palette
<1>5. ASSUME NEW y \in 1..h, NEW x \in 1..w PROVE Xpm!Nearest(palette, rows[y][x]) \in P
  <2>1. rows[y][x] \in Bytes /\ P \in SUBSET ((1..h) \X (1..w))
    BY <1>1, <1>2 DEF Within
  <2>2. QED
    BY <1>1, <2>1, NearestFound
<1>6. QED
  BY <1>3, <1>4, <1>5 DEF made, palette, Rows

\* Up to 16 to the nearest entry, and 31 for the bits that the value has lost.
LEMMA IconNear ==
    ASSUME Xpm!XpmAssumption,
           NEW h \in Nat \ {0}, NEW w \in Nat \ {0}, NEW rows \in Rows(h, w, Bytes),
           NEW C, IsFiniteSet(C), Cardinality(C) <= Few, Coloured(rows, h, w, C),
           NEW y \in 1..h, NEW x \in 1..w
    PROVE  LET made == Xpm!x11ut__rgb_to_xpm(rows)
           IN Xpm!Distance(made.palette[made.rows[y][x]], rows[y][x]) <= 47
<1> DEFINE made == Xpm!x11ut__rgb_to_xpm(rows)
           palette == Xpm!Palette(rows)
           P == DOMAIN palette
           v == rows[y][x]
           best == Xpm!Nearest(palette, v)
<1>1. made.palette = palette /\ made.rows[y][x] = best
  BY IconMade
<1>2. v \in Bytes
  BY DEF Rows
<1>3. palette \in [P -> Bytes] /\ P # {} /\ Within(P, h, w)
  BY PaletteMade DEF Made
<1>4. PICK e \in P : palette[e] = Xpm!Bits4(v)
  BY PaletteFew
<1> HIDE DEF made, palette, v
<1>5. /\ best \in P
      /\ Xpm!Distance(palette[best], Xpm!Bits3(v)) <= Xpm!Distance(palette[e], Xpm!Bits3(v))
  <2>1. P \in SUBSET ((1..h) \X (1..w))
    BY <1>3 DEF Within
  <2>2. QED
    BY <1>2, <1>3, <2>1, NearestFound
<1> DEFINE a == palette[best]
           b == Xpm!Bits3(v)
           c == Xpm!Bits4(v)
<1>6. a \in Bytes /\ b \in Bytes /\ c \in Bytes /\ b <= v /\ v <= b + 31 /\ b <= c /\ c <= b + 16
  BY <1>2, <1>3, <1>5, Bits
<1>7. Xpm!Distance(a, b) <= Xpm!Distance(c, b)
  BY <1>4, <1>5
<1> HIDE DEF a, b, c
<1>8. Xpm!Distance(c, b) <= 16 /\ Xpm!Distance(c, b) \in Bytes /\ Xpm!Distance(a, b) \in Bytes
  <2>1. 16 \in Nat /\ c <= b + 16 /\ b <= c + 16
    BY <1>6 DEF Bytes
  <2>2. QED
    BY <1>6, <2>1, Distances
<1>9. a <= b + Xpm!Distance(a, b) /\ b <= a + Xpm!Distance(a, b)
  BY <1>6, Distances
<1>10. 47 \in Nat /\ a <= v + 47 /\ v <= a + 47
  BY <1>2, <1>6, <1>7, <1>8, <1>9 DEF Bytes
<1>11. Xpm!Distance(a, v) <= 47
  BY <1>2, <1>6, <1>10, Distances
<1>12. QED
  BY <1>1, <1>11 DEF a, made, v

\* A picture in memory or in a file has rows of one width.
LEMMA PictureRows ==
    ASSUME Xpm!XpmAssumption, NEW s \in Xpm!Picture
    PROVE  \E h \in Nat \ {0}, w \in Nat \ {0} : s \in Rows(h, w, Levels) /\ h <= Side /\ w <= Side
<1>1. PICK h \in Xpm!Sizes, w \in Xpm!Sizes : s \in [1..h -> [1..w -> Levels]]
  BY DEF Xpm!Picture
<1>2. h \in Nat \ {0} /\ w \in Nat \ {0} /\ h <= Side /\ w <= Side
  BY PictureConstants DEF Xpm!Sizes
<1>3. QED
  BY <1>1, <1>2 DEF Rows

\* And what has such rows is a picture.
LEMMA RowsPicture ==
    ASSUME Xpm!XpmAssumption, NEW h \in Nat \ {0}, NEW w \in Nat \ {0}, h <= Side, w <= Side,
           NEW s, s \in Rows(h, w, Levels)
    PROVE  s \in Xpm!Picture
<1>1. h \in Xpm!Sizes /\ w \in Xpm!Sizes
  BY PictureConstants DEF Xpm!Sizes
<1>2. s \in [1..h -> [1..w -> Levels]]
  BY DEF Rows
<1> DEFINE P == {[1..a -> [1..b -> Levels]] : a \in Xpm!Sizes, b \in Xpm!Sizes}
<1>3. [1..h -> [1..w -> Levels]] \in P
  BY <1>1
<1>4. Xpm!Picture = UNION P
  BY DEF Xpm!Picture
<1> HIDE DEF P
<1>5. QED
  BY <1>2, <1>3, <1>4

\* A row that is not read has unset pixels.
Read(V) == V \cup {Xpm!Unset}

\* A picture that is read has no unset pixel, and may have.
LEMMA ReadRows ==
    ASSUME NEW h \in Nat \ {0}, NEW w \in Nat \ {0}, NEW rows, rows \in Rows(h, w, Levels)
    PROVE  rows \in Rows(h, w, Read(Levels))
BY DEF Rows, Read

\* A JPEG file comes to a picture of its size, its own if no row is missing.
LEMMA JpegRead ==
    ASSUME NEW h \in Nat \ {0}, NEW w \in Nat \ {0}, NEW f, f.picture \in Rows(h, w, Levels),
           f.rows \in Nat \ {0}
    PROVE  /\ Xpm!x11ut__load_jpeg(f) \in Rows(h, w, Read(Levels))
           /\ f.rows >= h => Xpm!x11ut__load_jpeg(f) = f.picture
<1> DEFINE picture == f.picture
           read == Xpm!x11ut__load_jpeg(f)
<1>1. Len(picture) = h /\ Xpm!Width(picture) = w
  BY Sized
<1>2. read = [y \in 1..h |-> IF y <= f.rows THEN picture[y] ELSE [x \in 1..w |-> Xpm!Unset]]
  BY <1>1 DEF Xpm!x11ut__load_jpeg
<1>3. picture \in [1..h -> [1..w -> Levels]]
  BY DEF Rows
<1> HIDE DEF picture, read
<1>4. \A y \in 1..h : read[y] \in [1..w -> Read(Levels)]
  <2>1. SUFFICES ASSUME NEW y \in 1..h PROVE read[y] \in [1..w -> Read(Levels)]
    OBVIOUS
  <2>2. picture[y] \in [1..w -> Read(Levels)]
    BY <1>3 DEF Read
  <2>3. [x \in 1..w |-> Xpm!Unset] \in [1..w -> Read(Levels)]
    BY DEF Read
  <2>4. QED
    BY <1>2, <2>2, <2>3
<1>5. ASSUME f.rows >= h PROVE read = picture
  BY <1>2, <1>3, <1>5
<1>6. QED
  BY <1>2, <1>4, <1>5 DEF Rows, read, picture

\* The rows of a BMP file are put right, from whichever side they start.
LEMMA BmpRead ==
    ASSUME NEW h \in Nat \ {0}, NEW w \in Nat \ {0}, NEW f, f.picture \in Rows(h, w, Levels),
           Xpm!IsWhole(f)
    PROVE  Xpm!x11ut__load_bmp(f) = f.picture
<1> DEFINE picture == f.picture
           read == Xpm!x11ut__load_bmp(f)
<1>1. Len(picture) = h
  BY Sized
<1>2. picture \in [1..h -> [1..w -> Levels]]
  BY DEF Rows
<1>3. read = [y \in 1..h |-> Xpm!InFile(f)[IF f.format = "bmp" THEN h + 1 - y ELSE y]]
  BY <1>1 DEF Xpm!x11ut__load_bmp
<1>4. ASSUME NEW y \in 1..h PROVE read[y] = picture[y]
  <2>1. CASE f.format = "bmp"
    <3>1. Xpm!InFile(f) = [i \in 1..h |-> picture[(h - i) + 1]]
      BY <1>1, <2>1 DEF Xpm!InFile, Xpm!Reverse
    <3>2. h + 1 - y \in 1..h /\ (h - (h + 1 - y)) + 1 = y
      OBVIOUS
    <3>3. read[y] = Xpm!InFile(f)[h + 1 - y]
      BY <1>3, <2>1
    <3> HIDE DEF read, picture
    <3>4. QED
      BY <3>1, <3>2, <3>3
  <2>2. CASE f.format # "bmp"
    BY <1>3, <2>2 DEF Xpm!InFile
  <2>3. QED
    BY <2>1, <2>2
<1> HIDE DEF read, picture
<1>5. QED
  BY <1>2, <1>3, <1>4 DEF read, picture

\* What a file that can be read comes to: all of it, if all of it is there.
LEMMA LoadFine ==
    ASSUME Xpm!XpmAssumption, NEW f \in Xpm!File, Xpm!Load(f) # <<>>,
           NEW h \in Nat \ {0}, NEW w \in Nat \ {0}, f.picture \in Rows(h, w, Levels)
    PROVE  /\ Xpm!Load(f) \in Rows(h, w, Read(Levels))
           /\ Xpm!IsWhole(f) => Xpm!Load(f) = f.picture
<1>1. f.picture \in Rows(h, w, Read(Levels)) /\ Len(f.picture) = h
  BY ReadRows, Sized
<1>2. f.rows \in Nat
  <2>1. f.rows \in 0..Side /\ Side \in Nat
    BY PictureConstants DEF Xpm!File
  <2>2. QED
    BY <2>1
<1>3. CASE f.format = "png"
  <2>1. Xpm!Load(f) = Xpm!x11ut__load_png(f)
    BY <1>3 DEF Xpm!Load
  <2>2. QED
    BY <1>1, <2>1 DEF Xpm!x11ut__load_png
<1>4. CASE f.format = "jpeg"
  <2>1. Xpm!Load(f) = Xpm!x11ut__load_jpeg(f)
    BY <1>4 DEF Xpm!Load
  <2>2. f.rows # 0
    BY <2>1 DEF Xpm!x11ut__load_jpeg
  <2>3. QED
    BY <1>1, <1>2, <2>1, <2>2, JpegRead DEF Xpm!IsWhole
<1>5. CASE f.format = "gif"
  BY <1>5 DEF Xpm!Load
<1>6. CASE f.format \in {"bmp", "bmp from the top"}
  <2>1. Xpm!Load(f) = Xpm!x11ut__load_bmp(f)
    BY <1>6 DEF Xpm!Load
  <2>2. Xpm!IsWhole(f)
    BY <2>1 DEF Xpm!x11ut__load_bmp
  <2>3. QED
    BY <1>1, <2>1, <2>2, BmpRead
<1>7. QED
  BY <1>3, <1>4, <1>5, <1>6 DEF Xpm!File

\* Unset memory may hold any bytes.
Filled(read, junk) ==
    [y \in DOMAIN read |-> [x \in DOMAIN read[y] |-> IF read[y][x] = Xpm!Unset THEN junk ELSE read[y][x]]]

\* With any bytes there it is a picture, and one with nothing unset stays as it is.
LEMMA FillFine ==
    ASSUME Xpm!XpmAssumption, NEW h \in Nat \ {0}, NEW w \in Nat \ {0}, NEW junk \in Levels,
           NEW rows, rows \in Rows(h, w, Read(Levels))
    PROVE  /\ Filled(rows, junk) \in Rows(h, w, Levels)
           /\ rows \in Rows(h, w, Levels) => Filled(rows, junk) = rows
<1>1. Xpm!Unset \notin Levels
  BY PictureConstants DEF Xpm!Unset, Bytes
<1>2. DOMAIN rows = 1..h /\ \A y \in 1..h : rows[y] \in [1..w -> Read(Levels)]
  BY DEF Rows
<1>3. Filled(rows, junk) = [y \in 1..h |-> [x \in 1..w |->
                              IF rows[y][x] = Xpm!Unset THEN junk ELSE rows[y][x]]]
  BY <1>2 DEF Filled
<1>4. \A y \in 1..h, x \in 1..w : rows[y][x] = Xpm!Unset \/ rows[y][x] \in Levels
  BY <1>2 DEF Read
<1>5. Filled(rows, junk) \in Rows(h, w, Levels)
  BY <1>3, <1>4 DEF Rows
<1>6. ASSUME rows \in Rows(h, w, Levels) PROVE Filled(rows, junk) = rows
  <2>1. \A y \in 1..h : rows[y] \in [1..w -> Levels] /\ rows \in [1..h -> [1..w -> Levels]]
    BY <1>6 DEF Rows
  <2>2. ASSUME NEW y \in 1..h
        PROVE  [x \in 1..w |-> IF rows[y][x] = Xpm!Unset THEN junk ELSE rows[y][x]] = rows[y]
    BY <1>1, <2>1
  <2> DEFINE filled == Filled(rows, junk)
  <2>3. filled \in [1..h -> [1..w -> Levels]] /\ rows \in [1..h -> [1..w -> Levels]]
    BY <1>5, <1>6 DEF Rows
  <2>4. \A y \in 1..h : filled[y] = rows[y]
    BY <1>3, <2>2
  <2> HIDE DEF filled
  <2>5. filled = rows
    BY <2>3, <2>4
  <2>6. QED
    BY <2>5 DEF filled
<1>7. QED
  BY <1>5, <1>6

\* The values of a picture's pixels are bytes.
LEMMA LevelsAreBytes ==
    ASSUME Xpm!XpmAssumption, NEW h \in Nat \ {0}, NEW w \in Nat \ {0},
           NEW rows, rows \in Rows(h, w, Levels)
    PROVE  rows \in Rows(h, w, Bytes)
<1>1. Levels \subseteq Bytes
  BY PictureConstants
<1>2. QED
  BY <1>1 DEF Rows

\* An icon's pixels are those of the picture at their sources.
LEMMA Resized ==
    ASSUME Xpm!XpmAssumption, NEW h \in Nat \ {0}, NEW w \in Nat \ {0},
           NEW rows, rows \in Rows(h, w, Levels), h <= Side, w <= Side
    PROVE  /\ Xpm!x11ut__resize_image(rows) \in Rows(Target, Target, Levels)
           /\ \A y \in 1..Target, x \in 1..Target :
                  /\ Xpm!x11ut__resize_image(rows)[y][x] = rows[Xpm!Source(y, h)][Xpm!Source(x, w)]
                  /\ Xpm!Source(y, h) \in 1..h /\ Xpm!Source(x, w) \in 1..w
<1>1. h \in 1..Side /\ w \in 1..Side
  BY DEF Xpm!XpmAssumption
<1>2. Len(rows) = h /\ Xpm!Width(rows) = w
  BY Sized
<1>3. \A y \in 1..Target, x \in 1..Target :
          /\ Xpm!Source(y, h) \in 1..h /\ Xpm!Source(x, w) \in 1..w
          /\ rows[Xpm!Source(y, h)][Xpm!Source(x, w)] \in Levels
  <2>1. SUFFICES ASSUME NEW y \in 1..Target, NEW x \in 1..Target
                 PROVE  /\ Xpm!Source(y, h) \in 1..h /\ Xpm!Source(x, w) \in 1..w
                        /\ rows[Xpm!Source(y, h)][Xpm!Source(x, w)] \in Levels
    OBVIOUS
  <2>2. Xpm!Source(y, h) \in 1..h
    BY <1>1, Sources
  <2>3. Xpm!Source(x, w) \in 1..w
    BY <1>1, Sources
  <2>4. QED
    BY <2>2, <2>3 DEF Rows
<1>4. Xpm!x11ut__resize_image(rows) =
          [y \in 1..Target |-> [x \in 1..Target |-> rows[Xpm!Source(y, h)][Xpm!Source(x, w)]]]
  BY <1>2 DEF Xpm!x11ut__resize_image
<1>5. QED
  BY <1>3, <1>4 DEF Rows

\* The colours of a picture are finitely many.
LEMMA ColoursFinite ==
    ASSUME Xpm!XpmAssumption, NEW h \in Nat \ {0}, NEW w \in Nat \ {0},
           NEW rows, rows \in Rows(h, w, Levels)
    PROVE  IsFiniteSet(Xpm!Colours(rows)) /\ Coloured(rows, h, w, Xpm!Colours(rows))
<1>1. DOMAIN rows = 1..h /\ \A y \in 1..h : rows[y] \in [1..w -> Levels]
  BY DEF Rows
<1>2. Coloured(rows, h, w, Xpm!Colours(rows))
  <2>1. ASSUME NEW y \in 1..h, NEW x \in 1..w PROVE rows[y][x] \in Xpm!Colours(rows)
    <3>1. rows[y] \in Xpm!ToSet(rows)
      BY <1>1 DEF Xpm!ToSet
    <3>2. DOMAIN rows[y] = 1..w
      BY <1>1
    <3>3. rows[y][x] \in Xpm!ToSet(rows[y])
      BY <3>2 DEF Xpm!ToSet
    <3>4. QED
      BY <3>1, <3>3 DEF Xpm!Colours
  <2>2. QED
    BY <2>1, Zenon DEF Coloured
<1>3. Xpm!Colours(rows) \subseteq Bytes
  <2>1. Levels \subseteq Bytes
    BY PictureConstants
  <2>2. QED
    BY <1>1, <2>1 DEF Xpm!Colours, Xpm!ToSet
<1>4. IsFiniteSet(Bytes)
  <2>1. 0 \in Int /\ 255 \in Int
    OBVIOUS
  <2>2. IsFiniteSet(0..255)
    BY <2>1, FS_Interval, Zenon
  <2>3. QED
    BY <2>2, Zenon DEF Bytes
<1> DEFINE C == Xpm!Colours(rows)
<1> HIDE DEF C
<1>5. IsFiniteSet(C)
  <2>1. C \subseteq Bytes
    BY <1>3 DEF C
  <2>2. QED
    BY <1>4, <2>1, FS_Subset
<1>6. QED
  BY <1>2, <1>5 DEF C

\* What an icon is drawn from, the picture or the picture scaled, which it is only
\* when it has another size.
Small(picture, scaled) == IF scaled THEN Xpm!x11ut__resize_image(picture) ELSE picture
Icon(picture, scaled) == Xpm!x11ut__rgb_to_xpm(Small(picture, scaled))

\* The pixel of a picture that these rows show there.
Origin(picture, rows, y, x) ==
    IF Len(rows) = Len(picture) /\ Xpm!Width(rows) = Xpm!Width(picture) THEN picture[y][x]
    ELSE picture[Xpm!Source(y, Len(picture))][Xpm!Source(x, Xpm!Width(picture))]

\* The rows of an icon are made of entries of its palette.
LEMMA IconTyped ==
    ASSUME Xpm!XpmAssumption, NEW h \in Nat \ {0}, NEW w \in Nat \ {0},
           NEW picture, picture \in Rows(h, w, Levels), h <= Side, w <= Side, NEW scaled \in BOOLEAN
    PROVE  \A row \in Xpm!ToSet(Icon(picture, scaled).rows) :
               Xpm!ToSet(row) \subseteq DOMAIN Icon(picture, scaled).palette
<1> DEFINE small == Small(picture, scaled)
           H == IF scaled THEN Target ELSE h
           W == IF scaled THEN Target ELSE w
           made == Icon(picture, scaled)
           P == DOMAIN made.palette
<1>1. H \in Nat \ {0} /\ W \in Nat \ {0}
  BY PictureConstants
<1>2. small \in Rows(H, W, Levels)
  BY Resized DEF Small
<1>3. made = Xpm!x11ut__rgb_to_xpm(small)
  BY DEF Icon
<1> HIDE DEF H, W, small, made
<1>4. small \in Rows(H, W, Bytes)
  BY <1>1, <1>2, LevelsAreBytes
<1>5. made.rows \in Rows(H, W, P)
  BY <1>1, <1>3, <1>4, IconMade
<1> DEFINE rows == made.rows
<1>6. DOMAIN rows = 1..H /\ \A y \in 1..H : rows[y] \in [1..W -> P]
  BY <1>5 DEF Rows
<1> HIDE DEF rows, P
<1>7. ASSUME NEW row \in Xpm!ToSet(rows) PROVE Xpm!ToSet(row) \subseteq P
  <2>1. PICK y \in 1..H : row = rows[y]
    BY <1>6 DEF Xpm!ToSet
  <2>2. row \in [1..W -> P]
    BY <1>6, <2>1
  <2>3. QED
    BY <2>2 DEF Xpm!ToSet
<1>8. QED
  BY <1>7 DEF made, rows, P

\* Of few colours every pixel is where it was, and no more than 47 away.
LEMMA IconKept ==
    ASSUME Xpm!XpmAssumption, NEW h \in Nat \ {0}, NEW w \in Nat \ {0},
           NEW picture, picture \in Rows(h, w, Levels), h <= Side, w <= Side,
           NEW scaled \in BOOLEAN, scaled => ~Xpm!IconSized(picture),
           Xpm!Cardinality(Xpm!Colours(picture)) <= Few
    PROVE  LET made == Icon(picture, scaled)
           IN \A y \in DOMAIN made.rows : \A x \in DOMAIN made.rows[y] :
                  Xpm!Distance(made.palette[made.rows[y][x]], Origin(picture, made.rows, y, x)) <= 47
<1> DEFINE small == Small(picture, scaled)
           H == IF scaled THEN Target ELSE h
           W == IF scaled THEN Target ELSE w
           made == Icon(picture, scaled)
           P == DOMAIN made.palette
           C == Xpm!Colours(picture)
<1>1. H \in Nat \ {0} /\ W \in Nat \ {0} /\ Target \in Nat \ {0}
  BY PictureConstants
<1>2. small \in Rows(H, W, Levels)
  BY Resized DEF Small
<1>3. made = Xpm!x11ut__rgb_to_xpm(small)
  BY DEF Icon
<1>4. IsFiniteSet(C) /\ Cardinality(C) <= Few /\ Coloured(picture, h, w, C)
  BY ColoursFinite, SameFinite
<1>5. Len(picture) = h /\ Xpm!Width(picture) = w
  BY Sized
<1> HIDE DEF C
<1>6. Coloured(small, H, W, C)
  <2>1. CASE scaled
    BY <1>4, <2>1, Resized DEF Coloured, Small
  <2>2. CASE ~scaled
    BY <1>4, <2>2 DEF Small
  <2>3. QED
    BY <2>1, <2>2
<1> HIDE DEF H, W, small, made
<1>7. small \in Rows(H, W, Bytes)
  BY <1>1, <1>2, LevelsAreBytes
<1>8. made.rows \in Rows(H, W, P)
  BY <1>1, <1>3, <1>7, IconMade
<1>9. DOMAIN made.rows = 1..H /\ \A y \in 1..H : DOMAIN made.rows[y] = 1..W
  BY <1>8 DEF Rows
<1>10. Len(made.rows) = H /\ Xpm!Width(made.rows) = W
  BY <1>1, <1>8, Sized
<1>11. ASSUME NEW y \in 1..H, NEW x \in 1..W PROVE Origin(picture, made.rows, y, x) = small[y][x]
  <2>1. CASE ~scaled
    BY <1>5, <1>10, <2>1 DEF Origin, H, W, small, Small
  <2>2. CASE scaled
    <3>1. H = Target /\ W = Target /\ small = Xpm!x11ut__resize_image(picture)
      BY <2>2 DEF H, W, small, Small
    <3>2. small[y][x] = picture[Xpm!Source(y, h)][Xpm!Source(x, w)]
      BY <3>1, Resized
    <3>3. ~(h = Target /\ w = Target)
      BY <1>5, <2>2 DEF Xpm!IconSized
    <3>4. QED
      BY <1>5, <1>10, <3>1, <3>2, <3>3 DEF Origin
  <2>3. QED
    BY <2>1, <2>2
<1>12. ASSUME NEW y \in 1..H, NEW x \in 1..W
       PROVE  Xpm!Distance(made.palette[made.rows[y][x]], Origin(picture, made.rows, y, x)) <= 47
  <2>1. Xpm!Distance(made.palette[made.rows[y][x]], small[y][x]) <= 47
    BY <1>1, <1>3, <1>4, <1>6, <1>7, IconNear
  <2>2. QED
    BY <1>11, <2>1
<1>13. QED
  BY <1>9, <1>12 DEF made

\* Of no picture come no rows.
LEMMA NothingDrawn ==
    /\ Xpm!NoXpm.rows = <<>> /\ Xpm!ToSet(<<>>) = {}
    /\ \A junk : Filled(<<>>, junk) = <<>>
<1>1. \A junk : Filled(<<>>, junk) = <<>>
  BY DEF Filled
<1>2. QED
  BY <1>1 DEF Xpm!NoXpm, Xpm!ToSet

\* At the start there is no picture.
LEMMA PicturesInit == Xpm!Init => PicturesInv
BY NothingDrawn DEF Xpm!Init, PicturesInv, Xpm!TypeOK, Xpm!PictureKept

\* The steps of a picture, one by one.
LEMMA PictureNamed ==
    ASSUME Xpm!XpmAssumption, PicturesInv, Xpm!Name
    PROVE  PicturesInv'
BY NothingDrawn DEF Xpm!Name, PicturesInv, Xpm!TypeOK, Xpm!PictureKept

LEMMA PictureLoaded ==
    ASSUME Xpm!XpmAssumption, PicturesInv, Xpm!LoadFile
    PROVE  PicturesInv'
<1> DEFINE read == Xpm!Load(file)
<1>1. PICK junk \in Levels : pixels' = Filled(read, junk)
  BY DEF Xpm!LoadFile, Filled
<1>2. /\ step = "named" /\ step' = IF read = <<>> THEN "done" ELSE "loaded"
      /\ file' = file /\ xpm' = xpm
  BY DEF Xpm!LoadFile
<1>3. file \in Xpm!File /\ xpm = Xpm!NoXpm
  BY <1>2 DEF PicturesInv
<1>4. CASE read = <<>>
  <2>1. pixels' = <<>> /\ step' = "done"
    BY <1>1, <1>2, <1>4, NothingDrawn
  <2>2. QED
    BY <1>2, <1>3, <2>1, NothingDrawn DEF PicturesInv, Xpm!TypeOK, Xpm!PictureKept
<1>5. CASE read # <<>>
  <2>1. file.picture \in Xpm!Picture
    BY <1>3 DEF Xpm!File
  <2>2. PICK h \in Nat \ {0}, w \in Nat \ {0} :
            file.picture \in Rows(h, w, Levels) /\ h <= Side /\ w <= Side
    BY <2>1, PictureRows
  <2>3. read \in Rows(h, w, Read(Levels)) /\ (Xpm!IsWhole(file) => read = file.picture)
    BY <1>3, <1>5, <2>2, LoadFine
  <2> HIDE DEF read
  <2>4. /\ Filled(read, junk) \in Rows(h, w, Levels)
        /\ read \in Rows(h, w, Levels) => Filled(read, junk) = read
    BY <2>3, FillFine
  <2>5. pixels' \in Xpm!Picture /\ (Xpm!IsWhole(file) => pixels' = file.picture)
    BY <1>1, <2>2, <2>3, <2>4, RowsPicture
  <2>6. step' = "loaded"
    BY <1>2, <1>5
  <2>7. Xpm!IsWhole(file') = Xpm!IsWhole(file)
    BY <1>2
  <2>8. QED
    BY <1>2, <1>3, <2>5, <2>6, <2>7, NothingDrawn DEF PicturesInv, Xpm!TypeOK, Xpm!PictureKept
<1>6. QED
  BY <1>4, <1>5

LEMMA PictureDrawn ==
    ASSUME Xpm!XpmAssumption, PicturesInv, NEW scaled \in BOOLEAN, Xpm!x11ut__convert_image_to_xpm(scaled)
    PROVE  PicturesInv'
<1> DEFINE resized == scaled /\ ~Xpm!IconSized(pixels)
           made == Icon(pixels, resized)
<1>1. /\ step = "loaded" /\ step' = "done" /\ file' = file /\ pixels' = pixels
      /\ xpm' = made \/ xpm' = Xpm!NoXpm
  BY DEF Xpm!x11ut__convert_image_to_xpm, Icon, Small
<1>2. file \in Xpm!File /\ pixels \in Xpm!Picture /\ (Xpm!IsWhole(file) => pixels = file.picture)
  BY <1>1 DEF PicturesInv
<1>3. PICK h \in Nat \ {0}, w \in Nat \ {0} : pixels \in Rows(h, w, Levels) /\ h <= Side /\ w <= Side
  BY <1>2, PictureRows
<1>4. \A row \in Xpm!ToSet(made.rows) : Xpm!ToSet(row) \subseteq DOMAIN made.palette
  BY <1>3, IconTyped
<1>5. Xpm!Cardinality(Xpm!Colours(pixels)) <= Few =>
          \A y \in DOMAIN made.rows : \A x \in DOMAIN made.rows[y] :
              Xpm!Distance(made.palette[made.rows[y][x]], Origin(pixels, made.rows, y, x)) <= 47
  BY <1>3, IconKept
<1> HIDE DEF made
<1>6. Xpm!TypeOK'
  <2>1. \A row \in Xpm!ToSet(xpm'.rows) : Xpm!ToSet(row) \subseteq DOMAIN xpm'.palette
    BY <1>1, <1>4, NothingDrawn
  <2>2. QED
    BY <1>1, <1>2, <2>1 DEF Xpm!TypeOK
<1>7. Xpm!PictureKept'
  <2>1. CASE xpm' = Xpm!NoXpm
    BY <2>1, NothingDrawn DEF Xpm!PictureKept
  <2>2. CASE xpm' = made
    BY <1>1, <1>2, <1>5, <2>2 DEF Xpm!PictureKept, Xpm!Original, Origin
  <2>3. QED
    BY <1>1, <2>1, <2>2
<1>8. QED
  BY <1>1, <1>6, <1>7 DEF PicturesInv

\* A picture is kept by every step.
LEMMA PicturesStep ==
    ASSUME Xpm!XpmAssumption
    PROVE  PicturesInv /\ [Xpm!Next]_pictures => PicturesInv'
<1>1. SUFFICES ASSUME PicturesInv, [Xpm!Next]_pictures PROVE PicturesInv'
  OBVIOUS
<1>2. CASE UNCHANGED pictures
  BY <1>1, <1>2 DEF pictures, PicturesInv, Xpm!TypeOK, Xpm!PictureKept, Xpm!Original
<1>3. CASE Xpm!Name
  BY <1>1, <1>3, PictureNamed
<1>4. CASE Xpm!LoadFile
  BY <1>1, <1>4, PictureLoaded
<1>5. CASE \E scaled \in BOOLEAN : Xpm!x11ut__convert_image_to_xpm(scaled)
  BY <1>1, <1>5, PictureDrawn
<1>6. QED
  BY <1>1, <1>2, <1>3, <1>4, <1>5 DEF Xpm!Next

\* And the invariant says what is checked.
LEMMA PicturesKnow == PicturesInv => Xpm!TypeOK /\ Xpm!PictureKept
BY DEF PicturesInv

---------------------------------------------------------------------------
(* The services, clients and dumps of mdns. *)

\* A response speaks of a record, and, of that record, only to withdraw it.
Mentions(m, r) == \E x \in m.records : x.record = r
OnlyGoodbyes(m, r) == \A x \in m.records : x.record = r => x.ttl = 0

\* A dump with these records in its cache and these responses before it believes in a
\* record or will; what comes from some response on withdraws it.
Believed(known, coming, r) == r \in known \/ \E i \in 1..Len(coming) : Mentions(coming[i], r)
Revoked(coming, r) ==
    \E i \in 1..Len(coming) : /\ Mentions(coming[i], r)
                              /\ \A j \in 1..Len(coming) : j >= i => OnlyGoodbyes(coming[j], r)

\* A datagram came to a service by a socket it has; who wants its answer to himself is
\* a client.
Addressed(s, d) == d.family \in srv[s].socks /\ (d.unicast => d.from \in Clients)

\* A client's question is among those of a datagram.
Bears(d, c, q) == d.from = c /\ d.unicast /\ \E i \in 1..Len(d.questions) : d.questions[i] = q

\* A client has the answer, or is still reading and it is before him, or his question
\* is before the service.
Answered(c, s, q) ==
    LET wanted == Mdns!service_callback(s, q.name, q.type) IN
    \/ wanted \subseteq cli[c].heard
    \/ /\ cli[c].at = "reading"
       /\ \/ \E i \in 1..Len(datagrams[c]) : \A r \in wanted : Mentions(datagrams[c][i], r)
          \/ \E i \in 1..Len(datagrams[s]) : Bears(datagrams[s][i], c, q)
          \/ Bears(srv[s].reading, c, q)

ServiceFine(s) ==
    /\ srv[s].at # "serving" => datagrams[s] = <<>> /\ srv[s].reading = Mdns!Idle
    /\ srv[s].at \in {"off", "failed"} => srv[s].socks = {}
    /\ \A i \in 1..Len(datagrams[s]) : Addressed(s, datagrams[s][i])
    /\ srv[s].reading # Mdns!Idle => Addressed(s, srv[s].reading)

ClientFine(c) ==
    /\ \A s \in cli[c].served : srv[s].at \in {"serving", "left"}
    /\ \A q \in cli[c].asked : q.type \in {"PTR", "SRV", "A", "AAAA"}
    /\ \A s \in cli[c].served, q \in cli[c].asked :
         srv[s].at = "serving" /\ srv[s].running /\ lost \cap {c, s} = {} => Answered(c, s, q)

DumpFine(d) ==
    \A s \in Services : \A r \in Mdns!Announced(s) :
      Believed(cache[d], datagrams[d], r) =>
        /\ srv[s].socks \cap Families[d] # {}
        /\ srv[s].at = "left" /\ d \notin lost => Revoked(datagrams[d], r)

MdnsInv ==
    /\ Mdns!TypeOK
    /\ \A s \in Services : ServiceFine(s)
    /\ \A c \in Clients : ClientFine(c)
    /\ \A d \in Dumps : DumpFine(d)

USE DEF Mdns!Nodes

\* The four names a service knows differ.
LEMMA NamesApart ==
    ASSUME NEW s
    PROVE  /\ Mdns!DnsSd # Mdns!Service /\ Mdns!DnsSd # Mdns!Instance(s) /\ Mdns!DnsSd # Mdns!Hostname(s)
           /\ Mdns!Service # Mdns!Instance(s) /\ Mdns!Service # Mdns!Hostname(s)
           /\ Mdns!Instance(s) # Mdns!Hostname(s)
<1>1. Mdns!Instance(s)[1] # Mdns!Hostname(s)[1]
  BY DEF Mdns!Instance, Mdns!Hostname
<1>2. QED
  BY <1>1 DEF Mdns!DnsSd, Mdns!Service, Mdns!Instance, Mdns!Hostname

\* What a service answers to a question, by the name it is for.
LEMMA CallbackCases ==
    ASSUME NEW s, NEW n, NEW t
    PROVE  /\ n = Mdns!DnsSd => Mdns!service_callback(s, n, t) = IF t \in {"PTR", "ANY"} THEN {Mdns!DnsSdRecord} ELSE {}
           /\ n = Mdns!Service => Mdns!service_callback(s, n, t) = IF t \in {"PTR", "ANY"} THEN Mdns!Announced(s) ELSE {}
           /\ n = Mdns!Instance(s) =>
                Mdns!service_callback(s, n, t)
                  = IF t \in {"SRV", "ANY"} THEN Mdns!Announced(s) \ {Mdns!record_ptr(s)} ELSE {}
           /\ n = Mdns!Hostname(s) =>
                Mdns!service_callback(s, n, t)
                  = IF \/ t \in {"A", "ANY"} /\ Mdns!record_a(s) # {}
                       \/ t \in {"AAAA", "ANY"} /\ Mdns!record_aaaa(s) # {}
                      THEN Mdns!record_a(s) \cup Mdns!record_aaaa(s) \cup {Mdns!txt_record(s)} ELSE {}
           /\ n \notin {Mdns!DnsSd, Mdns!Service, Mdns!Instance(s), Mdns!Hostname(s)} =>
                Mdns!service_callback(s, n, t) = {}
<1>1. Mdns!DnsSd # Mdns!Service /\ Mdns!DnsSd # Mdns!Instance(s) /\ Mdns!DnsSd # Mdns!Hostname(s)
  BY NamesApart
<1>2. Mdns!Service # Mdns!Instance(s) /\ Mdns!Service # Mdns!Hostname(s)
  BY NamesApart
<1>3. Mdns!Instance(s) # Mdns!Hostname(s)
  BY NamesApart
<1>4. CASE n = Mdns!DnsSd
  BY <1>1, <1>4 DEF Mdns!service_callback
<1>5. CASE n = Mdns!Service
  BY <1>1, <1>2, <1>5 DEF Mdns!service_callback
<1>6. CASE n = Mdns!Instance(s)
  BY <1>1, <1>2, <1>3, <1>6 DEF Mdns!service_callback
<1>7. CASE n = Mdns!Hostname(s)
  BY <1>1, <1>2, <1>3, <1>7 DEF Mdns!service_callback
<1>8. CASE n \notin {Mdns!DnsSd, Mdns!Service, Mdns!Instance(s), Mdns!Hostname(s)}
  BY <1>8 DEF Mdns!service_callback
<1>9. QED
  BY <1>1, <1>2, <1>3, <1>4, <1>5, <1>6, <1>7, <1>8

\* A record belongs to one service, or is the one they all have.
LEMMA RecordsApart ==
    /\ \A s, t \in Services : s # t => Mdns!Announced(s) \cap Mdns!Announced(t) = {}
    /\ \A s \in Services : Mdns!DnsSdRecord \notin Mdns!Announced(s)
    /\ \A s \in Services : Mdns!Announced(s) \subseteq Mdns!Records
    /\ \A s \in Services : \A n, t :
         /\ Mdns!service_callback(s, n, t) \subseteq Mdns!Records
         /\ Mdns!service_callback(s, n, t) \subseteq Mdns!Announced(s) \cup {Mdns!DnsSdRecord}
<1>1. \A s, t \in Services : s # t => Mdns!Announced(s) \cap Mdns!Announced(t) = {}
  BY DEF Mdns!Announced, Mdns!record_ptr, Mdns!record_srv, Mdns!txt_record, Mdns!record_a, Mdns!record_aaaa,
         Mdns!Record, Mdns!Instance, Mdns!Hostname, Mdns!Service
<1>2. \A s \in Services : Mdns!DnsSdRecord \notin Mdns!Announced(s)
  BY DEF Mdns!Announced, Mdns!record_ptr, Mdns!record_srv, Mdns!txt_record, Mdns!record_a, Mdns!record_aaaa,
         Mdns!Record, Mdns!Instance, Mdns!Hostname, Mdns!Service, Mdns!DnsSdRecord, Mdns!DnsSd
<1>3. \A s \in Services : Mdns!Announced(s) \subseteq Mdns!Records
  BY DEF Mdns!Records
<1>4. ASSUME NEW s \in Services, NEW n, NEW t
      PROVE  Mdns!service_callback(s, n, t) \subseteq Mdns!Announced(s) \cup {Mdns!DnsSdRecord}
  <2>1. QED
    BY CallbackCases DEF Mdns!Announced
<1>5. Mdns!DnsSdRecord \in Mdns!Records
  BY DEF Mdns!Records
<1>6. QED
  BY <1>1, <1>2, <1>3, <1>4, <1>5

\* The kinds of records there are.
LEMMA RecordKinds ==
    ASSUME NEW s
    PROVE  /\ \A r \in Mdns!Announced(s) :
                \/ r = Mdns!record_ptr(s) \/ r = Mdns!record_srv(s) \/ r = Mdns!txt_record(s)
                \/ r \in Mdns!record_a(s) \/ r \in Mdns!record_aaaa(s)
           /\ Mdns!record_ptr(s).type = "PTR" /\ Mdns!record_ptr(s).name = Mdns!Service
           /\ Mdns!record_ptr(s).value = Mdns!Instance(s)
           /\ Mdns!record_srv(s).type = "SRV" /\ Mdns!record_srv(s).name = Mdns!Instance(s)
           /\ Mdns!record_srv(s).value = Mdns!Hostname(s)
           /\ Mdns!txt_record(s).type = "TXT" /\ Mdns!txt_record(s).name = Mdns!Instance(s)
           /\ \A r \in Mdns!record_a(s) : r.type = "A" /\ r.name = Mdns!Hostname(s)
           /\ \A r \in Mdns!record_aaaa(s) : r.type = "AAAA" /\ r.name = Mdns!Hostname(s)
           /\ Mdns!DnsSdRecord.type = "PTR" /\ Mdns!DnsSdRecord.name = Mdns!DnsSd
           /\ Mdns!DnsSdRecord.value = Mdns!Service
           /\ Mdns!record_ptr(s) \in Mdns!Announced(s) /\ Mdns!record_srv(s) \in Mdns!Announced(s)
           /\ Mdns!record_a(s) \cup Mdns!record_aaaa(s) \cup {Mdns!txt_record(s)} \subseteq Mdns!Announced(s)
  BY DEF Mdns!Announced, Mdns!record_ptr, Mdns!record_srv, Mdns!txt_record, Mdns!record_a, Mdns!record_aaaa,
         Mdns!Record, Mdns!DnsSdRecord

\* What a service answers holds all that was asked for, and the way to an address.
LEMMA WayKnown ==
    ASSUME NEW s \in Services, NEW q, q.type \in {"PTR", "SRV", "A", "AAAA"}
    PROVE  Mdns!Follow(s, Mdns!Follow(s, Mdns!Direct(s, q))) \subseteq Mdns!service_callback(s, q.name, q.type)
<1> DEFINE wanted == Mdns!service_callback(s, q.name, q.type)
<1>1. Mdns!DnsSd # Mdns!Service /\ Mdns!DnsSd # Mdns!Instance(s) /\ Mdns!DnsSd # Mdns!Hostname(s)
      /\ Mdns!Service # Mdns!Instance(s) /\ Mdns!Service # Mdns!Hostname(s) /\ Mdns!Instance(s) # Mdns!Hostname(s)
  BY NamesApart
<1>2. Mdns!Direct(s, q) \subseteq wanted /\ \A R : R \subseteq wanted => Mdns!Follow(s, R) \subseteq wanted
  <2>1. CASE q.name = Mdns!DnsSd
    BY <1>1, <2>1, CallbackCases, RecordKinds DEF Mdns!Direct, Mdns!Follow
  <2>2. CASE q.name = Mdns!Service
    BY <1>1, <2>2, CallbackCases, RecordKinds DEF Mdns!Direct, Mdns!Follow
  <2>3. CASE q.name = Mdns!Instance(s)
    BY <1>1, <2>3, CallbackCases, RecordKinds DEF Mdns!Direct, Mdns!Follow
  <2>4. CASE q.name = Mdns!Hostname(s)
    BY <1>1, <2>4, CallbackCases, RecordKinds DEF Mdns!Direct, Mdns!Follow
  <2>5. CASE q.name \notin {Mdns!DnsSd, Mdns!Service, Mdns!Instance(s), Mdns!Hostname(s)}
    BY <1>1, <2>5, CallbackCases, RecordKinds DEF Mdns!Direct, Mdns!Follow
  <2>6. QED
    BY <2>1, <2>2, <2>3, <2>4, <2>5
<1>3. Mdns!Follow(s, Mdns!Follow(s, Mdns!Direct(s, q))) \subseteq wanted
  <2> HIDE DEF wanted
  <2>1. QED
    BY <1>2
<1>4. QED
  BY <1>3

\* The places of two sequences, one after the other.
LEMMA Joined ==
    ASSUME NEW S, NEW Q \in Seq(S), NEW e \in Seq(S)
    PROVE  /\ Len(Q \o e) = Len(Q) + Len(e) /\ Len(Q) \in Nat /\ Len(e) \in Nat
           /\ \A i \in 1..Len(Q) : (Q \o e)[i] = Q[i]
           /\ \A i \in 1..Len(e) : (Q \o e)[Len(Q) + i] = e[i]
           /\ \A i \in 1..(Len(Q) + Len(e)) : i \in 1..Len(Q) \/ \E k \in 1..Len(e) : i = Len(Q) + k
           /\ Q \o e \in Seq(S)
<1>1. Q \o e \in Seq(S) /\ Len(Q \o e) = Len(Q) + Len(e) /\ Len(Q) \in Nat /\ Len(e) \in Nat
  OBVIOUS
<1>2. \A i \in 1..Len(Q) : (Q \o e)[i] = Q[i]
  OBVIOUS
<1>3. \A i \in 1..Len(e) : (Q \o e)[Len(Q) + i] = e[i]
  BY <1>1
<1>4. ASSUME NEW i \in 1..(Len(Q) + Len(e)), i \notin 1..Len(Q)
      PROVE  \E k \in 1..Len(e) : i = Len(Q) + k
  <2>1. i - Len(Q) \in 1..Len(e) /\ i = Len(Q) + (i - Len(Q))
    BY <1>1, <1>4
  <2>2. QED
    BY <2>1
<1>5. QED
  BY <1>1, <1>2, <1>3, <1>4

\* One datagram goes out for each socket.
LEMMA OnEachFine ==
    ASSUME NEW d, DOMAIN d \subseteq {4, 6}, NEW S, \A f \in DOMAIN d : d[f] \in S
    PROVE  /\ Mdns!OnEach(d) \in Seq(S) /\ (Mdns!OnEach(d) = <<>> <=> DOMAIN d = {})
           /\ \A f \in DOMAIN d : \E i \in 1..Len(Mdns!OnEach(d)) : Mdns!OnEach(d)[i] = d[f]
           /\ \A i \in 1..Len(Mdns!OnEach(d)) : \E f \in DOMAIN d : Mdns!OnEach(d)[i] = d[f]
<1>1. CASE 4 \in DOMAIN d /\ 6 \in DOMAIN d
  <2>1. Mdns!OnEach(d) = <<d[4]>> \o <<d[6]>>
    BY <1>1 DEF Mdns!OnEach
  <2>2. d[4] \in S /\ d[6] \in S /\ DOMAIN d = {4, 6}
    BY <1>1
  <2>3. /\ <<d[4]>> \in Seq(S) /\ <<d[6]>> \in Seq(S) /\ Len(<<d[4]>>) = 1 /\ Len(<<d[6]>>) = 1
        /\ <<d[4]>>[1] = d[4] /\ <<d[6]>>[1] = d[6]
    BY <2>2
  <2>4. /\ Mdns!OnEach(d) \in Seq(S) /\ Len(Mdns!OnEach(d)) = 2
        /\ Mdns!OnEach(d)[1] = d[4] /\ Mdns!OnEach(d)[2] = d[6]
    BY <2>1, <2>3, Joined
  <2>5. QED
    BY <2>2, <2>4
<1>2. CASE 4 \in DOMAIN d /\ 6 \notin DOMAIN d
  <2>1. Mdns!OnEach(d) = <<d[4]>>
    BY <1>2 DEF Mdns!OnEach
  <2>2. QED
    BY <1>2, <2>1
<1>3. CASE 4 \notin DOMAIN d /\ 6 \in DOMAIN d
  <2>1. Mdns!OnEach(d) = <<d[6]>>
    BY <1>3 DEF Mdns!OnEach
  <2>2. QED
    BY <1>3, <2>1
<1>4. CASE DOMAIN d = {}
  <2>1. Mdns!OnEach(d) = <<>>
    BY <1>4 DEF Mdns!OnEach
  <2>2. QED
    BY <1>4, <2>1
<1>5. QED
  BY <1>1, <1>2, <1>3, <1>4

\* Responses that follow do not make a dump forget, nor believe in what they do not say.
LEMMA ToldMore ==
    ASSUME NEW S, NEW Q \in Seq(S), NEW e \in Seq(S), NEW known, NEW r
    PROVE  /\ Believed(known, Q \o e, r) => Believed(known, Q, r) \/ \E i \in 1..Len(e) : Mentions(e[i], r)
           /\ Revoked(Q, r) /\ (\A i \in 1..Len(e) : OnlyGoodbyes(e[i], r)) => Revoked(Q \o e, r)
           /\ e # <<>> /\ (\A i \in 1..Len(e) : Mentions(e[i], r) /\ OnlyGoodbyes(e[i], r)) => Revoked(Q \o e, r)
<1>1. /\ Len(Q \o e) = Len(Q) + Len(e) /\ Len(Q) \in Nat /\ Len(e) \in Nat
      /\ \A i \in 1..Len(Q) : (Q \o e)[i] = Q[i]
      /\ \A i \in 1..Len(e) : (Q \o e)[Len(Q) + i] = e[i]
      /\ \A i \in 1..(Len(Q) + Len(e)) : i \in 1..Len(Q) \/ \E k \in 1..Len(e) : i = Len(Q) + k
  BY Joined
<1>2. Believed(known, Q \o e, r) => Believed(known, Q, r) \/ \E i \in 1..Len(e) : Mentions(e[i], r)
  <2>1. ASSUME NEW i \in 1..(Len(Q) + Len(e)), Mentions((Q \o e)[i], r)
        PROVE  Believed(known, Q, r) \/ \E k \in 1..Len(e) : Mentions(e[k], r)
    BY <1>1, <2>1 DEF Believed
  <2>2. QED
    BY <1>1, <2>1 DEF Believed
<1>3. ASSUME Revoked(Q, r), \A i \in 1..Len(e) : OnlyGoodbyes(e[i], r) PROVE Revoked(Q \o e, r)
  <2>1. PICK i \in 1..Len(Q) : Mentions(Q[i], r) /\ \A j \in 1..Len(Q) : j >= i => OnlyGoodbyes(Q[j], r)
    BY <1>3 DEF Revoked
  <2>2. i \in 1..Len(Q \o e) /\ Mentions((Q \o e)[i], r)
    BY <1>1, <2>1
  <2>3. ASSUME NEW j \in 1..Len(Q \o e), j >= i PROVE OnlyGoodbyes((Q \o e)[j], r)
    BY <1>1, <1>3, <2>1, <2>3
  <2>4. QED
    BY <2>2, <2>3 DEF Revoked
<1>4. ASSUME e # <<>>, \A i \in 1..Len(e) : Mentions(e[i], r) /\ OnlyGoodbyes(e[i], r)
      PROVE  Revoked(Q \o e, r)
  <2>1. Len(e) >= 1
    BY <1>4
  <2>2. Len(Q) + 1 \in 1..Len(Q \o e) /\ Mentions((Q \o e)[Len(Q) + 1], r)
    <3>1. 1 \in 1..Len(e)
      BY <1>1, <2>1
    <3>2. QED
      BY <1>1, <1>4, <3>1
  <2>3. ASSUME NEW j \in 1..Len(Q \o e), j >= Len(Q) + 1 PROVE OnlyGoodbyes((Q \o e)[j], r)
    BY <1>1, <1>4, <2>3
  <2>4. QED
    BY <2>2, <2>3 DEF Revoked
<1>5. QED
  BY <1>2, <1>3, <1>4

\* A queue is as it was, perhaps with more behind.
Grows(p, q) == Len(p) \in Nat /\ Len(q) \in Nat /\ Len(p) <= Len(q) /\ \A i \in 1..Len(p) : q[i] = p[i]

\* Responses that all say the same.
AllSay(e, records, ttl) == \A i \in 1..Len(e) : e[i] = Mdns!Response(records, ttl)

\* To some responses, more are added that all say the same: none if a node has no
\* socket for them.
Heard(p, h, records, ttl, socks, d) ==
    \E e \in Seq(Mdns!Responses) :
       /\ h = p \o e
       /\ e = <<>> <=> socks \cap Families[d] = {}
       /\ AllSay(e, records, ttl)

\* To some questions, one is added for each socket in common.
Asked(p, h, n, questions, common, u) ==
    \E e \in Seq(Mdns!Datagrams) :
       /\ h = p \o e
       /\ e = <<>> <=> common = {}
       /\ \A i \in 1..Len(e) : \E f \in common : e[i] = Mdns!Asks(n, questions, f, u)

\* What the constants are assumed to be.
LEMMA MdnsConstants ==
    /\ Services \cap Clients = {} /\ Services \cap Dumps = {} /\ Clients \cap Dumps = {} /\ None \notin Clients
    /\ \A n \in Mdns!Nodes : Families[n] \subseteq {4, 6}
    /\ \A r \in Requests : r \in Seq(Mdns!ToSet(r))
    /\ \A r \in Requests : \A q \in Mdns!ToSet(r) : q = [name |-> q.name, type |-> q.type]
    /\ MaxForeign \in Nat
  BY DesktopAssumption DEF Mdns!MdnsAssumption

\* What a response mentions.
LEMMA ResponseFine ==
    ASSUME NEW records \in SUBSET Mdns!Records, NEW ttl \in {0, 10, 60}
    PROVE  /\ Mdns!Response(records, ttl) \in Mdns!Responses
           /\ \A r : Mentions(Mdns!Response(records, ttl), r) <=> r \in records
           /\ \A r : r \notin records \/ ttl = 0 => OnlyGoodbyes(Mdns!Response(records, ttl), r)
<1>1. Mdns!Response(records, ttl).records = {[record |-> r, ttl |-> ttl] : r \in records}
  BY DEF Mdns!Response, Mdns!mdns_record_update_rclass_ttl
<1>2. Mdns!Response(records, ttl) = [records |-> {[record |-> r, ttl |-> ttl] : r \in records}]
  BY DEF Mdns!Response, Mdns!mdns_record_update_rclass_ttl
<1>3. {[record |-> r, ttl |-> ttl] : r \in records} \subseteq [record : Mdns!Records, ttl : {0, 10, 60}]
  OBVIOUS
<1>4. Mdns!Response(records, ttl) \in Mdns!Responses
  BY <1>2, <1>3 DEF Mdns!Responses
<1>5. \A x \in Mdns!Response(records, ttl).records : x.record \in records /\ x.ttl = ttl
  BY <1>1
<1>6. ASSUME NEW r \in records PROVE \E x \in Mdns!Response(records, ttl).records : x.record = r
  <2>1. [record |-> r, ttl |-> ttl] \in Mdns!Response(records, ttl).records
    BY <1>1
  <2>2. [record |-> r, ttl |-> ttl].record = r
    OBVIOUS
  <2>3. QED
    BY <2>1, <2>2
<1>7. QED
  BY <1>4, <1>5, <1>6 DEF Mentions, OnlyGoodbyes

\* Dumps with a socket of the family hear what is multicast, and nobody else does.
LEMMA HearOthers ==
    ASSUME NEW q, NEW records, NEW socks, NEW ttl
    PROVE  /\ DOMAIN Mdns!Hear(q, records, socks, ttl) = Mdns!Nodes
           /\ \A n \in Mdns!Nodes \ Dumps : Mdns!Hear(q, records, socks, ttl)[n] = q[n]
  BY DEF Mdns!Hear

LEMMA HearFine ==
    ASSUME NEW q, NEW d \in Dumps, q[d] \in Seq(Mdns!Responses),
           NEW records \in SUBSET Mdns!Records, NEW socks, NEW ttl \in {0, 10, 60}
    PROVE  Heard(q[d], Mdns!Hear(q, records, socks, ttl)[d], records, ttl, socks, d)
<1> DEFINE sent == [f \in socks \cap Families[d] |-> Mdns!Response(records, ttl)]
           e == Mdns!OnEach(sent)
<1>1. Mdns!Hear(q, records, socks, ttl)[d] = q[d] \o e
  BY DEF Mdns!Hear
<1>2. DOMAIN sent \subseteq {4, 6} /\ DOMAIN sent = socks \cap Families[d]
  BY MdnsConstants
<1>3. \A f \in DOMAIN sent : sent[f] = Mdns!Response(records, ttl)
  OBVIOUS
<1>4. Mdns!Response(records, ttl) \in Mdns!Responses
  BY ResponseFine
<1> HIDE DEF sent
<1>5. \A f \in DOMAIN sent : sent[f] \in Mdns!Responses
  BY <1>3, <1>4
<1>6. /\ e \in Seq(Mdns!Responses) /\ (e = <<>> <=> DOMAIN sent = {})
      /\ \A i \in 1..Len(e) : \E f \in DOMAIN sent : e[i] = sent[f]
  BY <1>2, <1>5, OnEachFine
<1> HIDE DEF e
<1>7. \A i \in 1..Len(e) : e[i] = Mdns!Response(records, ttl)
  BY <1>3, <1>6
<1>8. QED
  BY <1>1, <1>2, <1>6, <1>7 DEF Heard, AllSay

\* What a dump believes after such a response.
LEMMA DumpBelieves ==
    ASSUME NEW records \in SUBSET Mdns!Records, NEW ttl \in {0, 10, 60},
           NEW Q \in Seq(Mdns!Responses), NEW e \in Seq(Mdns!Responses), AllSay(e, records, ttl),
           NEW known, NEW r, Believed(known, Q \o e, r)
    PROVE  Believed(known, Q, r) \/ (r \in records /\ e # <<>>)
<1>1. \A i \in 1..Len(e) : Mentions(e[i], r) <=> r \in records
  BY ResponseFine DEF AllSay
<1>2. \A i \in 1..Len(e) : e # <<>>
  OBVIOUS
<1>3. QED
  BY <1>1, <1>2, ToldMore

\* What is still withdrawn, and what is withdrawn now.
LEMMA DumpForgets ==
    ASSUME NEW records \in SUBSET Mdns!Records, NEW ttl \in {0, 10, 60},
           NEW Q \in Seq(Mdns!Responses), NEW e \in Seq(Mdns!Responses), AllSay(e, records, ttl), NEW r,
           \/ r \notin records /\ Revoked(Q, r)
           \/ r \in records /\ ttl = 0 /\ e # <<>>
    PROVE  Revoked(Q \o e, r)
<1>1. \A i \in 1..Len(e) : Mentions(e[i], r) <=> r \in records
  BY ResponseFine DEF AllSay
<1>2. \A i \in 1..Len(e) : r \notin records \/ ttl = 0 => OnlyGoodbyes(e[i], r)
  BY ResponseFine DEF AllSay
<1>3. QED
  BY <1>1, <1>2, ToldMore

\* A datagram comes to each service that has the socket.
LEMMA SendsFine ==
    ASSUME Mdns!TypeOK, NEW n \in Clients \cup {None}, NEW questions \in Seq(Mdns!Questions),
           NEW socks \in SUBSET {4, 6}, NEW u \in BOOLEAN
    PROVE  /\ DOMAIN Mdns!mdns_multicast_send(n, questions, socks, u) = Mdns!Nodes
           /\ \A m \in Mdns!Nodes : ~(m \in Services /\ srv[m].at = "serving") => Mdns!mdns_multicast_send(n, questions, socks, u)[m] = datagrams[m]
           /\ \A m \in Services : srv[m].at = "serving" =>
                Asked(datagrams[m], Mdns!mdns_multicast_send(n, questions, socks, u)[m], n, questions,
                      socks \cap srv[m].socks, u)
<1>1. /\ DOMAIN Mdns!mdns_multicast_send(n, questions, socks, u) = Mdns!Nodes
      /\ \A m \in Mdns!Nodes : ~(m \in Services /\ srv[m].at = "serving") => Mdns!mdns_multicast_send(n, questions, socks, u)[m] = datagrams[m]
  BY DEF Mdns!mdns_multicast_send
<1>2. ASSUME NEW m \in Services, srv[m].at = "serving"
      PROVE  Asked(datagrams[m], Mdns!mdns_multicast_send(n, questions, socks, u)[m], n, questions,
                   socks \cap srv[m].socks, u)
  <2> DEFINE sent == [f \in socks \cap srv[m].socks |-> Mdns!Asks(n, questions, f, u)]
             e == Mdns!OnEach(sent)
  <2>1. Mdns!mdns_multicast_send(n, questions, socks, u)[m] = datagrams[m] \o e
    BY <1>2 DEF Mdns!mdns_multicast_send
  <2>2. DOMAIN sent \subseteq {4, 6} /\ DOMAIN sent = socks \cap srv[m].socks
    OBVIOUS
  <2>3. \A f \in DOMAIN sent : sent[f] = Mdns!Asks(n, questions, f, u)
    OBVIOUS
  <2>4. \A f \in {4, 6} : Mdns!Asks(n, questions, f, u) \in Mdns!Datagrams
    BY DEF Mdns!Asks, Mdns!Datagrams
  <2> HIDE DEF sent
  <2>5. \A f \in DOMAIN sent : sent[f] \in Mdns!Datagrams
    BY <2>2, <2>3, <2>4
  <2>6. e \in Seq(Mdns!Datagrams) /\ (e = <<>> <=> DOMAIN sent = {})
    BY <2>2, <2>5, OnEachFine
  <2>7. \A i \in 1..Len(e) : \E f \in DOMAIN sent : e[i] = sent[f]
    BY <2>2, <2>5, OnEachFine
  <2> HIDE DEF e
  <2>8. \A i \in 1..Len(e) : \E f \in socks \cap srv[m].socks : e[i] = Mdns!Asks(n, questions, f, u)
    BY <2>2, <2>3, <2>7
  <2>9. QED
    BY <2>1, <2>2, <2>6, <2>8 DEF Asked
<1>3. QED
  BY <1>1, <1>2

\* An answer stays one while queues only get longer.
LEMMA AnswerKept ==
    ASSUME NEW c, NEW s, NEW q, Answered(c, s, q), cli'[c] = cli[c], srv'[s].reading = srv[s].reading,
           Grows(datagrams[c], datagrams'[c]), Grows(datagrams[s], datagrams'[s])
    PROVE  Answered(c, s, q)'
<1> DEFINE wanted == Mdns!service_callback(s, q.name, q.type)
<1>1. CASE wanted \subseteq cli[c].heard
  BY <1>1 DEF Answered
<1>2. ASSUME cli[c].at = "reading", NEW i \in 1..Len(datagrams[c]), \A r \in wanted : Mentions(datagrams[c][i], r)
      PROVE  Answered(c, s, q)'
  <2>1. i \in 1..Len(datagrams'[c]) /\ datagrams'[c][i] = datagrams[c][i]
    BY DEF Grows
  <2>2. QED
    BY <1>2, <2>1 DEF Answered
<1>3. ASSUME cli[c].at = "reading", NEW i \in 1..Len(datagrams[s]), Bears(datagrams[s][i], c, q)
      PROVE  Answered(c, s, q)'
  <2>1. i \in 1..Len(datagrams'[s]) /\ datagrams'[s][i] = datagrams[s][i]
    BY DEF Grows
  <2>2. QED
    BY <1>3, <2>1 DEF Answered, Bears
<1>4. CASE cli[c].at = "reading" /\ Bears(srv[s].reading, c, q)
  BY <1>4 DEF Answered, Bears
<1>5. QED
  BY <1>1, <1>2, <1>3, <1>4 DEF Answered

\* Queues that are typed are long as they are.
LEMMA GrowsFine ==
    /\ \A S : \A Q \in Seq(S) : Grows(Q, Q)
    /\ \A S : \A Q, e \in Seq(S) : Grows(Q, Q \o e)
<1>1. ASSUME NEW S, NEW Q \in Seq(S) PROVE Grows(Q, Q)
  BY DEF Grows
<1>2. ASSUME NEW S, NEW Q \in Seq(S), NEW e \in Seq(S) PROVE Grows(Q, Q \o e)
  BY Joined DEF Grows
<1>3. QED
  BY <1>1, <1>2

\* A service for which nothing has changed.
LEMMA SameService ==
    ASSUME NEW t, ServiceFine(t), srv'[t] = srv[t], datagrams'[t] = datagrams[t]
    PROVE  ServiceFine(t)'
  BY DEF ServiceFine, Addressed

\* A client who hears no more, of services that serve no longer, or as before.
LEMMA ClientKept ==
    ASSUME NEW c, ClientFine(c), cli'[c] = cli[c], lost' = lost, Grows(datagrams[c], datagrams'[c]),
           \A s \in cli[c].served :
              /\ srv'[s].at \in {srv[s].at, "left"} /\ (srv'[s].running => srv[s].running)
              /\ srv'[s].at = "serving" =>
                    srv'[s].reading = srv[s].reading /\ Grows(datagrams[s], datagrams'[s])
    PROVE  ClientFine(c)'
<1>1. ASSUME NEW s \in cli'[c].served, NEW q \in cli'[c].asked,
             srv'[s].at = "serving", srv'[s].running, lost' \cap {c, s} = {}
      PROVE  Answered(c, s, q)'
  <2>1. srv[s].at = "serving" /\ srv[s].running /\ lost \cap {c, s} = {}
    BY <1>1
  <2>2. Answered(c, s, q)
    BY <1>1, <2>1 DEF ClientFine
  <2>3. QED
    BY <1>1, <2>2, AnswerKept
<1>2. \A s \in cli'[c].served : srv'[s].at \in {"serving", "left"}
  BY DEF ClientFine
<1>3. \A q \in cli'[c].asked : q.type \in {"PTR", "SRV", "A", "AAAA"}
  BY DEF ClientFine
<1>4. QED
  BY <1>1, <1>2, <1>3 DEF ClientFine

\* What a dump believes after a multicast.
LEMMA HeardBelieves ==
    ASSUME NEW Q \in Seq(Mdns!Responses), NEW records \in SUBSET Mdns!Records, NEW ttl \in {0, 10, 60},
           NEW socks, NEW d, NEW h, Heard(Q, h, records, ttl, socks, d), NEW known, NEW r, Believed(known, h, r)
    PROVE  Believed(known, Q, r) \/ (r \in records /\ socks \cap Families[d] # {})
<1>1. PICK e \in Seq(Mdns!Responses) : /\ h = Q \o e
                                       /\ e = <<>> <=> socks \cap Families[d] = {}
                                       /\ AllSay(e, records, ttl)
  BY DEF Heard
<1>2. Believed(known, Q, r) \/ (r \in records /\ e # <<>>)
  BY <1>1, DumpBelieves
<1>3. QED
  BY <1>1, <1>2

\* What stays withdrawn, and what is.
LEMMA HeardForgets ==
    ASSUME NEW Q \in Seq(Mdns!Responses), NEW records \in SUBSET Mdns!Records, NEW ttl \in {0, 10, 60},
           NEW socks, NEW d, NEW h, Heard(Q, h, records, ttl, socks, d), NEW r, r \notin records, Revoked(Q, r)
    PROVE  Revoked(h, r)
<1>1. PICK e \in Seq(Mdns!Responses) : h = Q \o e /\ AllSay(e, records, ttl)
  BY DEF Heard
<1>2. Revoked(Q \o e, r)
  BY <1>1, DumpForgets
<1>3. QED
  BY <1>1, <1>2

LEMMA HeardGoodbye ==
    ASSUME NEW Q \in Seq(Mdns!Responses), NEW records \in SUBSET Mdns!Records,
           NEW socks, NEW d, NEW h, Heard(Q, h, records, 0, socks, d), NEW r \in records,
           socks \cap Families[d] # {}
    PROVE  Revoked(h, r)
<1>1. PICK e \in Seq(Mdns!Responses) : h = Q \o e /\ e # <<>> /\ AllSay(e, records, 0)
  BY DEF Heard
<1>2. Revoked(Q \o e, r)
  BY <1>1, DumpForgets
<1>3. QED
  BY <1>1, <1>2

\* What it hears is typed.
LEMMA HeardTyped ==
    ASSUME NEW Q \in Seq(Mdns!Responses), NEW records, NEW ttl, NEW socks, NEW d, NEW h,
           Heard(Q, h, records, ttl, socks, d)
    PROVE  h \in Seq(Mdns!Responses)
  BY Joined DEF Heard

\* Nobody has asked, answered or heard.
LEMMA MdnsInit == Mdns!Init => MdnsInv
<1> SUFFICES ASSUME Mdns!Init PROVE MdnsInv
  OBVIOUS
<1>1. Mdns!Idle \in Mdns!Datagrams
  <2>1. <<>> \in Seq(Mdns!Questions)
    OBVIOUS
  <2>2. QED
    BY <2>1 DEF Mdns!Idle, Mdns!Asks, Mdns!Datagrams
<1>2. Mdns!TypeOK
  BY <1>1, MdnsConstants DEF Mdns!Init, Mdns!TypeOK
<1>3. \A s \in Services : ServiceFine(s)
  BY DEF Mdns!Init, ServiceFine
<1>4. \A c \in Clients : ClientFine(c)
  BY DEF Mdns!Init, ClientFine
<1>5. ASSUME NEW d \in Dumps PROVE DumpFine(d)
  BY DEF Mdns!Init, DumpFine, Believed
<1>6. QED
  BY <1>2, <1>3, <1>4, <1>5 DEF MdnsInv

\* A service that starts is believed in by dumps it has a socket for.
LEMMA ServiceStarts == ASSUME MdnsInv, NEW s \in Services, Mdns!service_mdns(s) PROVE MdnsInv'
<1>1. PICK socks \in SUBSET {4, 6} :
        /\ srv[s].at = "off"
        /\ srv' = [srv EXCEPT ![s].at = IF socks = {} THEN "failed" ELSE "serving", ![s].socks = socks]
        /\ datagrams' = Mdns!Hear(datagrams, Mdns!Announced(s), socks, 60)
        /\ UNCHANGED <<cli, cache, foreign, lost>>
  BY DEF Mdns!service_mdns, Mdns!open_service_sockets, Mdns!mdns_announce_multicast
<1>2. /\ Mdns!TypeOK /\ \A t \in Services : ServiceFine(t)
      /\ \A c \in Clients : ClientFine(c)
      /\ \A d \in Dumps : DumpFine(d)
  BY DEF MdnsInv
<1>3. /\ DOMAIN srv' = Services
      /\ \A t \in Services \ {s} : srv'[t] = srv[t]
      /\ srv'[s].at = (IF socks = {} THEN "failed" ELSE "serving") /\ srv'[s].socks = socks
      /\ srv'[s].reading = srv[s].reading /\ srv'[s].running = srv[s].running
      /\ srv' \in [Services -> [at : {"off", "serving", "left", "failed"}, socks : SUBSET {4, 6},
                                running : BOOLEAN, reading : Mdns!Datagrams]]
  <2>1. srv \in [Services -> [at : {"off", "serving", "left", "failed"}, socks : SUBSET {4, 6},
                             running : BOOLEAN, reading : Mdns!Datagrams]]
    BY <1>2 DEF Mdns!TypeOK
  <2> DEFINE now == IF socks = {} THEN "failed" ELSE "serving"
  <2>2. now \in {"off", "serving", "left", "failed"}
    OBVIOUS
  <2>3. srv' = [srv EXCEPT ![s].at = now, ![s].socks = socks]
    BY <1>1
  <2> HIDE DEF now
  <2>4. srv'[s] = [at |-> now, socks |-> socks, running |-> srv[s].running, reading |-> srv[s].reading]
    <3>1. srv[s] \in [at : {"off", "serving", "left", "failed"}, socks : SUBSET {4, 6},
                      running : BOOLEAN, reading : Mdns!Datagrams]
      BY <2>1
    <3>2. s \in DOMAIN srv
      BY <2>1
    <3>3. srv'[s] = [[srv[s] EXCEPT !.at = now] EXCEPT !.socks = socks]
      BY <2>3, <3>2
    <3>4. QED
      BY <3>1, <3>3
  <2>5. DOMAIN srv' = Services /\ \A t \in Services \ {s} : srv'[t] = srv[t]
    BY <2>1, <2>3
  <2>6. srv' \in [Services -> [at : {"off", "serving", "left", "failed"}, socks : SUBSET {4, 6},
                              running : BOOLEAN, reading : Mdns!Datagrams]]
    <3> DEFINE R == [at : {"off", "serving", "left", "failed"}, socks : SUBSET {4, 6},
                     running : BOOLEAN, reading : Mdns!Datagrams]
    <3>1. srv[s] \in R
      BY <2>1
    <3>2. srv'[s] \in R
      BY <2>2, <2>4, <3>1
    <3>3. ASSUME NEW t \in Services PROVE srv'[t] \in R
      BY <2>1, <2>5, <3>2
    <3>4. srv' = [t \in Services |-> srv'[t]]
      BY <2>1, <2>3
    <3> HIDE DEF R
    <3>5. srv' \in [Services -> R]
      BY <3>3, <3>4
    <3>6. QED
      BY <3>5 DEF R
  <2>7. QED
    BY <2>4, <2>5, <2>6 DEF now
<1>4. Mdns!Announced(s) \in SUBSET Mdns!Records
  BY RecordsApart
<1>5. DOMAIN datagrams = Mdns!Nodes /\ \A d \in Dumps : datagrams[d] \in Seq(Mdns!Responses)
  BY <1>2 DEF Mdns!TypeOK
<1>6. /\ DOMAIN datagrams' = Mdns!Nodes
      /\ \A n \in Mdns!Nodes \ Dumps : datagrams'[n] = datagrams[n]
      /\ \A d \in Dumps : Heard(datagrams[d], datagrams'[d], Mdns!Announced(s), 60, socks, d)
  <2>1. /\ DOMAIN datagrams' = Mdns!Nodes
        /\ \A n \in Mdns!Nodes \ Dumps : datagrams'[n] = datagrams[n]
    BY <1>1, HearOthers
  <2>2. ASSUME NEW d \in Dumps
        PROVE  Heard(datagrams[d], datagrams'[d], Mdns!Announced(s), 60, socks, d)
    BY <1>1, <1>4, <1>5, HearFine
  <2>3. QED
    BY <2>1, <2>2
<1>7. /\ \A t \in Services : datagrams'[t] = datagrams[t]
      /\ \A c \in Clients : datagrams'[c] = datagrams[c]
  BY <1>6, MdnsConstants
<1>8. Mdns!TypeOK'
  <2>1. \A d \in Dumps : datagrams'[d] \in Seq(Mdns!Responses)
    BY <1>4, <1>5, <1>6, HeardTyped
  <2>2. \A t \in Services : datagrams'[t] \in Seq(Mdns!Datagrams)
    BY <1>2, <1>7 DEF Mdns!TypeOK
  <2>3. \A n \in Clients \cup Dumps : datagrams'[n] \in Seq(Mdns!Responses)
    BY <1>2, <1>7, <2>1 DEF Mdns!TypeOK
  <2>4. cli' = cli /\ cache' = cache /\ foreign' = foreign /\ lost' = lost
    BY <1>1
  <2>5. DOMAIN datagrams' = Mdns!Nodes
    BY <1>6
  <2>6. QED
    BY <1>2, <1>3, <2>2, <2>3, <2>4, <2>5 DEF Mdns!TypeOK
<1>9. ASSUME NEW t \in Services PROVE ServiceFine(t)'
  <2>1. ServiceFine(t)
    BY <1>2
  <2>2. CASE t = s
    BY <1>1, <1>3, <1>7, <2>1, <2>2 DEF ServiceFine, Addressed
  <2>3. CASE t # s
    BY <1>3, <1>7, <2>1, <2>3, SameService
  <2>4. QED
    BY <2>2, <2>3
<1>10. ASSUME NEW c \in Clients PROVE ClientFine(c)'
  <2>1. ClientFine(c) /\ s \notin cli[c].served /\ cli[c].served \subseteq Services
    BY <1>1, <1>2 DEF ClientFine, Mdns!TypeOK
  <2>2. \A t \in Services : datagrams[t] \in Seq(Mdns!Datagrams)
    BY <1>2 DEF Mdns!TypeOK
  <2>3. \A t \in cli[c].served : srv'[t] = srv[t] /\ Grows(datagrams[t], datagrams'[t])
    BY <1>3, <1>7, <2>1, <2>2, GrowsFine
  <2>4. datagrams[c] \in Seq(Mdns!Responses)
    BY <1>2 DEF Mdns!TypeOK
  <2>5. cli' = cli /\ lost' = lost /\ Grows(datagrams[c], datagrams'[c])
    BY <1>1, <1>7, <2>4, GrowsFine
  <2>6. QED
    BY <2>1, <2>3, <2>5, ClientKept
<1>11. ASSUME NEW d \in Dumps PROVE DumpFine(d)'
  <2>1. Heard(datagrams[d], datagrams'[d], Mdns!Announced(s), 60, socks, d) /\ DumpFine(d)
    BY <1>2, <1>6
  <2>2. ASSUME NEW t \in Services, NEW r \in Mdns!Announced(t), Believed(cache[d], datagrams'[d], r)
        PROVE  /\ srv'[t].socks \cap Families[d] # {}
               /\ srv'[t].at = "left" /\ d \notin lost => Revoked(datagrams'[d], r)
    <3>1. Believed(cache[d], datagrams[d], r) \/ (r \in Mdns!Announced(s) /\ socks \cap Families[d] # {})
      BY <1>4, <1>5, <2>1, <2>2, HeardBelieves
    <3>2. Believed(cache[d], datagrams[d], r) =>
            /\ srv[t].socks \cap Families[d] # {}
            /\ srv[t].at = "left" /\ d \notin lost => Revoked(datagrams[d], r)
      BY <2>1 DEF DumpFine
    <3>3. CASE t = s
      <4>1. srv[s].socks = {}
        BY <1>1, <1>2 DEF ServiceFine
      <4>2. socks \cap Families[d] # {}
        BY <3>1, <3>2, <3>3, <4>1
      <4>3. QED
        BY <1>3, <3>3, <4>2
    <3>4. CASE t # s
      <4>1. r \notin Mdns!Announced(s)
        BY <3>4, RecordsApart
      <4>2. Revoked(datagrams[d], r) => Revoked(datagrams'[d], r)
        BY <1>4, <1>5, <2>1, <4>1, HeardForgets
      <4>3. QED
        BY <1>3, <3>1, <3>2, <3>4, <4>1, <4>2
    <3>5. QED
      BY <3>3, <3>4
  <2>3. QED
    BY <1>1, <2>2 DEF DumpFine
<1>12. QED
  BY <1>8, <1>9, <1>10, <1>11 DEF MdnsInv

\* An answer to one's own question, on its way.
LEMMA UnicastFine ==
    ASSUME NEW Q \in Seq(Mdns!Responses), NEW records \in SUBSET Mdns!Records, NEW h,
           h = Append(Q, [records |-> {[record |-> r, ttl |-> 10] : r \in records}])
    PROVE  /\ h \in Seq(Mdns!Responses) /\ Grows(Q, h)
           /\ \E i \in 1..Len(h) : \A r \in records : Mentions(h[i], r)
<1> DEFINE m == Mdns!Response(records, 10)
<1>1. h = Append(Q, m)
  BY DEF Mdns!Response, Mdns!mdns_record_update_rclass_ttl
<1>2. m \in Mdns!Responses /\ \A r \in records : Mentions(m, r)
  BY ResponseFine
<1> HIDE DEF m
<1>3. h \in Seq(Mdns!Responses) /\ Len(h) = Len(Q) + 1 /\ h[Len(Q) + 1] = m
      /\ \A i \in 1..Len(Q) : h[i] = Q[i]
  BY <1>1, <1>2
<1>4. Len(Q) \in Nat /\ Len(Q) + 1 \in 1..Len(h)
  BY <1>3
<1>5. \A r \in records : Mentions(h[Len(Q) + 1], r)
  BY <1>2, <1>3
<1>6. QED
  BY <1>3, <1>4, <1>5 DEF Grows

\* A dump that hears an answer hears it of a service that serves.
LEMMA DumpHearsAnswer ==
    ASSUME NEW p \in Dumps, DumpFine(p), datagrams[p] \in Seq(Mdns!Responses),
           NEW s \in Services, srv[s].at = "serving", NEW f \in srv[s].socks,
           NEW records \in SUBSET Mdns!Records, records \subseteq Mdns!Announced(s) \cup {Mdns!DnsSdRecord},
           Heard(datagrams[p], datagrams'[p], records, 60, {f}, p),
           \A t \in Services : srv'[t].socks = srv[t].socks /\ srv'[t].at = srv[t].at,
           cache' = cache, lost' = lost
    PROVE  DumpFine(p)'
<1> DEFINE one == {f}
<1> HIDE DEF one
<1>1. ASSUME NEW t \in Services, NEW r \in Mdns!Announced(t), Believed(cache[p], datagrams'[p], r)
      PROVE  /\ srv'[t].socks \cap Families[p] # {}
             /\ srv'[t].at = "left" /\ p \notin lost => Revoked(datagrams'[p], r)
  <2>1. Heard(datagrams[p], datagrams'[p], records, 60, one, p)
    BY DEF one
  <2>2. Believed(cache[p], datagrams[p], r) \/ (r \in records /\ one \cap Families[p] # {})
    <3> DEFINE A == datagrams[p]
               B == datagrams'[p]
               known == cache[p]
    <3>1. A \in Seq(Mdns!Responses) /\ Heard(A, B, records, 60, one, p) /\ Believed(known, B, r)
      BY <1>1, <2>1
    <3> HIDE DEF A, B, known
    <3>2. Believed(known, A, r) \/ (r \in records /\ one \cap Families[p] # {})
      BY <3>1, HeardBelieves
    <3>3. QED
      BY <3>2 DEF A, known
  <2>3. Believed(cache[p], datagrams[p], r) =>
          /\ srv[t].socks \cap Families[p] # {}
          /\ srv[t].at = "left" /\ p \notin lost => Revoked(datagrams[p], r)
    BY DEF DumpFine
  <2>4. r \in records => t = s
    BY RecordsApart
  <2>5. CASE r \in records
    BY <2>2, <2>3, <2>4, <2>5 DEF one
  <2>6. CASE r \notin records
    <3>1. Revoked(datagrams[p], r) => Revoked(datagrams'[p], r)
      BY <2>1, <2>6, HeardForgets
    <3>2. QED
      BY <2>2, <2>3, <2>6, <3>1
  <2>7. QED
    BY <2>5, <2>6
<1>2. QED
  BY <1>1 DEF DumpFine

\* What a service is asked in a datagram, or in those before it.
Asking(d, Q, c, q) == Bears(d, c, q) \/ \E i \in 1..Len(Q) : Bears(Q[i], c, q)

\* A question is answered, and those behind it are kept.
LEMMA QuestionAnswered ==
    ASSUME MdnsInv, NEW s \in Services, srv[s].at = "serving",
           NEW d \in Mdns!Datagrams, Addressed(s, d),
           NEW q, DOMAIN q = Mdns!Nodes, \A n \in Mdns!Nodes \ {s} : q[n] = datagrams[n],
           q[s] \in Seq(Mdns!Datagrams), \A i \in 1..Len(q[s]) : Addressed(s, q[s][i]),
           \A c, x : Asking(srv[s].reading, datagrams[s], c, x) => Asking(d, q[s], c, x),
           Mdns!mdns_socket_listen(s, d, q)
    PROVE  MdnsInv'
<1> DEFINE records == IF d.questions = <<>> THEN {}
                      ELSE Mdns!service_callback(s, Head(d.questions).name, Head(d.questions).type)
           rest == [d EXCEPT !.questions = Tail(@)]
<1>1. /\ Mdns!TypeOK /\ \A t \in Services : ServiceFine(t)
      /\ \A c \in Clients : ClientFine(c)
      /\ \A p \in Dumps : DumpFine(p)
  BY DEF MdnsInv
<1>2. /\ datagrams' = IF records = {} THEN q
                      ELSE IF d.unicast THEN Mdns!mdns_query_answer_unicast(q, d.from, records)
                      ELSE Mdns!mdns_query_answer_multicast(q, records, d.family)
      /\ srv' = [srv EXCEPT ![s].reading = IF Len(d.questions) <= 1 THEN Mdns!Idle ELSE rest]
      /\ UNCHANGED <<cli, cache, foreign, lost>>
  BY DEF Mdns!mdns_socket_listen
<1>3. records \in SUBSET Mdns!Records /\ records \subseteq Mdns!Announced(s) \cup {Mdns!DnsSdRecord}
  BY RecordsApart
<1>4. /\ d.questions \in Seq(Mdns!Questions) /\ d.unicast \in BOOLEAN /\ d.family \in {4, 6}
      /\ d.from \in Clients \cup {None} /\ Mdns!Idle \in Mdns!Datagrams
      /\ d = [from |-> d.from, questions |-> d.questions, family |-> d.family, unicast |-> d.unicast]
  <2>1. <<>> \in Seq(Mdns!Questions)
    OBVIOUS
  <2>2. QED
    BY <2>1 DEF Mdns!Datagrams, Mdns!Idle, Mdns!Asks
<1>5. Len(d.questions) > 1 => /\ Tail(d.questions) \in Seq(Mdns!Questions)
                              /\ rest \in Mdns!Datagrams /\ rest.questions = Tail(d.questions)
                              /\ rest.from = d.from /\ rest.unicast = d.unicast /\ rest.family = d.family
  <2>1. ASSUME Len(d.questions) > 1 PROVE Tail(d.questions) \in Seq(Mdns!Questions)
    <3>1. d.questions # <<>>
      BY <1>4, <2>1
    <3>2. QED
      BY <1>4, <3>1
  <2>2. QED
    BY <1>4, <2>1 DEF Mdns!Datagrams
<1> DEFINE then == IF Len(d.questions) <= 1 THEN Mdns!Idle ELSE rest
<1>6. then \in Mdns!Datagrams /\ (then # Mdns!Idle => Addressed(s, then))
  BY <1>4, <1>5 DEF Addressed
<1>7. Len(d.questions) > 1 => then = rest
  BY <1>4
<1> HIDE DEF records, rest, then
<1>8. /\ DOMAIN srv' = Services /\ \A t \in Services \ {s} : srv'[t] = srv[t]
      /\ srv'[s].at = srv[s].at /\ srv'[s].socks = srv[s].socks /\ srv'[s].running = srv[s].running
      /\ srv'[s].reading = then
      /\ srv' \in [Services -> [at : {"off", "serving", "left", "failed"}, socks : SUBSET {4, 6},
                                running : BOOLEAN, reading : Mdns!Datagrams]]
  <2>1. srv \in [Services -> [at : {"off", "serving", "left", "failed"}, socks : SUBSET {4, 6},
                             running : BOOLEAN, reading : Mdns!Datagrams]]
    BY <1>1 DEF Mdns!TypeOK
  <2>2. srv' = [srv EXCEPT ![s].reading = then]
    BY <1>2 DEF then
  <2>3. QED
    BY <1>6, <2>1, <2>2
<1>9. /\ DOMAIN datagrams' = Mdns!Nodes
      /\ \A t \in Services : datagrams'[t] = q[t]
      /\ \A c \in Clients : datagrams'[c] = q[c] \/ (d.unicast /\ c = d.from /\ records # {})
      /\ \A p \in Dumps : datagrams'[p] = q[p] \/ Heard(q[p], datagrams'[p], records, 60, {d.family}, p)
      /\ d.unicast /\ records # {} =>
           datagrams'[d.from] = Append(q[d.from], [records |-> {[record |-> r, ttl |-> 10] : r \in records}])
      /\ records = {} => datagrams' = q
  <2>1. CASE records = {}
    <3>1. datagrams' = q
      BY <1>2, <2>1
    <3>2. QED
      BY <2>1, <3>1
  <2>2. CASE records # {} /\ d.unicast
    <3>1. d.from \in Clients
      BY <2>2 DEF Addressed
    <3> DEFINE longer == Append(q[d.from], [records |-> {[record |-> r, ttl |-> 10] : r \in records}])
    <3>2. datagrams' = [q EXCEPT ![d.from] = longer]
      BY <1>2, <2>2 DEF Mdns!mdns_query_answer_unicast
    <3> HIDE DEF longer
    <3>3. DOMAIN datagrams' = Mdns!Nodes /\ datagrams'[d.from] = longer
          /\ \A n \in Mdns!Nodes \ {d.from} : datagrams'[n] = q[n]
      BY <3>1, <3>2
    <3>4. QED
      BY <2>2, <3>1, <3>3, MdnsConstants DEF longer
  <2>3. CASE records # {} /\ ~d.unicast
    <3>1. datagrams' = Mdns!mdns_query_answer_multicast(q, records, d.family)
      BY <1>2, <2>3
    <3>2. datagrams' = Mdns!Hear(q, records, {d.family}, 60)
      BY <3>1 DEF Mdns!mdns_query_answer_multicast
    <3>3. DOMAIN datagrams' = Mdns!Nodes
      BY <3>2 DEF Mdns!Hear
    <3>4. \A n \in Mdns!Nodes \ Dumps : datagrams'[n] = q[n]
      BY <3>2 DEF Mdns!Hear
    <3>5. ASSUME NEW p \in Dumps PROVE Heard(q[p], datagrams'[p], records, 60, {d.family}, p)
      <4>1. q[p] = datagrams[p] /\ datagrams[p] \in Seq(Mdns!Responses)
        BY <1>1, MdnsConstants DEF Mdns!TypeOK
      <4>2. QED
        BY <1>3, <3>2, <4>1, HearFine
    <3>6. \A t \in Services \cup Clients : datagrams'[t] = q[t]
      BY <3>4, MdnsConstants
    <3>7. QED
      BY <2>3, <3>3, <3>5, <3>6
  <2>4. QED
    BY <1>4, <2>1, <2>2, <2>3
<1>10. \A n \in Clients \cup Dumps : q[n] = datagrams[n] /\ datagrams[n] \in Seq(Mdns!Responses)
  BY <1>1, MdnsConstants DEF Mdns!TypeOK
<1>11. ASSUME NEW c \in Clients
       PROVE  /\ datagrams'[c] \in Seq(Mdns!Responses) /\ Grows(datagrams[c], datagrams'[c])
              /\ d.unicast /\ c = d.from /\ records # {} =>
                    \E i \in 1..Len(datagrams'[c]) : \A r \in records : Mentions(datagrams'[c][i], r)
  <2>1. CASE datagrams'[c] = q[c] /\ ~(d.unicast /\ c = d.from /\ records # {})
    <3>1. datagrams[c] \in Seq(Mdns!Responses) /\ datagrams'[c] = datagrams[c]
      BY <1>10, <2>1
    <3>2. QED
      BY <2>1, <3>1, GrowsFine
  <2>2. CASE d.unicast /\ c = d.from /\ records # {}
    <3>1. datagrams[c] \in Seq(Mdns!Responses)
      BY <1>10
    <3>2. datagrams'[c] = Append(datagrams[c], [records |-> {[record |-> r, ttl |-> 10] : r \in records}])
      BY <1>9, <1>10, <2>2
    <3>3. QED
      BY <1>3, <3>1, <3>2, UnicastFine
  <2>3. QED
    BY <1>9, <2>1, <2>2
<1>12. \A p \in Dumps : datagrams'[p] \in Seq(Mdns!Responses)
  BY <1>9, <1>10, HeardTyped
<1>13. \A t \in Services : datagrams'[t] \in Seq(Mdns!Datagrams) /\ (t # s => datagrams'[t] = datagrams[t])
  BY <1>1, <1>9 DEF Mdns!TypeOK
<1>14. cli' = cli /\ cache' = cache /\ foreign' = foreign /\ lost' = lost
  BY <1>2
<1>15. Mdns!TypeOK'
  <2>1. \A n \in Clients \cup Dumps : datagrams'[n] \in Seq(Mdns!Responses)
    BY <1>11, <1>12
  <2>2. DOMAIN datagrams' = Mdns!Nodes
    BY <1>9
  <2>3. QED
    BY <1>1, <1>8, <1>13, <1>14, <2>1, <2>2 DEF Mdns!TypeOK
<1>16. ASSUME NEW t \in Services PROVE ServiceFine(t)'
  <2>1. CASE t # s
    BY <1>1, <1>8, <1>13, <2>1, SameService
  <2>2. CASE t = s
    <3>1. datagrams'[s] = q[s]
      BY <1>9
    <3>2. srv'[s].at = "serving"
      BY <1>8
    <3>4. ASSUME NEW i \in 1..Len(datagrams'[s]) PROVE Addressed(s, datagrams[s][i])'
      <4>1. Addressed(s, q[s][i])
        BY <3>1
      <4>2. QED
        BY <1>8, <3>1, <4>1 DEF Addressed
    <3>5. srv'[s].reading # Mdns!Idle => Addressed(s, srv[s].reading)'
      <4>1. then # Mdns!Idle => then.family \in srv[s].socks /\ (then.unicast => then.from \in Clients)
        BY <1>6 DEF Addressed
      <4>2. QED
        BY <1>8, <4>1 DEF Addressed
    <3>6. QED
      BY <2>2, <3>2, <3>4, <3>5 DEF ServiceFine
  <2>3. QED
    BY <2>1, <2>2
<1>17. ASSUME NEW c \in Clients PROVE ClientFine(c)'
  <2>1. ClientFine(c) /\ cli[c].served \subseteq Services
    BY <1>1 DEF Mdns!TypeOK
  <2>2. ASSUME NEW t \in cli[c].served, NEW x \in cli[c].asked,
               srv'[t].at = "serving", srv'[t].running, lost \cap {c, t} = {}
        PROVE  Answered(c, t, x)'
    <3>1. Answered(c, t, x)
      BY <1>8, <2>1, <2>2 DEF ClientFine
    <3>2. CASE t # s
      <4>1. srv'[t] = srv[t] /\ Grows(datagrams[t], datagrams'[t])
        BY <1>1, <1>8, <1>13, <2>1, <3>2, GrowsFine DEF Mdns!TypeOK
      <4>2. QED
        BY <1>11, <1>14, <3>1, <4>1, AnswerKept
    <3>3. CASE t = s
      <4> DEFINE wanted == Mdns!service_callback(s, x.name, x.type)
      <4>1. CASE wanted \subseteq cli[c].heard
        BY <1>14, <3>3, <4>1 DEF Answered
      <4>2. ASSUME cli[c].at = "reading", NEW i \in 1..Len(datagrams[c]),
                   \A r \in wanted : Mentions(datagrams[c][i], r)
            PROVE  Answered(c, s, x)'
        <5>1. i \in 1..Len(datagrams'[c]) /\ datagrams'[c][i] = datagrams[c][i]
          BY <1>11 DEF Grows
        <5>2. QED
          BY <1>14, <4>2, <5>1 DEF Answered
      <4>3. ASSUME cli[c].at = "reading", Asking(srv[s].reading, datagrams[s], c, x)
            PROVE  Answered(c, s, x)'
        <5>1. CASE \E i \in 1..Len(q[s]) : Bears(q[s][i], c, x)
          <6>1. datagrams'[s] = q[s]
            BY <1>9
          <6>2. QED
            BY <1>14, <4>3, <5>1, <6>1 DEF Answered
        <5>2. CASE Bears(d, c, x)
          <6>1. d.unicast /\ d.from = c
            BY <5>2 DEF Bears
          <6>2. PICK i \in 1..Len(d.questions) : d.questions[i] = x
            BY <5>2 DEF Bears
          <6>3. CASE i = 1
            <7>1. d.questions # <<>> /\ Head(d.questions) = x
              BY <1>4, <6>2, <6>3
            <7>2. records = wanted
              BY <7>1 DEF records
            <7>3. CASE records = {}
              BY <1>14, <7>2, <7>3 DEF Answered
            <7>4. CASE records # {}
              <8>1. \E k \in 1..Len(datagrams'[c]) : \A r \in wanted : Mentions(datagrams'[c][k], r)
                BY <1>11, <6>1, <7>2, <7>4
              <8>2. QED
                BY <1>14, <4>3, <8>1 DEF Answered
            <7>5. QED
              BY <7>3, <7>4
          <6>4. CASE i # 1
            <7>1. Len(d.questions) > 1 /\ d.questions # <<>> /\ Len(d.questions) \in Nat
              BY <1>4, <6>2, <6>4
            <7>2. i - 1 \in 1..Len(Tail(d.questions)) /\ Tail(d.questions)[i - 1] = x
              BY <1>4, <6>2, <6>4, <7>1
            <7>3. Bears(then, c, x)
              BY <1>5, <1>7, <6>1, <7>1, <7>2 DEF Bears
            <7>4. Bears(srv'[s].reading, c, x)
              BY <1>8, <7>3
            <7>5. QED
              BY <1>14, <4>3, <7>4 DEF Answered, Bears
          <6>5. QED
            BY <6>3, <6>4
        <5>3. QED
          BY <4>3, <5>1, <5>2 DEF Asking
      <4>4. QED
        BY <3>1, <3>3, <4>1, <4>2, <4>3 DEF Answered, Asking
    <3>4. QED
      BY <3>2, <3>3
  <2>3. \A t \in cli[c].served : srv'[t].at = srv[t].at
    BY <1>8, <2>1
  <2>4. cli'[c] = cli[c]
    BY <1>14
  <2>5. QED
    BY <1>14, <2>1, <2>2, <2>3, <2>4 DEF ClientFine
<1>18. ASSUME NEW p \in Dumps PROVE DumpFine(p)'
  <2>1. /\ DumpFine(p) /\ q[p] = datagrams[p] /\ datagrams[p] \in Seq(Mdns!Responses)
        /\ \A t \in Services : srv'[t].socks = srv[t].socks /\ srv'[t].at = srv[t].at
        /\ cache' = cache /\ lost' = lost
    BY <1>1, <1>8, <1>10, <1>14
  <2>2. CASE datagrams'[p] = q[p]
    BY <2>1, <2>2 DEF DumpFine
  <2>3. CASE Heard(q[p], datagrams'[p], records, 60, {d.family}, p)
    <3>1. d.family \in srv[s].socks
      BY DEF Addressed
    <3>2. QED
      BY <1>3, <2>1, <2>3, <3>1, DumpHearsAnswer
  <2>4. QED
    BY <1>9, <2>2, <2>3
<1>19. QED
  BY <1>15, <1>16, <1>17, <1>18 DEF MdnsInv

\* The places of a queue from which the first is taken.
LEMMA Taken ==
    ASSUME NEW S, NEW Q \in Seq(S), Q # <<>>
    PROVE  /\ Tail(Q) \in Seq(S) /\ Head(Q) \in S /\ Head(Q) = Q[1] /\ 1 \in 1..Len(Q)
           /\ Len(Q) \in Nat /\ Len(Tail(Q)) = Len(Q) - 1
           /\ \A i \in 1..Len(Tail(Q)) : i + 1 \in 1..Len(Q) /\ Tail(Q)[i] = Q[i + 1]
           /\ \A i \in 1..Len(Q) : i = 1 \/ (i - 1 \in 1..Len(Tail(Q)) /\ Tail(Q)[i - 1] = Q[i])
<1>1. Len(Q) \in Nat /\ Len(Q) >= 1
  OBVIOUS
<1>2. Tail(Q) \in Seq(S) /\ Len(Tail(Q)) = Len(Q) - 1 /\ Head(Q) = Q[1] /\ Head(Q) \in S
  BY <1>1
<1>3. \A i \in 1..(Len(Q) - 1) : Tail(Q)[i] = Q[i + 1]
  BY <1>1
<1>4. ASSUME NEW i \in 1..Len(Q), i # 1 PROVE i - 1 \in 1..(Len(Q) - 1) /\ Tail(Q)[i - 1] = Q[i]
  <2>1. i - 1 \in 1..(Len(Q) - 1) /\ (i - 1) + 1 = i
    BY <1>1, <1>4
  <2>2. QED
    BY <1>3, <2>1
<1>5. QED
  BY <1>1, <1>2, <1>3, <1>4

\* No client waits for the datagram of a service that answers none.
LEMMA IdleBearsNothing == \A c, x : ~Bears(Mdns!Idle, c, x)
  BY DEF Bears, Mdns!Idle, Mdns!Asks

\* A datagram is received, and its first question answered.
LEMMA Served == ASSUME MdnsInv, NEW s \in Services, Mdns!Serve(s) PROVE MdnsInv'
<1> DEFINE d == Head(datagrams[s])
           q == [datagrams EXCEPT ![s] = Tail(datagrams[s])]
<1>1. /\ srv[s].at = "serving" /\ srv[s].reading = Mdns!Idle /\ datagrams[s] # <<>>
      /\ Mdns!mdns_socket_listen(s, d, q)
  BY DEF Mdns!Serve
<1>2. /\ ServiceFine(s) /\ datagrams[s] \in Seq(Mdns!Datagrams) /\ DOMAIN datagrams = Mdns!Nodes
  BY DEF MdnsInv, Mdns!TypeOK
<1>3. /\ Tail(datagrams[s]) \in Seq(Mdns!Datagrams) /\ d \in Mdns!Datagrams
      /\ d = datagrams[s][1] /\ 1 \in 1..Len(datagrams[s])
      /\ \A i \in 1..Len(Tail(datagrams[s])) :
           i + 1 \in 1..Len(datagrams[s]) /\ Tail(datagrams[s])[i] = datagrams[s][i + 1]
      /\ \A i \in 1..Len(datagrams[s]) :
           i = 1 \/ (i - 1 \in 1..Len(Tail(datagrams[s])) /\ Tail(datagrams[s])[i - 1] = datagrams[s][i])
  BY <1>1, <1>2, Taken
<1>4. DOMAIN q = Mdns!Nodes /\ q[s] = Tail(datagrams[s]) /\ \A n \in Mdns!Nodes \ {s} : q[n] = datagrams[n]
  BY <1>2
<1> HIDE DEF d, q
<1>5. Addressed(s, d)
  BY <1>2, <1>3 DEF ServiceFine
<1>6. ASSUME NEW i \in 1..Len(q[s]) PROVE Addressed(s, q[s][i])
  <2>1. i + 1 \in 1..Len(datagrams[s]) /\ q[s][i] = datagrams[s][i + 1]
    BY <1>3, <1>4
  <2>2. QED
    BY <1>2, <2>1 DEF ServiceFine
<1>7. ASSUME NEW c, NEW x, Asking(srv[s].reading, datagrams[s], c, x) PROVE Asking(d, q[s], c, x)
  <2>1. PICK i \in 1..Len(datagrams[s]) : Bears(datagrams[s][i], c, x)
    BY <1>1, <1>7, IdleBearsNothing DEF Asking
  <2>2. CASE i = 1
    BY <1>3, <2>1, <2>2 DEF Asking
  <2>3. CASE i # 1
    <3>1. i - 1 \in 1..Len(q[s]) /\ q[s][i - 1] = datagrams[s][i]
      BY <1>3, <1>4, <2>1, <2>3
    <3>2. Bears(q[s][i - 1], c, x)
      BY <2>1, <3>1
    <3>3. QED
      BY <3>1, <3>2 DEF Asking
  <2>4. QED
    BY <2>2, <2>3
<1>8. q[s] \in Seq(Mdns!Datagrams)
  BY <1>3, <1>4
<1>9. QED
  BY <1>1, <1>3, <1>4, <1>5, <1>6, <1>7, <1>8, QuestionAnswered

\* A question that was left is answered.
LEMMA ServedRest == ASSUME MdnsInv, NEW s \in Services, Mdns!ServeRest(s) PROVE MdnsInv'
<1>1. /\ srv[s].at = "serving" /\ srv[s].reading # Mdns!Idle
      /\ Mdns!mdns_socket_listen(s, srv[s].reading, datagrams)
  BY DEF Mdns!ServeRest
<1>2. /\ ServiceFine(s) /\ datagrams[s] \in Seq(Mdns!Datagrams) /\ DOMAIN datagrams = Mdns!Nodes
      /\ srv[s].reading \in Mdns!Datagrams
  BY DEF MdnsInv, Mdns!TypeOK
<1>3. Addressed(s, srv[s].reading) /\ \A i \in 1..Len(datagrams[s]) : Addressed(s, datagrams[s][i])
  BY <1>1, <1>2 DEF ServiceFine
<1>4. QED
  BY <1>1, <1>2, <1>3, QuestionAnswered

\* A service says goodbye to all who may believe in it.
LEMMA ServiceLeaves == ASSUME MdnsInv, NEW s \in Services, Mdns!Goodbye(s) PROVE MdnsInv'
<1> DEFINE all == Mdns!Announced(s)
           socks == srv[s].socks
<1>1. /\ srv[s].at = "serving" /\ srv[s].reading = Mdns!Idle
      /\ datagrams' = [Mdns!Hear(datagrams, all, socks, 0) EXCEPT ![s] = <<>>]
      /\ srv' = [srv EXCEPT ![s].at = "left"]
      /\ UNCHANGED <<cli, cache, foreign, lost>>
  BY DEF Mdns!Goodbye, Mdns!mdns_goodbye_multicast
<1>2. /\ Mdns!TypeOK /\ \A t \in Services : ServiceFine(t)
      /\ \A c \in Clients : ClientFine(c)
      /\ \A p \in Dumps : DumpFine(p)
  BY DEF MdnsInv
<1>3. all \in SUBSET Mdns!Records
  BY RecordsApart
<1>4. /\ DOMAIN srv' = Services /\ \A t \in Services \ {s} : srv'[t] = srv[t]
      /\ srv'[s].at = "left" /\ srv'[s].socks = socks /\ srv'[s].running = srv[s].running
      /\ srv'[s].reading = Mdns!Idle
      /\ srv' \in [Services -> [at : {"off", "serving", "left", "failed"}, socks : SUBSET {4, 6},
                                running : BOOLEAN, reading : Mdns!Datagrams]]
  <2>1. srv \in [Services -> [at : {"off", "serving", "left", "failed"}, socks : SUBSET {4, 6},
                             running : BOOLEAN, reading : Mdns!Datagrams]]
    BY <1>2 DEF Mdns!TypeOK
  <2>2. srv' = [srv EXCEPT ![s].at = "left"]
    BY <1>1
  <2>3. QED
    BY <1>1, <2>1, <2>2
<1>5. cli' = cli /\ cache' = cache /\ foreign' = foreign /\ lost' = lost
  BY <1>1
<1> DEFINE h == Mdns!Hear(datagrams, all, socks, 0)
<1>6. DOMAIN h = Mdns!Nodes /\ \A n \in Mdns!Nodes \ Dumps : h[n] = datagrams[n]
  BY HearOthers
<1>7. ASSUME NEW p \in Dumps PROVE datagrams[p] \in Seq(Mdns!Responses) /\ Heard(datagrams[p], h[p], all, 0, socks, p)
  BY <1>2, <1>3, HearFine DEF Mdns!TypeOK
<1>8. datagrams' = [h EXCEPT ![s] = <<>>]
  BY <1>1
<1> HIDE DEF all, socks, h
<1>9. /\ DOMAIN datagrams' = Mdns!Nodes /\ datagrams'[s] = <<>>
      /\ \A n \in Mdns!Nodes \ {s} : datagrams'[n] = h[n]
  BY <1>6, <1>8
<1>10. /\ \A t \in Services \ {s} : datagrams'[t] = datagrams[t]
       /\ \A c \in Clients : datagrams'[c] = datagrams[c]
       /\ \A p \in Dumps : datagrams'[p] = h[p]
  BY <1>6, <1>9, MdnsConstants
<1>11. Mdns!TypeOK'
  <2>1. \A p \in Dumps : datagrams'[p] \in Seq(Mdns!Responses)
    BY <1>7, <1>10, HeardTyped
  <2>2. ASSUME NEW t \in Services PROVE datagrams'[t] \in Seq(Mdns!Datagrams)
    <3>1. CASE t = s
      <4>1. <<>> \in Seq(Mdns!Datagrams)
        OBVIOUS
      <4>2. QED
        BY <1>9, <3>1, <4>1
    <3>2. CASE t # s
      BY <1>2, <1>10, <3>2 DEF Mdns!TypeOK
    <3>3. QED
      BY <3>1, <3>2
  <2>3. \A n \in Clients \cup Dumps : datagrams'[n] \in Seq(Mdns!Responses)
    BY <1>2, <1>10, <2>1 DEF Mdns!TypeOK
  <2>4. DOMAIN datagrams' = Mdns!Nodes
    BY <1>9
  <2>5. QED
    BY <1>2, <1>4, <1>5, <2>2, <2>3, <2>4 DEF Mdns!TypeOK
<1>12. ASSUME NEW t \in Services PROVE ServiceFine(t)'
  <2>1. CASE t # s
    BY <1>2, <1>4, <1>10, <2>1, SameService
  <2>2. CASE t = s
    BY <1>4, <1>9, <2>2 DEF ServiceFine
  <2>3. QED
    BY <2>1, <2>2
<1>13. ASSUME NEW c \in Clients PROVE ClientFine(c)'
  <2>1. ClientFine(c) /\ cli[c].served \subseteq Services /\ datagrams[c] \in Seq(Mdns!Responses)
        /\ \A t \in Services : datagrams[t] \in Seq(Mdns!Datagrams)
    BY <1>2 DEF Mdns!TypeOK
  <2>2. ASSUME NEW t \in cli[c].served
        PROVE  /\ srv'[t].at \in {srv[t].at, "left"} /\ (srv'[t].running => srv[t].running)
               /\ srv'[t].at = "serving" =>
                     srv'[t].reading = srv[t].reading /\ Grows(datagrams[t], datagrams'[t])
    <3>1. CASE t = s
      BY <1>4, <3>1
    <3>2. CASE t # s
      BY <1>4, <1>10, <2>1, <3>2, GrowsFine
    <3>3. QED
      BY <3>1, <3>2
  <2>3. cli'[c] = cli[c] /\ lost' = lost /\ Grows(datagrams[c], datagrams'[c])
    BY <1>5, <1>10, <2>1, GrowsFine
  <2>4. QED
    BY <2>1, <2>2, <2>3, ClientKept
<1>14. ASSUME NEW p \in Dumps PROVE DumpFine(p)'
  <2>1. ASSUME NEW t \in Services, NEW r \in Mdns!Announced(t), Believed(cache[p], datagrams'[p], r)
        PROVE  /\ srv'[t].socks \cap Families[p] # {}
               /\ srv'[t].at = "left" /\ p \notin lost => Revoked(datagrams'[p], r)
    <3> DEFINE A == datagrams[p]
               B == datagrams'[p]
               known == cache[p]
    <3>1. A \in Seq(Mdns!Responses) /\ Heard(A, B, all, 0, socks, p) /\ Believed(known, B, r)
      BY <1>7, <1>10, <2>1
    <3>2. Believed(known, A, r) =>
            /\ srv[t].socks \cap Families[p] # {}
            /\ srv[t].at = "left" /\ p \notin lost => Revoked(A, r)
      BY <1>2 DEF DumpFine
    <3> HIDE DEF A, B, known
    <3>3. Believed(known, A, r) \/ (r \in all /\ socks \cap Families[p] # {})
      BY <1>3, <3>1, HeardBelieves
    <3>4. CASE t = s
      <4>1. socks \cap Families[p] # {} /\ r \in all
        BY <3>2, <3>3, <3>4 DEF socks, all
      <4>2. Revoked(B, r)
        BY <1>3, <3>1, <4>1, HeardGoodbye
      <4>3. QED
        BY <1>4, <3>4, <4>1, <4>2 DEF B
    <3>5. CASE t # s
      <4>1. r \notin all
        BY <3>5, RecordsApart DEF all
      <4>2. Revoked(A, r) => Revoked(B, r)
        BY <1>3, <3>1, <4>1, HeardForgets
      <4>3. QED
        BY <1>4, <3>2, <3>3, <3>5, <4>1, <4>2 DEF B
    <3>6. QED
      BY <3>4, <3>5
  <2>2. QED
    BY <1>5, <2>1 DEF DumpFine
<1>15. QED
  BY <1>11, <1>12, <1>13, <1>14 DEF MdnsInv

\* Interrupted, a service has its sockets and what it reads as before.
LEMMA ServiceInterrupted == ASSUME MdnsInv, NEW s \in Services, Mdns!signal_handler(s) PROVE MdnsInv'
<1>1. /\ srv[s].at = "serving" /\ srv' = [srv EXCEPT ![s].running = FALSE]
      /\ UNCHANGED <<cli, cache, datagrams, foreign, lost>>
  BY DEF Mdns!signal_handler
<1>2. /\ Mdns!TypeOK /\ \A t \in Services : ServiceFine(t)
      /\ \A c \in Clients : ClientFine(c)
      /\ \A p \in Dumps : DumpFine(p)
  BY DEF MdnsInv
<1>3. /\ \A t \in Services \ {s} : srv'[t] = srv[t]
      /\ srv'[s].at = srv[s].at /\ srv'[s].socks = srv[s].socks /\ srv'[s].running = FALSE
      /\ srv'[s].reading = srv[s].reading
      /\ srv' \in [Services -> [at : {"off", "serving", "left", "failed"}, socks : SUBSET {4, 6},
                                running : BOOLEAN, reading : Mdns!Datagrams]]
  <2>1. srv \in [Services -> [at : {"off", "serving", "left", "failed"}, socks : SUBSET {4, 6},
                             running : BOOLEAN, reading : Mdns!Datagrams]]
    BY <1>2 DEF Mdns!TypeOK
  <2>2. srv' = [srv EXCEPT ![s].running = FALSE]
    BY <1>1
  <2>3. srv'[s] = [srv[s] EXCEPT !.running = FALSE] /\ \A t \in Services \ {s} : srv'[t] = srv[t]
    BY <2>1, <2>2
  <2>4. srv' \in [Services -> [at : {"off", "serving", "left", "failed"}, socks : SUBSET {4, 6},
                              running : BOOLEAN, reading : Mdns!Datagrams]]
    <3> DEFINE no == FALSE
    <3>1. no \in BOOLEAN /\ srv' = [srv EXCEPT ![s].running = no]
      BY <2>2
    <3> HIDE DEF no
    <3>2. QED
      BY <2>1, <3>1
  <2>5. QED
    BY <2>1, <2>3, <2>4
<1>4. cli' = cli /\ cache' = cache /\ datagrams' = datagrams /\ foreign' = foreign /\ lost' = lost
  BY <1>1
<1>5. Mdns!TypeOK'
  BY <1>2, <1>3, <1>4 DEF Mdns!TypeOK
<1>6. ASSUME NEW t \in Services PROVE ServiceFine(t)'
  <2>1. CASE t # s
    BY <1>2, <1>3, <1>4, <2>1, SameService
  <2>2. CASE t = s
    BY <1>2, <1>3, <1>4, <2>2 DEF ServiceFine, Addressed
  <2>3. QED
    BY <2>1, <2>2
<1>7. ASSUME NEW c \in Clients PROVE ClientFine(c)'
  <2>1. ClientFine(c) /\ cli[c].served \subseteq Services /\ datagrams[c] \in Seq(Mdns!Responses)
        /\ \A t \in Services : datagrams[t] \in Seq(Mdns!Datagrams)
    BY <1>2 DEF Mdns!TypeOK
  <2>2. ASSUME NEW t \in cli[c].served
        PROVE  /\ srv'[t].at \in {srv[t].at, "left"} /\ (srv'[t].running => srv[t].running)
               /\ srv'[t].at = "serving" =>
                     srv'[t].reading = srv[t].reading /\ Grows(datagrams[t], datagrams'[t])
    <3>1. Grows(datagrams[t], datagrams'[t])
      BY <1>4, <2>1, GrowsFine
    <3>2. QED
      BY <1>3, <2>1, <3>1
  <2>3. cli'[c] = cli[c] /\ lost' = lost /\ Grows(datagrams[c], datagrams'[c])
    BY <1>4, <2>1, GrowsFine
  <2>4. QED
    BY <2>1, <2>2, <2>3, ClientKept
<1>8. ASSUME NEW p \in Dumps PROVE DumpFine(p)'
  BY <1>2, <1>3, <1>4 DEF DumpFine
<1>9. QED
  BY <1>5, <1>6, <1>7, <1>8 DEF MdnsInv

\* What a datagram for the services leaves as it was.
LEMMA QuestionSent ==
    ASSUME MdnsInv, NEW n \in Clients \cup {None}, NEW questions \in Seq(Mdns!Questions),
           NEW socks \in SUBSET {4, 6}, NEW u \in BOOLEAN, u => n \in Clients,
           datagrams' = Mdns!mdns_multicast_send(n, questions, socks, u),
           srv' = srv, cache' = cache, lost' = lost
    PROVE  /\ DOMAIN datagrams' = Mdns!Nodes
           /\ \A t \in Services : datagrams'[t] \in Seq(Mdns!Datagrams) /\ Grows(datagrams[t], datagrams'[t])
           /\ \A m \in Clients \cup Dumps : datagrams'[m] = datagrams[m] /\ datagrams[m] \in Seq(Mdns!Responses)
           /\ \A t \in Services : ServiceFine(t)'
           /\ \A p \in Dumps : DumpFine(p)'
           /\ \A c \in Clients : cli'[c] = cli[c] => ClientFine(c)'
<1>1. /\ Mdns!TypeOK /\ \A t \in Services : ServiceFine(t)
      /\ \A c \in Clients : ClientFine(c)
      /\ \A p \in Dumps : DumpFine(p)
  BY DEF MdnsInv
<1>2. /\ DOMAIN datagrams' = Mdns!Nodes
      /\ \A m \in Mdns!Nodes : ~(m \in Services /\ srv[m].at = "serving") => datagrams'[m] = datagrams[m]
      /\ \A m \in Services : srv[m].at = "serving" =>
           Asked(datagrams[m], datagrams'[m], n, questions, socks \cap srv[m].socks, u)
  BY <1>1, SendsFine
<1>3. \A t \in Services : datagrams[t] \in Seq(Mdns!Datagrams)
  BY <1>1 DEF Mdns!TypeOK
<1>4. \A m \in Clients \cup Dumps : datagrams'[m] = datagrams[m] /\ datagrams[m] \in Seq(Mdns!Responses)
  BY <1>1, <1>2, MdnsConstants DEF Mdns!TypeOK
<1>5. ASSUME NEW t \in Services
      PROVE  datagrams'[t] \in Seq(Mdns!Datagrams) /\ Grows(datagrams[t], datagrams'[t]) /\ ServiceFine(t)'
  <2>1. CASE srv[t].at # "serving"
    <3>1. datagrams'[t] = datagrams[t]
      BY <1>2, <2>1
    <3>2. ServiceFine(t)'
      BY <1>1, <3>1, SameService
    <3>3. QED
      BY <1>3, <3>1, <3>2, GrowsFine
  <2>2. CASE srv[t].at = "serving"
    <3>1. PICK e \in Seq(Mdns!Datagrams) :
            /\ datagrams'[t] = datagrams[t] \o e
            /\ \A i \in 1..Len(e) : \E f \in socks \cap srv[t].socks : e[i] = Mdns!Asks(n, questions, f, u)
      BY <1>2, <2>2 DEF Asked
    <3>2. datagrams'[t] \in Seq(Mdns!Datagrams) /\ Grows(datagrams[t], datagrams'[t])
      BY <1>3, <3>1, Joined, GrowsFine
    <3>3. ASSUME NEW i \in 1..Len(e) PROVE Addressed(t, e[i])
      <4>1. PICK f \in srv[t].socks : e[i] = Mdns!Asks(n, questions, f, u)
        BY <3>1
      <4>2. e[i].family = f /\ e[i].unicast = u /\ e[i].from = n
        BY <4>1 DEF Mdns!Asks
      <4>3. QED
        BY <4>1, <4>2 DEF Addressed
    <3>4. \A i \in 1..Len(datagrams[t]) : Addressed(t, datagrams[t][i])
      BY <1>1 DEF ServiceFine
    <3>5. ASSUME NEW i \in 1..Len(datagrams'[t]) PROVE Addressed(t, datagrams'[t][i])
      <4>1. CASE i \in 1..Len(datagrams[t])
        <5>1. datagrams'[t][i] = datagrams[t][i]
          BY <3>2, <4>1 DEF Grows
        <5>2. QED
          BY <3>4, <4>1, <5>1
      <4>2. CASE i \notin 1..Len(datagrams[t])
        <5>1. PICK k \in 1..Len(e) : i = Len(datagrams[t]) + k
          <6>1. i \in 1..(Len(datagrams[t]) + Len(e))
            BY <1>3, <3>1, Joined
          <6>2. QED
            BY <1>3, <4>2, <6>1, Joined
        <5>2. datagrams'[t][i] = e[k]
          BY <1>3, <3>1, <5>1, Joined
        <5>3. QED
          BY <3>3, <5>2
      <4>3. QED
        BY <4>1, <4>2
    <3>6. ServiceFine(t)
      BY <1>1
    <3>7. ServiceFine(t)'
      BY <2>2, <3>5, <3>6 DEF ServiceFine, Addressed
    <3>8. QED
      BY <3>2, <3>7
  <2>3. QED
    BY <2>1, <2>2
<1>6. ASSUME NEW p \in Dumps PROVE DumpFine(p)'
  <2>1. datagrams'[p] = datagrams[p] /\ DumpFine(p)
    BY <1>1, <1>4
  <2>2. QED
    BY <2>1 DEF DumpFine
<1>7. ASSUME NEW c \in Clients, cli'[c] = cli[c] PROVE ClientFine(c)'
  <2>1. ClientFine(c) /\ cli[c].served \subseteq Services
    BY <1>1 DEF Mdns!TypeOK
  <2>2. Grows(datagrams[c], datagrams'[c])
    BY <1>4, GrowsFine
  <2>3. \A t \in cli[c].served : srv'[t] = srv[t] /\ Grows(datagrams[t], datagrams'[t])
    BY <1>5, <2>1
  <2>4. QED
    BY <1>7, <2>1, <2>2, <2>3, ClientKept
<1>8. QED
  BY <1>2, <1>4, <1>5, <1>6, <1>7

\* A client's questions come to the services it has a socket in common with.
LEMMA ClientAsks ==
    ASSUME MdnsInv, NEW c \in Clients, NEW questions \in Seq(Mdns!Questions),
           \A i \in 1..Len(questions) : questions[i].type \in {"PTR", "SRV", "A", "AAAA"},
           Mdns!Ask(c, questions)
    PROVE  MdnsInv'
<1>1. PICK socks \in SUBSET Families[c] :
        /\ cli' = [cli EXCEPT ![c] =
             [at |-> IF socks = {} THEN "done" ELSE "reading", socks |-> socks,
              asked |-> IF socks = {} THEN {} ELSE Mdns!ToSet(questions), heard |-> {},
              served |-> {s \in Services : srv[s].at = "serving" /\ srv[s].socks \cap socks # {}}]]
        /\ datagrams' = Mdns!mdns_multicast_send(c, questions, socks, TRUE)
        /\ UNCHANGED <<srv, cache, foreign, lost>>
  BY DEF Mdns!Ask, Mdns!open_client_sockets
<1>2. Mdns!TypeOK /\ socks \in SUBSET {4, 6}
  BY MdnsConstants DEF MdnsInv
<1>3. /\ DOMAIN datagrams' = Mdns!Nodes
      /\ \A t \in Services : datagrams'[t] \in Seq(Mdns!Datagrams) /\ Grows(datagrams[t], datagrams'[t])
      /\ \A m \in Clients \cup Dumps : datagrams'[m] = datagrams[m] /\ datagrams[m] \in Seq(Mdns!Responses)
      /\ \A t \in Services : ServiceFine(t)'
      /\ \A p \in Dumps : DumpFine(p)'
      /\ \A b \in Clients : cli'[b] = cli[b] => ClientFine(b)'
  BY <1>1, <1>2, QuestionSent
<1> DEFINE asked == IF socks = {} THEN {} ELSE Mdns!ToSet(questions)
           served == {s \in Services : srv[s].at = "serving" /\ srv[s].socks \cap socks # {}}
           now == [at |-> IF socks = {} THEN "done" ELSE "reading", socks |-> socks,
                   asked |-> asked, heard |-> {}, served |-> served]
<1>4. \A x \in asked : socks # {} /\ \E i \in 1..Len(questions) : questions[i] = x
  BY DEF Mdns!ToSet
<1>5. asked \subseteq Mdns!Questions
  BY <1>4
<1>6. now \in [at : {"off", "reading", "done"}, socks : SUBSET {4, 6}, asked : SUBSET Mdns!Questions,
               heard : SUBSET Mdns!Records, served : SUBSET Services]
  BY <1>2, <1>5
<1>7. now.asked = asked /\ now.served = served /\ (socks # {} => now.at = "reading")
  OBVIOUS
<1>8. cli' = [cli EXCEPT ![c] = now]
  BY <1>1
<1> HIDE DEF now, asked
<1>9. /\ cli' \in [Clients -> [at : {"off", "reading", "done"}, socks : SUBSET {4, 6}, asked : SUBSET Mdns!Questions,
                               heard : SUBSET Mdns!Records, served : SUBSET Services]]
      /\ cli'[c] = now /\ \A b \in Clients \ {c} : cli'[b] = cli[b]
  BY <1>2, <1>6, <1>8 DEF Mdns!TypeOK
<1>10. srv' = srv /\ cache' = cache /\ foreign' = foreign /\ lost' = lost
  BY <1>1
<1>11. Mdns!TypeOK'
  <2>1. \A m \in Clients \cup Dumps : datagrams'[m] \in Seq(Mdns!Responses)
    BY <1>3
  <2>2. QED
    BY <1>2, <1>3, <1>9, <1>10, <2>1 DEF Mdns!TypeOK
<1>12. ClientFine(c)'
  <2>1. \A x \in asked : x.type \in {"PTR", "SRV", "A", "AAAA"}
    BY <1>4
  <2>2. ASSUME NEW t \in served, NEW x \in asked PROVE Answered(c, t, x)'
    <3>1. t \in Services /\ srv[t].at = "serving" /\ srv[t].socks \cap socks # {} /\ socks # {}
      BY <1>4
    <3>2. Asked(datagrams[t], datagrams'[t], c, questions, socks \cap srv[t].socks, TRUE)
      BY <1>1, <1>2, <3>1, SendsFine
    <3>3. PICK e \in Seq(Mdns!Datagrams) :
            /\ datagrams'[t] = datagrams[t] \o e /\ e # <<>>
            /\ \A i \in 1..Len(e) : \E f \in socks \cap srv[t].socks : e[i] = Mdns!Asks(c, questions, f, TRUE)
      BY <3>1, <3>2 DEF Asked
    <3>4. 1 \in 1..Len(e) /\ datagrams[t] \in Seq(Mdns!Datagrams)
      BY <1>2, <3>1, <3>3 DEF Mdns!TypeOK
    <3>5. PICK f \in socks : e[1] = Mdns!Asks(c, questions, f, TRUE)
      BY <3>3, <3>4
    <3>6. Bears(e[1], c, x)
      BY <1>4, <3>5 DEF Bears, Mdns!Asks
    <3>7. /\ Len(datagrams[t]) + 1 \in 1..Len(datagrams'[t])
          /\ datagrams'[t][Len(datagrams[t]) + 1] = e[1]
      BY <3>3, <3>4, Joined
    <3>8. cli'[c].at = "reading"
      BY <1>7, <1>9, <3>1
    <3>9. \E i \in 1..Len(datagrams'[t]) : Bears(datagrams'[t][i], c, x)
      BY <3>6, <3>7
    <3>10. QED
      BY <3>8, <3>9 DEF Answered, Bears
  <2>3. cli'[c].asked = asked /\ cli'[c].served = served
    BY <1>7, <1>9
  <2>4. \A t \in served : srv'[t].at = "serving"
    BY <1>10
  <2>5. QED
    BY <2>1, <2>2, <2>3, <2>4 DEF ClientFine
<1>13. \A b \in Clients : ClientFine(b)'
  BY <1>3, <1>9, <1>12
<1>14. QED
  BY <1>3, <1>11, <1>13 DEF MdnsInv

\* What clients ask is among the questions there are, of types a service answers exactly.
LEMMA QueriesFine ==
    /\ Mdns!mdns_discovery_send \in Seq(Mdns!Questions)
    /\ \A i \in 1..Len(Mdns!mdns_discovery_send) :
         Mdns!mdns_discovery_send[i].type \in {"PTR", "SRV", "A", "AAAA"}
    /\ \A r \in Requests :
         /\ Mdns!mdns_multiquery_send(r) \in Seq(Mdns!Questions)
         /\ \A i \in 1..Len(Mdns!mdns_multiquery_send(r)) :
              Mdns!mdns_multiquery_send(r)[i].type \in {"PTR", "SRV", "A", "AAAA"}
<1>1. Mdns!mdns_discovery_send = <<[name |-> Mdns!DnsSd, type |-> "PTR"]>>
  BY DEF Mdns!mdns_discovery_send
<1>2. [name |-> Mdns!DnsSd, type |-> "PTR"] \in Mdns!ToSet(Mdns!mdns_discovery_send)
  <2>1. 1 \in DOMAIN Mdns!mdns_discovery_send /\ Mdns!mdns_discovery_send[1] = [name |-> Mdns!DnsSd, type |-> "PTR"]
    BY <1>1
  <2>2. QED
    BY <2>1 DEF Mdns!ToSet
<1>3. /\ Mdns!mdns_discovery_send \in Seq(Mdns!Questions)
      /\ \A i \in 1..Len(Mdns!mdns_discovery_send) :
           Mdns!mdns_discovery_send[i].type \in {"PTR", "SRV", "A", "AAAA"}
  <2>1. [name |-> Mdns!DnsSd, type |-> "PTR"] \in Mdns!Questions
    BY <1>2 DEF Mdns!Questions
  <2>2. QED
    BY <1>1, <2>1
<1>4. ASSUME NEW r \in Requests
      PROVE  /\ Mdns!mdns_multiquery_send(r) \in Seq(Mdns!Questions)
             /\ \A i \in 1..Len(Mdns!mdns_multiquery_send(r)) :
                  Mdns!mdns_multiquery_send(r)[i].type \in {"PTR", "SRV", "A", "AAAA"}
  <2> DEFINE m == Mdns!mdns_multiquery_send(r)
  <2>1. /\ r \in Seq(Mdns!ToSet(r)) /\ Len(r) \in Nat /\ DOMAIN r = 1..Len(r)
        /\ \A i \in 1..Len(r) : r[i] = [name |-> r[i].name, type |-> r[i].type]
    <3>1. r \in Seq(Mdns!ToSet(r)) /\ Len(r) \in Nat /\ DOMAIN r = 1..Len(r)
      BY MdnsConstants
    <3>2. \A i \in 1..Len(r) : r[i] \in Mdns!ToSet(r)
      BY <3>1
    <3>3. QED
      BY <3>1, <3>2, MdnsConstants
  <2>2. DOMAIN m = 1..Len(r)
    BY <2>1 DEF Mdns!mdns_multiquery_send
  <2>3. m = [i \in 1..Len(r) |-> m[i]]
    BY <2>1 DEF Mdns!mdns_multiquery_send
  <2>4. ASSUME NEW i \in 1..Len(r)
        PROVE  m[i].type \in {"PTR", "SRV", "A", "AAAA"} /\ m[i] \in Mdns!Questions
    <3>1. m[i].type \in {"PTR", "SRV", "A", "AAAA"}
      BY <2>1 DEF Mdns!mdns_multiquery_send
    <3>2. m[i] \in Mdns!ToSet(m)
      BY <2>2 DEF Mdns!ToSet
    <3>3. QED
      BY <3>1, <3>2 DEF Mdns!Questions
  <2> HIDE DEF m
  <2>5. m \in Seq(Mdns!Questions) /\ Len(m) = Len(r)
    BY <2>1, <2>2, <2>3, <2>4
  <2>6. QED
    BY <2>4, <2>5 DEF m
<1>5. QED
  BY <1>3, <1>4

LEMMA ClientDiscovers == ASSUME MdnsInv, NEW c \in Clients, Mdns!send_dns_sd(c) PROVE MdnsInv'
  BY QueriesFine, ClientAsks DEF Mdns!send_dns_sd

LEMMA ClientQueries == ASSUME MdnsInv, NEW c \in Clients, Mdns!send_mdns_query(c) PROVE MdnsInv'
<1>1. PICK r \in Requests : Mdns!Ask(c, Mdns!mdns_multiquery_send(r))
  BY DEF Mdns!send_mdns_query
<1>2. QED
  BY <1>1, QueriesFine, ClientAsks

\* A question from port 5353 is nobody's own.
LEMMA ForeignAsks ==
    ASSUME MdnsInv, NEW f \in {4, 6}, NEW question \in Foreign, Mdns!AskForeign(f, question)
    PROVE  MdnsInv'
<1>1. /\ datagrams' = Mdns!mdns_multicast_send(None, <<question>>, {f}, FALSE)
      /\ foreign' = foreign + 1 /\ foreign < MaxForeign
      /\ srv' = srv /\ cli' = cli /\ cache' = cache /\ lost' = lost
  BY DEF Mdns!AskForeign
<1>2. <<question>> \in Seq(Mdns!Questions)
  <2>1. question \in Mdns!Questions
    BY DEF Mdns!Questions
  <2>2. QED
    BY <2>1
<1>3. {f} \in SUBSET {4, 6} /\ FALSE \in BOOLEAN /\ None \in Clients \cup {None}
  OBVIOUS
<1>4. /\ DOMAIN datagrams' = Mdns!Nodes
      /\ \A t \in Services : datagrams'[t] \in Seq(Mdns!Datagrams) /\ Grows(datagrams[t], datagrams'[t])
      /\ \A m \in Clients \cup Dumps : datagrams'[m] = datagrams[m] /\ datagrams[m] \in Seq(Mdns!Responses)
      /\ \A t \in Services : ServiceFine(t)'
      /\ \A p \in Dumps : DumpFine(p)'
      /\ \A b \in Clients : cli'[b] = cli[b] => ClientFine(b)'
  BY <1>1, <1>2, <1>3, QuestionSent
<1>5. Mdns!TypeOK'
  <2>1. Mdns!TypeOK /\ \A m \in Clients \cup Dumps : datagrams'[m] \in Seq(Mdns!Responses)
    BY <1>4 DEF MdnsInv
  <2>2. foreign' \in 0..MaxForeign
    BY <1>1, <2>1, MdnsConstants DEF Mdns!TypeOK
  <2>3. QED
    BY <1>1, <1>4, <2>1, <2>2 DEF Mdns!TypeOK
<1>6. QED
  BY <1>1, <1>4, <1>5 DEF MdnsInv

\* What a client hears it remembers.
LEMMA ClientHears == ASSUME MdnsInv, NEW c \in Clients, Mdns!query_callback(c) PROVE MdnsInv'
<1>1. /\ cli[c].at = "reading" /\ datagrams[c] # <<>>
      /\ cli' = [cli EXCEPT ![c].heard = @ \cup {r.record : r \in Head(datagrams[c]).records}]
      /\ datagrams' = [datagrams EXCEPT ![c] = Tail(@)]
      /\ UNCHANGED <<srv, cache, foreign, lost>>
  BY DEF Mdns!query_callback
<1>2. /\ Mdns!TypeOK /\ \A t \in Services : ServiceFine(t)
      /\ \A b \in Clients : ClientFine(b)
      /\ \A p \in Dumps : DumpFine(p)
  BY DEF MdnsInv
<1>3. datagrams[c] \in Seq(Mdns!Responses) /\ DOMAIN datagrams = Mdns!Nodes
  BY <1>2 DEF Mdns!TypeOK
<1> DEFINE Q == datagrams[c]
           more == {r.record : r \in Head(Q).records}
<1>4. /\ Tail(Q) \in Seq(Mdns!Responses) /\ Head(Q) \in Mdns!Responses /\ Head(Q) = Q[1]
      /\ \A i \in 1..Len(Q) : i = 1 \/ (i - 1 \in 1..Len(Tail(Q)) /\ Tail(Q)[i - 1] = Q[i])
  BY <1>1, <1>3, Taken
<1>5. more \subseteq Mdns!Records /\ \A r : Mentions(Q[1], r) => r \in more
  <2>1. Head(Q).records \subseteq [record : Mdns!Records, ttl : {0, 10, 60}]
    BY <1>4 DEF Mdns!Responses
  <2>2. QED
    BY <1>4, <2>1 DEF Mentions
<1>6. cli \in [Clients -> [at : {"off", "reading", "done"}, socks : SUBSET {4, 6}, asked : SUBSET Mdns!Questions,
                           heard : SUBSET Mdns!Records, served : SUBSET Services]]
  BY <1>2 DEF Mdns!TypeOK
<1>7. cli' = [cli EXCEPT ![c].heard = @ \cup more]
  BY <1>1
<1>8. /\ datagrams'[c] = Tail(Q) /\ DOMAIN datagrams' = Mdns!Nodes
      /\ \A n \in Mdns!Nodes \ {c} : datagrams'[n] = datagrams[n]
  BY <1>1, <1>3
<1>9. srv' = srv /\ cache' = cache /\ foreign' = foreign /\ lost' = lost
  BY <1>1
<1> HIDE DEF Q, more
<1>10. /\ cli'[c] = [cli[c] EXCEPT !.heard = @ \cup more] /\ \A b \in Clients \ {c} : cli'[b] = cli[b]
       /\ cli' \in [Clients -> [at : {"off", "reading", "done"}, socks : SUBSET {4, 6}, asked : SUBSET Mdns!Questions,
                                heard : SUBSET Mdns!Records, served : SUBSET Services]]
  BY <1>5, <1>6, <1>7
<1>11. /\ cli'[c].at = "reading" /\ cli'[c].asked = cli[c].asked /\ cli'[c].served = cli[c].served
       /\ cli'[c].heard = cli[c].heard \cup more
  BY <1>1, <1>6, <1>10
<1>12. /\ \A t \in Services : datagrams'[t] = datagrams[t] /\ datagrams[t] \in Seq(Mdns!Datagrams)
       /\ \A p \in Dumps : datagrams'[p] = datagrams[p] /\ datagrams[p] \in Seq(Mdns!Responses)
       /\ \A b \in Clients \ {c} : datagrams'[b] = datagrams[b] /\ datagrams[b] \in Seq(Mdns!Responses)
  BY <1>2, <1>8, MdnsConstants DEF Mdns!TypeOK
<1>13. Mdns!TypeOK'
  <2>1. \A n \in Clients \cup Dumps : datagrams'[n] \in Seq(Mdns!Responses)
    BY <1>4, <1>8, <1>12 DEF Q
  <2>2. \A t \in Services : datagrams'[t] \in Seq(Mdns!Datagrams)
    BY <1>12
  <2>3. QED
    BY <1>2, <1>8, <1>9, <1>10, <2>1, <2>2 DEF Mdns!TypeOK
<1>14. \A t \in Services : ServiceFine(t)'
  BY <1>2, <1>9, <1>12, SameService
<1>15. ASSUME NEW p \in Dumps PROVE DumpFine(p)'
  <2>1. datagrams'[p] = datagrams[p] /\ DumpFine(p)
    BY <1>2, <1>12
  <2>2. QED
    BY <1>9, <2>1 DEF DumpFine
<1>16. ASSUME NEW b \in Clients \ {c} PROVE ClientFine(b)'
  <2>1. ClientFine(b) /\ cli'[b] = cli[b] /\ cli[b].served \subseteq Services
    BY <1>2, <1>6, <1>10
  <2>2. Grows(datagrams[b], datagrams'[b]) /\ \A t \in Services : Grows(datagrams[t], datagrams'[t])
    BY <1>12, GrowsFine
  <2>3. QED
    BY <1>9, <2>1, <2>2, ClientKept
<1>17. ClientFine(c)'
  <2>1. ClientFine(c) /\ cli[c].served \subseteq Services
    BY <1>2, <1>6
  <2>2. ASSUME NEW t \in cli[c].served, NEW x \in cli[c].asked, Answered(c, t, x) PROVE Answered(c, t, x)'
    <3> DEFINE wanted == Mdns!service_callback(t, x.name, x.type)
    <3>1. CASE wanted \subseteq cli[c].heard
      BY <1>11, <3>1 DEF Answered
    <3>2. ASSUME NEW i \in 1..Len(Q), \A r \in wanted : Mentions(Q[i], r) PROVE Answered(c, t, x)'
      <4>1. CASE i = 1
        <5>1. wanted \subseteq cli'[c].heard
          BY <1>5, <1>11, <3>2, <4>1
        <5>2. QED
          BY <5>1 DEF Answered
      <4>2. CASE i # 1
        <5>1. i - 1 \in 1..Len(datagrams'[c]) /\ datagrams'[c][i - 1] = Q[i]
          BY <1>4, <1>8, <3>2, <4>2
        <5>2. \A r \in wanted : Mentions(datagrams'[c][i - 1], r)
          BY <3>2, <5>1
        <5>3. QED
          BY <1>11, <5>1, <5>2 DEF Answered
      <4>3. QED
        BY <4>1, <4>2
    <3>3. datagrams'[t] = datagrams[t] /\ srv'[t].reading = srv[t].reading
      BY <1>9, <1>12, <2>1
    <3>4. CASE (\E i \in 1..Len(datagrams[t]) : Bears(datagrams[t][i], c, x)) \/ Bears(srv[t].reading, c, x)
      BY <1>11, <3>3, <3>4 DEF Answered, Bears
    <3>5. QED
      BY <2>2, <3>1, <3>2, <3>4 DEF Answered, Q
  <2>3. QED
    BY <1>9, <1>11, <2>1, <2>2 DEF ClientFine
<1>18. \A b \in Clients : ClientFine(b)'
  BY <1>16, <1>17
<1>19. QED
  BY <1>13, <1>14, <1>15, <1>18 DEF MdnsInv

\* A client gives up when nothing is on the way: it has heard what it asked for.
LEMMA ClientGivesUp == ASSUME MdnsInv, NEW c \in Clients, Mdns!TimeOut(c) PROVE MdnsInv'
<1>1. /\ cli[c].at = "reading" /\ datagrams[c] = <<>>
      /\ \A s \in Services : srv[s].reading.from # c /\
           (srv[s].running => \A i \in DOMAIN datagrams[s] : datagrams[s][i].from # c)
      /\ cli' = [cli EXCEPT ![c].at = "done", ![c].socks = {}]
      /\ srv' = srv /\ cache' = cache /\ datagrams' = datagrams /\ foreign' = foreign /\ lost' = lost
  BY DEF Mdns!TimeOut, Mdns!OnTheWay
<1>2. /\ Mdns!TypeOK /\ \A t \in Services : ServiceFine(t)
      /\ \A b \in Clients : ClientFine(b)
      /\ \A p \in Dumps : DumpFine(p)
  BY DEF MdnsInv
<1>3. cli \in [Clients -> [at : {"off", "reading", "done"}, socks : SUBSET {4, 6}, asked : SUBSET Mdns!Questions,
                           heard : SUBSET Mdns!Records, served : SUBSET Services]]
  BY <1>2 DEF Mdns!TypeOK
<1>4. /\ cli'[c] = [[cli[c] EXCEPT !.at = "done"] EXCEPT !.socks = {}] /\ \A b \in Clients \ {c} : cli'[b] = cli[b]
      /\ cli' \in [Clients -> [at : {"off", "reading", "done"}, socks : SUBSET {4, 6}, asked : SUBSET Mdns!Questions,
                               heard : SUBSET Mdns!Records, served : SUBSET Services]]
  <2> DEFINE half == [cli EXCEPT ![c].at = "done"]
  <2>1. half \in [Clients -> [at : {"off", "reading", "done"}, socks : SUBSET {4, 6}, asked : SUBSET Mdns!Questions,
                              heard : SUBSET Mdns!Records, served : SUBSET Services]]
    BY <1>3
  <2>2. cli' = [half EXCEPT ![c].socks = {}]
    BY <1>1, <1>3
  <2>3. half[c] = [cli[c] EXCEPT !.at = "done"] /\ \A b \in Clients \ {c} : half[b] = cli[b]
    BY <1>3
  <2> HIDE DEF half
  <2>4. cli'[c] = [half[c] EXCEPT !.socks = {}] /\ \A b \in Clients \ {c} : cli'[b] = half[b]
    BY <2>1, <2>2
  <2>5. cli' \in [Clients -> [at : {"off", "reading", "done"}, socks : SUBSET {4, 6}, asked : SUBSET Mdns!Questions,
                              heard : SUBSET Mdns!Records, served : SUBSET Services]]
    BY <2>1, <2>2
  <2>6. QED
    BY <2>3, <2>4, <2>5
<1>5. /\ cli'[c].asked = cli[c].asked /\ cli'[c].served = cli[c].served /\ cli'[c].heard = cli[c].heard
  BY <1>3, <1>4
<1>6. Mdns!TypeOK'
  BY <1>1, <1>2, <1>4 DEF Mdns!TypeOK
<1>7. \A t \in Services : ServiceFine(t)'
  BY <1>1, <1>2, SameService
<1>8. ASSUME NEW p \in Dumps PROVE DumpFine(p)'
  BY <1>1, <1>2 DEF DumpFine
<1>9. ASSUME NEW b \in Clients \ {c} PROVE ClientFine(b)'
  <2>1. ClientFine(b) /\ cli'[b] = cli[b] /\ cli[b].served \subseteq Services
    BY <1>2, <1>3, <1>4
  <2>2. \A n \in Mdns!Nodes : Grows(datagrams[n], datagrams'[n])
    BY <1>1, <1>2, GrowsFine DEF Mdns!TypeOK
  <2>3. QED
    BY <1>1, <2>1, <2>2, ClientKept
<1>10. ClientFine(c)'
  <2>1. ClientFine(c) /\ cli[c].served \subseteq Services
    BY <1>2, <1>3
  <2>2. ASSUME NEW t \in cli[c].served, NEW x \in cli[c].asked, srv[t].running, Answered(c, t, x)
        PROVE  Answered(c, t, x)'
    <3>1. ~Bears(srv[t].reading, c, x)
      BY <1>1, <2>1 DEF Bears
    <3>2. DOMAIN datagrams[t] = 1..Len(datagrams[t])
      BY <1>2, <2>1 DEF Mdns!TypeOK
    <3>3. \A i \in 1..Len(datagrams[t]) : ~Bears(datagrams[t][i], c, x)
      BY <1>1, <2>1, <2>2, <3>2 DEF Bears
    <3>4. Len(datagrams[c]) = 0
      BY <1>1
    <3>5. Mdns!service_callback(t, x.name, x.type) \subseteq cli[c].heard
      BY <2>2, <3>1, <3>3, <3>4 DEF Answered
    <3>6. QED
      BY <1>5, <3>5 DEF Answered
  <2>3. QED
    BY <1>1, <1>5, <2>1, <2>2 DEF ClientFine
<1>11. \A b \in Clients : ClientFine(b)'
  BY <1>9, <1>10
<1>12. QED
  BY <1>6, <1>7, <1>8, <1>11 DEF MdnsInv

\* What a dump reads it believes, or no longer does.
LEMMA DumpReads == ASSUME MdnsInv, NEW d \in Dumps, Mdns!dump_callback(d) PROVE MdnsInv'
<1> DEFINE Q == datagrams[d]
           said == {r.record : r \in {x \in Head(Q).records : x.ttl > 0}}
           revoked == {r.record : r \in {x \in Head(Q).records : x.ttl = 0}}
<1>1. /\ Q # <<>>
      /\ cache' = [cache EXCEPT ![d] = (@ \cup said) \ revoked]
      /\ datagrams' = [datagrams EXCEPT ![d] = Tail(@)]
      /\ srv' = srv /\ cli' = cli /\ foreign' = foreign /\ lost' = lost
  BY DEF Mdns!dump_callback
<1>2. /\ Mdns!TypeOK /\ \A t \in Services : ServiceFine(t)
      /\ \A b \in Clients : ClientFine(b)
      /\ \A p \in Dumps : DumpFine(p)
  BY DEF MdnsInv
<1>3. Q \in Seq(Mdns!Responses) /\ DOMAIN datagrams = Mdns!Nodes /\ cache \in [Dumps -> SUBSET Mdns!Records]
  BY <1>2 DEF Mdns!TypeOK
<1>4. /\ Tail(Q) \in Seq(Mdns!Responses) /\ Head(Q) \in Mdns!Responses /\ Head(Q) = Q[1] /\ 1 \in 1..Len(Q)
      /\ Len(Q) \in Nat
      /\ \A i \in 1..Len(Tail(Q)) : i + 1 \in 1..Len(Q) /\ Tail(Q)[i] = Q[i + 1]
      /\ \A i \in 1..Len(Q) : i = 1 \/ (i - 1 \in 1..Len(Tail(Q)) /\ Tail(Q)[i - 1] = Q[i])
  BY <1>1, <1>3, Taken
<1>5. /\ said \subseteq Mdns!Records
      /\ \A r \in said : Mentions(Q[1], r)
      /\ \A r : Mentions(Q[1], r) /\ OnlyGoodbyes(Q[1], r) => r \in revoked
  <2>1. Head(Q).records \subseteq [record : Mdns!Records, ttl : {0, 10, 60}]
    BY <1>4 DEF Mdns!Responses
  <2>2. QED
    BY <1>4, <2>1 DEF Mentions, OnlyGoodbyes
<1>6. /\ datagrams'[d] = Tail(Q) /\ DOMAIN datagrams' = Mdns!Nodes
      /\ \A n \in Mdns!Nodes \ {d} : datagrams'[n] = datagrams[n]
  BY <1>1, <1>3
<1> HIDE DEF said, revoked
<1>7. /\ cache' \in [Dumps -> SUBSET Mdns!Records] /\ cache'[d] = (cache[d] \cup said) \ revoked
      /\ \A p \in Dumps \ {d} : cache'[p] = cache[p]
  BY <1>1, <1>3, <1>5
<1> HIDE DEF Q
<1>8. /\ \A t \in Services : datagrams'[t] = datagrams[t] /\ datagrams[t] \in Seq(Mdns!Datagrams)
      /\ \A c \in Clients : datagrams'[c] = datagrams[c] /\ datagrams[c] \in Seq(Mdns!Responses)
      /\ \A p \in Dumps \ {d} : datagrams'[p] = datagrams[p] /\ datagrams[p] \in Seq(Mdns!Responses)
  BY <1>2, <1>6, MdnsConstants DEF Mdns!TypeOK
<1>9. Mdns!TypeOK'
  <2>1. \A n \in Clients \cup Dumps : datagrams'[n] \in Seq(Mdns!Responses)
    BY <1>4, <1>6, <1>8
  <2>2. \A t \in Services : datagrams'[t] \in Seq(Mdns!Datagrams)
    BY <1>8
  <2>3. QED
    BY <1>1, <1>2, <1>6, <1>7, <2>1, <2>2 DEF Mdns!TypeOK
<1>10. \A t \in Services : ServiceFine(t)'
  BY <1>1, <1>2, <1>8, SameService
<1>11. ASSUME NEW c \in Clients PROVE ClientFine(c)'
  <2>1. ClientFine(c) /\ cli[c].served \subseteq Services
    BY <1>2 DEF Mdns!TypeOK
  <2>2. Grows(datagrams[c], datagrams'[c]) /\ \A t \in Services : Grows(datagrams[t], datagrams'[t])
    BY <1>8, GrowsFine
  <2>3. QED
    BY <1>1, <2>1, <2>2, ClientKept
<1>12. ASSUME NEW p \in Dumps \ {d} PROVE DumpFine(p)'
  <2>1. datagrams'[p] = datagrams[p] /\ cache'[p] = cache[p] /\ DumpFine(p)
    BY <1>2, <1>7, <1>8
  <2>2. QED
    BY <1>1, <2>1 DEF DumpFine
<1>13. ASSUME NEW t \in Services, NEW r \in Mdns!Announced(t), Believed(cache'[d], datagrams'[d], r)
       PROVE  /\ srv'[t].socks \cap Families[d] # {}
              /\ srv'[t].at = "left" /\ d \notin lost => Revoked(datagrams'[d], r)
  <2>1. Believed(cache[d], Q, r)
    <3>1. CASE r \in cache'[d]
      BY <1>4, <1>5, <1>7, <3>1 DEF Believed
    <3>2. ASSUME NEW i \in 1..Len(Tail(Q)), Mentions(Tail(Q)[i], r) PROVE Believed(cache[d], Q, r)
      BY <1>4, <3>2 DEF Believed
    <3>3. QED
      BY <1>6, <1>13, <3>1, <3>2 DEF Believed
  <2>2. /\ srv[t].socks \cap Families[d] # {}
        /\ srv[t].at = "left" /\ d \notin lost => Revoked(Q, r)
    BY <1>2, <2>1 DEF DumpFine, Q
  <2>3. ASSUME Revoked(Q, r) PROVE Revoked(datagrams'[d], r)
    <3>1. PICK i \in 1..Len(Q) : Mentions(Q[i], r) /\ \A j \in 1..Len(Q) : j >= i => OnlyGoodbyes(Q[j], r)
      BY <2>3 DEF Revoked
    <3>2. ASSUME NEW k \in 1..Len(Tail(Q)), Mentions(Tail(Q)[k], r), k + 1 >= i
          PROVE  Revoked(Tail(Q), r)
      <4>1. ASSUME NEW j \in 1..Len(Tail(Q)), j >= k PROVE OnlyGoodbyes(Tail(Q)[j], r)
        <5>1. j + 1 \in 1..Len(Q) /\ Tail(Q)[j] = Q[j + 1] /\ j + 1 >= i
          BY <1>4, <3>2, <4>1
        <5>2. QED
          BY <3>1, <5>1
      <4>2. QED
        BY <3>2, <4>1 DEF Revoked
    <3>3. CASE i = 1
      <4>1. r \notin cache'[d]
        BY <1>4, <1>5, <1>7, <3>1, <3>3
      <4>2. PICK k \in 1..Len(Tail(Q)) : Mentions(Tail(Q)[k], r)
        BY <1>6, <1>13, <4>1 DEF Believed
      <4>3. QED
        BY <1>6, <3>2, <3>3, <4>2
    <3>4. CASE i # 1
      <4>1. i - 1 \in 1..Len(Tail(Q)) /\ Tail(Q)[i - 1] = Q[i] /\ (i - 1) + 1 >= i
        BY <1>4, <3>1, <3>4
      <4>2. QED
        BY <1>6, <3>1, <3>2, <4>1
    <3>5. QED
      BY <3>3, <3>4
  <2>4. QED
    BY <1>1, <2>2, <2>3
<1>14. DumpFine(d)'
  BY <1>1, <1>13 DEF DumpFine
<1>15. \A p \in Dumps : DumpFine(p)'
  BY <1>12, <1>14
<1>16. QED
  BY <1>9, <1>10, <1>11, <1>15 DEF MdnsInv

\* Of who loses a datagram, less is said.
LEMMA DatagramLost == ASSUME MdnsInv, NEW n \in Mdns!Nodes, Mdns!Lose(n) PROVE MdnsInv'
<1>1. /\ datagrams[n] # <<>>
      /\ datagrams' = [datagrams EXCEPT ![n] = Tail(@)]
      /\ lost' = lost \cup {n}
      /\ srv' = srv /\ cli' = cli /\ cache' = cache /\ foreign' = foreign
  BY DEF Mdns!Lose
<1>2. /\ Mdns!TypeOK /\ \A t \in Services : ServiceFine(t)
      /\ \A b \in Clients : ClientFine(b)
      /\ \A p \in Dumps : DumpFine(p)
  BY DEF MdnsInv
<1>3. /\ DOMAIN datagrams' = Mdns!Nodes /\ datagrams'[n] = Tail(datagrams[n])
      /\ \A m \in Mdns!Nodes \ {n} : datagrams'[m] = datagrams[m]
  BY <1>1, <1>2 DEF Mdns!TypeOK
<1>4. Mdns!TypeOK'
  <2>1. ASSUME NEW m \in Clients \cup Dumps PROVE datagrams'[m] \in Seq(Mdns!Responses)
    <3>1. datagrams[m] \in Seq(Mdns!Responses)
      BY <1>2 DEF Mdns!TypeOK
    <3>2. QED
      BY <1>1, <1>3, <3>1, Taken
  <2>2. ASSUME NEW t \in Services PROVE datagrams'[t] \in Seq(Mdns!Datagrams)
    <3>1. datagrams[t] \in Seq(Mdns!Datagrams)
      BY <1>2 DEF Mdns!TypeOK
    <3>2. QED
      BY <1>1, <1>3, <3>1, Taken
  <2>3. lost' \subseteq Mdns!Nodes
    BY <1>1, <1>2 DEF Mdns!TypeOK
  <2>4. QED
    BY <1>1, <1>2, <1>3, <2>1, <2>2, <2>3 DEF Mdns!TypeOK
<1>5. ASSUME NEW t \in Services PROVE ServiceFine(t)'
  <2>1. CASE t # n
    BY <1>1, <1>2, <1>3, <2>1, SameService
  <2>2. CASE t = n
    <3>1. datagrams[t] \in Seq(Mdns!Datagrams) /\ ServiceFine(t)
      BY <1>2 DEF Mdns!TypeOK
    <3>2. \A i \in 1..Len(Tail(datagrams[t])) :
            i + 1 \in 1..Len(datagrams[t]) /\ Tail(datagrams[t])[i] = datagrams[t][i + 1]
      BY <1>1, <2>2, <3>1, Taken
    <3>3. ASSUME NEW i \in 1..Len(datagrams'[t]) PROVE Addressed(t, datagrams'[t][i])
      BY <1>3, <2>2, <3>1, <3>2 DEF ServiceFine
    <3>4. srv[t].at = "serving"
      BY <1>1, <2>2, <3>1 DEF ServiceFine
    <3>5. QED
      BY <1>1, <3>1, <3>3, <3>4 DEF ServiceFine, Addressed
  <2>3. QED
    BY <2>1, <2>2
<1>6. ASSUME NEW c \in Clients PROVE ClientFine(c)'
  <2>1. ClientFine(c) /\ cli[c].served \subseteq Services /\ datagrams[c] \in Seq(Mdns!Responses)
        /\ \A t \in Services : datagrams[t] \in Seq(Mdns!Datagrams)
    BY <1>2 DEF Mdns!TypeOK
  <2>2. ASSUME NEW t \in cli[c].served, NEW x \in cli[c].asked,
               srv[t].at = "serving", srv[t].running, lost' \cap {c, t} = {}
        PROVE  Answered(c, t, x)'
    <3>1. c # n /\ t # n /\ lost \cap {c, t} = {}
      BY <1>1, <2>2
    <3>2. datagrams'[c] = datagrams[c] /\ datagrams'[t] = datagrams[t]
      BY <1>3, <2>1, <3>1
    <3>3. Answered(c, t, x)
      BY <2>1, <2>2, <3>1 DEF ClientFine
    <3>4. Grows(datagrams[c], datagrams'[c]) /\ Grows(datagrams[t], datagrams'[t])
      BY <2>1, <3>2, GrowsFine
    <3>5. QED
      BY <1>1, <3>3, <3>4, AnswerKept
  <2>3. QED
    BY <1>1, <2>1, <2>2 DEF ClientFine
<1>7. ASSUME NEW p \in Dumps PROVE DumpFine(p)'
  <2>1. CASE p # n
    <3>1. datagrams'[p] = datagrams[p] /\ DumpFine(p) /\ (p \in lost' <=> p \in lost)
      BY <1>1, <1>2, <1>3, <2>1
    <3>2. QED
      BY <1>1, <3>1 DEF DumpFine
  <2>2. CASE p = n
    <3>1. datagrams[p] \in Seq(Mdns!Responses) /\ DumpFine(p) /\ p \in lost'
      BY <1>1, <1>2, <2>2 DEF Mdns!TypeOK
    <3>2. \A i \in 1..Len(Tail(datagrams[p])) :
            i + 1 \in 1..Len(datagrams[p]) /\ Tail(datagrams[p])[i] = datagrams[p][i + 1]
      BY <1>1, <2>2, <3>1, Taken
    <3>3. ASSUME NEW r, Believed(cache[p], datagrams'[p], r) PROVE Believed(cache[p], datagrams[p], r)
      BY <1>3, <2>2, <3>2, <3>3 DEF Believed
    <3>4. QED
      BY <1>1, <3>1, <3>3 DEF DumpFine
  <2>3. QED
    BY <2>1, <2>2
<1>8. QED
  BY <1>4, <1>5, <1>6, <1>7 DEF MdnsInv

\* No step of a service, a client or a dump breaks their invariant.
LEMMA MdnsStep == MdnsInv /\ [Mdns!Next]_services => MdnsInv'
<1> SUFFICES ASSUME MdnsInv, [Mdns!Next]_services PROVE MdnsInv'
  OBVIOUS
<1>1. CASE \E s \in Services : \/ Mdns!service_mdns(s) \/ Mdns!Serve(s) \/ Mdns!ServeRest(s)
                               \/ Mdns!Goodbye(s) \/ Mdns!signal_handler(s)
  BY <1>1, ServiceStarts, Served, ServedRest, ServiceLeaves, ServiceInterrupted
<1>2. CASE \E c \in Clients : \/ Mdns!send_dns_sd(c) \/ Mdns!send_mdns_query(c)
                              \/ Mdns!query_callback(c) \/ Mdns!TimeOut(c)
  BY <1>2, ClientDiscovers, ClientQueries, ClientHears, ClientGivesUp
<1>3. CASE \E d \in Dumps : Mdns!dump_callback(d)
  BY <1>3, DumpReads
<1>4. CASE \E f \in {4, 6}, q \in Foreign : Mdns!AskForeign(f, q)
  BY <1>4, ForeignAsks
<1>5. CASE \E n \in Mdns!Nodes : Mdns!Lose(n)
  BY <1>5, DatagramLost
<1>6. CASE UNCHANGED services
  <2>1. /\ srv' = srv /\ cli' = cli /\ cache' = cache /\ datagrams' = datagrams /\ foreign' = foreign
        /\ lost' = lost
    BY <1>6 DEF services
  <2>2. Mdns!TypeOK /\ \A n \in Mdns!Nodes : Grows(datagrams[n], datagrams'[n])
    BY <2>1, GrowsFine DEF MdnsInv, Mdns!TypeOK
  <2>3. Mdns!TypeOK'
    BY <2>1, <2>2 DEF Mdns!TypeOK
  <2>4. \A t \in Services : ServiceFine(t)'
    BY <2>1, SameService DEF MdnsInv
  <2>5. ASSUME NEW c \in Clients PROVE ClientFine(c)'
    <3>1. ClientFine(c) /\ cli[c].served \subseteq Services
      BY <2>2 DEF MdnsInv, Mdns!TypeOK
    <3>2. QED
      BY <2>1, <2>2, <3>1, ClientKept
  <2>6. ASSUME NEW d \in Dumps PROVE DumpFine(d)'
    <3>1. DumpFine(d)
      BY DEF MdnsInv
    <3>2. QED
      BY <2>1, <3>1 DEF DumpFine
  <2>7. QED
    BY <2>3, <2>4, <2>5, <2>6 DEF MdnsInv
<1>7. QED
  BY <1>1, <1>2, <1>3, <1>4, <1>5, <1>6 DEF Mdns!Next

\* What the invariant is for.
LEMMA MdnsKnows == MdnsInv => Mdns!TypeOK /\ Mdns!Found /\ Mdns!Withdrawn
<1> SUFFICES ASSUME MdnsInv PROVE Mdns!Found /\ Mdns!Withdrawn
  BY DEF MdnsInv
<1>1. ASSUME NEW c \in Clients, cli[c].at = "done", NEW s \in cli[c].served, NEW q \in cli[c].asked,
             srv[s].at = "serving", srv[s].running, lost \cap {c, s} = {}
      PROVE  Mdns!Follow(s, Mdns!Follow(s, Mdns!Direct(s, q))) \subseteq cli[c].heard
  <2>1. ClientFine(c) /\ s \in Services
    BY DEF MdnsInv, Mdns!TypeOK
  <2>2. Answered(c, s, q) /\ q.type \in {"PTR", "SRV", "A", "AAAA"}
    BY <1>1, <2>1 DEF ClientFine
  <2>3. Mdns!service_callback(s, q.name, q.type) \subseteq cli[c].heard
    BY <1>1, <2>2 DEF Answered
  <2>4. QED
    BY <2>1, <2>2, <2>3, WayKnown
<1>2. ASSUME NEW s \in Services, NEW d \in Dumps, srv[s].at # "serving", datagrams[d] = <<>>, d \notin lost,
             NEW r \in cache[d] \cap Mdns!Announced(s)
      PROVE  FALSE
  <2>1. Believed(cache[d], datagrams[d], r)
    BY DEF Believed
  <2>2. /\ srv[s].socks \cap Families[d] # {}
        /\ srv[s].at = "left" => Revoked(datagrams[d], r)
    BY <1>2, <2>1 DEF MdnsInv, DumpFine
  <2>3. srv[s].at = "left"
    BY <1>2, <2>2 DEF MdnsInv, ServiceFine, Mdns!TypeOK
  <2>4. Len(datagrams[d]) = 0
    BY <1>2
  <2>5. QED
    BY <2>2, <2>3, <2>4 DEF Revoked
<1>3. QED
  BY <1>1, <1>2 DEF Mdns!Found, Mdns!Withdrawn

---------------------------------------------------------------------------
(* The seven programs. *)

Inv == TrayInv /\ DetectInv /\ BloomInv /\ IpInv /\ ProcessInv /\ PicturesInv /\ MdnsInv

LEMMA AllTuples ==
    /\ UNCHANGED icon => UNCHANGED Tray!vars
    /\ UNCHANGED detector => UNCHANGED Detect!vars
    /\ UNCHANGED bloom => UNCHANGED Bloom!vars
    /\ UNCHANGED addresses => UNCHANGED Ip!vars
    /\ UNCHANGED processes => UNCHANGED Process!vars
BY DEF icon, detector, bloom, addresses, processes, Tray!vars, Detect!vars, Bloom!vars, Ip!vars, Ip!kernel,
       Ip!program, Ip!known, Process!vars

\* Whatever each program starts from and does, it keeps its own part; the others
\* stand still meanwhile.
THEOREM Invariance == Spec => []Inv
<1>1. /\ Tray!TrayAssumption /\ Detect!TriesAssumption /\ Bloom!BloomAssumption /\ Ip!IpAssumption
      /\ Process!ProcessAssumption /\ Xpm!XpmAssumption
  BY DesktopAssumption
<1>2. Init => Inv
  BY <1>1, TrayInit, DetectInit, BloomInit, IpInit, ProcessInit, PicturesInit, MdnsInit
  DEF Init, Inv
<1>3. Inv /\ [Next]_vars => Inv'
  <2> SUFFICES ASSUME Inv, [Next]_vars PROVE Inv'
    OBVIOUS
  <2>1. /\ [Tray!Next]_(Tray!vars) /\ [Detect!Next]_(Detect!vars)
        /\ [Bloom!Next]_(Bloom!vars) /\ [Ip!Next]_(Ip!vars) /\ [Process!Next]_(Process!vars)
        /\ [Xpm!Next]_pictures /\ [Mdns!Next]_services
    BY AllTuples DEF Next, About, vars
  <2>2. QED
    BY <1>1, <2>1, TrayStep, DetectStep, BloomStep, IpStep, ProcessStep, PicturesStep, MdnsStep DEF Inv
<1>4. QED
  BY <1>2, <1>3, PTL DEF Spec

\* Every variable of the seven has its type: the opacity of a bubble that fades by any
\* step stays a number above minus that step, the font's count is never below -1, no
\* bit lies beyond its field, a pixel of an icon is an entry of its palette, and no
\* more datagrams are lost than the bound says.
THEOREM TypeCorrect == Spec => []TypeOK
<1>1. Inv => TypeOK
  BY DesktopAssumption, TrayKnows, BloomKnows, ProcessKnows, PicturesKnow, MdnsKnows
  DEF Inv, DetectInv, IpInv, TypeOK
<1>2. QED
  BY <1>1, Invariance, PTL

\* For every menu height, every choice of options and every order of events: the
\* highlighted item can be clicked (x11ut__update_menu_hover, x11ut__menu_hide),
\* the menu and the icon are in the language and theme in force, what is on the
\* screen was drawn after the last change, and the menu's font is open as often
\* as there is a menu, though callbacks free the menu that was clicked.
THEOREM MenuSoundAlways == Spec => []MenuSound
<1>1. Inv => MenuSound
  BY TrayKnows DEF Inv, MenuSound
<1>2. QED
  BY <1>1, Invariance, PTL

\* bloom_check says yes to every element a filter was given, has from another by
\* bloom_merge or from a file by bloom_load, whatever the hashes and the shapes; and
\* who has read all of the kernel's messages believes in no address that has gone, and
\* knows each there is, but for what the names printed, the filters of its list and
\* the interfaces that have gone account for: however many addresses there are, and
\* however long the socket's buffer is, unless it overran.  A finished
\* listing of psutil names no process twice, none with a name or a number of threads
\* it did not have meanwhile, and, unless it was full, every process that was there
\* all along; the process found to have the most threads has no fewer than any of
\* those had at some moment: for any number of processes, of changes to them while
\* the call runs, and of directory entries a system call returns.  Every pixel of an
\* icon is where it was in the picture of its file and no more than 47 of 255 away,
\* whatever the size of the picture, of an icon and of the tables and however the
\* ratio of the sizes is rounded (a float puts a pixel at the exact place or at the
\* one before), if the file is whole and its colours are few.  And an mdns client that is done has the answers
\* of every service it could reach, a dump knows what a service announced and has
\* forgotten it when the service has left: for any number of nodes, families and
\* questions, unless a datagram to one of them was lost.
THEOREM ToldIsKnownAlways == Spec => []ToldIsKnown
<1>1. Inv => ToldIsKnown
  BY DesktopAssumption, BloomKnows, IpKnows, ProcessKnows, PicturesKnow, MdnsKnows
  DEF Inv, ToldIsKnown
<1>2. QED
  BY <1>1, Invariance, PTL
====
