---- MODULE XpmImage ----
(***************************************************************************)
(* x11ut/x11tray.c, from an image file to the lines of an XPM icon: load,  *)
(* scale to the size of a tray icon, find a palette, and look every pixel  *)
(* up in it.  A pixel is one channel of 0..255 here, as of a grey picture: *)
(* the code treats the three alike, and finds what is nearest by their     *)
(* squares.                                                                *)
(***************************************************************************)
EXTENDS Integers, Sequences, FiniteSets, SequencesExt

CONSTANTS Levels,    \* values a pixel of the user's picture may have
          Side,      \* pictures are up to Side by Side
          Target,    \* width and height of an icon: 24
          Few,       \* palette of few colours: 32
          Table,     \* entries after which the search for colours stops: 64
          Truncated  \* i times n / Target in floats, cut to an integer

\* What an instance has to satisfy.
XpmAssumption ==
    /\ Levels \subseteq 0..255
    /\ {Side, Target, Few, Table} \subseteq Nat \ {0} /\ Few <= Table
    /\ Truncated \in [(0..Target-1) \X (1..Side) -> Nat]

VARIABLES file,    \* the file the user names
          step,    \* none, named, loaded or done
          pixels,  \* rows of the picture in memory
          xpm      \* the icon: its palette and its rows of palette entries

vars == <<file, step, pixels, xpm>>

Sizes == 1..Side
Picture == UNION {[1..h -> [1..w -> Levels]] : h \in Sizes, w \in Sizes}

\* A file holds the rows of a picture up to where it was cut.
File == [format : {"png", "jpeg", "bmp", "bmp from the top", "gif"}, picture : Picture, rows : 0..Side]
IsWhole(f) == f.rows >= Len(f.picture)

Unset == -1      \* memory malloc handed out
Width(rows) == Len(rows[1])

x11ut__load_png(f) == IF IsWhole(f) THEN f.picture ELSE <<>>

\* A scan line that fails ends the loop; the rest of the block stays unset.
x11ut__load_jpeg(f) ==
    IF f.rows = 0 THEN <<>>
    ELSE [y \in 1..Len(f.picture) |->
            IF y <= f.rows THEN f.picture[y] ELSE [x \in 1..Width(f.picture) |-> Unset]]

\* The file holds the rows from the bottom, or from the top with a negative height.
InFile(f) == IF f.format = "bmp" THEN Reverse(f.picture) ELSE f.picture

load_bmp_flipped(f) == IF IsWhole(f) THEN InFile(f) ELSE <<>>

x11ut__load_bmp(f) ==
    LET h == Len(f.picture) IN
    IF ~IsWhole(f) THEN <<>>
    ELSE [y \in 1..h |-> InFile(f)[IF f.format = "bmp" THEN h + 1 - y ELSE y]]

Load(f) ==
    CASE f.format = "png" -> x11ut__load_png(f)
      [] f.format = "jpeg" -> x11ut__load_jpeg(f)
      [] f.format = "gif" -> <<>>
      [] OTHER -> x11ut__load_bmp(f)

\* Nearest neighbour: the pixel of the source under pixel i of Target, of n.
Source(i, n) == LET cut == Truncated[i - 1, n] IN (IF cut >= n THEN n - 1 ELSE cut) + 1

IconSized(rows) == Len(rows) = Target /\ Width(rows) = Target

x11ut__resize_image(rows) ==
    [y \in 1..Target |-> [x \in 1..Target |-> rows[Source(y, Len(rows))][Source(x, Width(rows))]]]

Bits4(v) == v - (v % 16)
Bits3(v) == v - (v % 32)

\* Pixels lie row by row in memory.
Before(p, q) == p[1] < q[1] \/ (p[1] = q[1] /\ p[2] < q[2])
Places(rows) == (1..Len(rows)) \X (1..Width(rows))

\* The first n different colours of a picture, an entry of the table each, which is
\* known by the place where its colour is first met: entries are in that order.
Met(colour, p) == {colour[q] : q \in {q \in DOMAIN colour : Before(q, p)}}
Entries(colour, n) ==
    {p \in DOMAIN colour : colour[p] \notin Met(colour, p) /\ Cardinality(Met(colour, p)) < n}

Palette(rows) ==
    LET fine == [p \in Places(rows) |-> Bits4(rows[p[1]][p[2]])]
        coarse == [p \in Places(rows) |-> Bits3(rows[p[1]][p[2]])] IN
    IF Cardinality(Entries(fine, Table)) > Few
      THEN [p \in Entries(coarse, Few) |-> coarse[p]]
      ELSE [p \in Entries(fine, Table) |-> fine[p]]

Distance(a, b) == IF a < b THEN b - a ELSE a - b

NearestWrong(palette, v) == CHOOSE p \in DOMAIN palette : \A q \in DOMAIN palette \ {p} : Before(p, q)

\* Pixels are looked up with three bits, in a palette of four when colours are few:
\* the first of the entries that are nearest.
Nearer(palette, v, p, q) ==
    LET near(e) == Distance(palette[e], Bits3(v)) IN
    near(p) < near(q) \/ (near(p) = near(q) /\ Before(p, q))
Nearest(palette, v) ==
    CHOOSE p \in DOMAIN palette : \A q \in DOMAIN palette \ {p} : Nearer(palette, v, p, q)

x11ut__rgb_to_xpm(rows) ==
    LET palette == Palette(rows) IN
    [palette |-> palette, rows |-> [y \in DOMAIN rows |-> [x \in DOMAIN rows[y] |->
        Nearest(palette, rows[y][x])]]]

NoXpm == [palette |-> [p \in {} |-> 0], rows |-> <<>>]

x11ut__validate_xpm_data(x) ==
    /\ DOMAIN x.palette # {} /\ x.rows # <<>>
    /\ \A row \in ToSet(x.rows) : Len(row) = Width(x.rows)

NoFile == [format |-> "none", picture |-> <<>>, rows |-> 0]

Init == file = NoFile /\ step = "none" /\ pixels = <<>> /\ xpm = NoXpm

\* The user's option -i.
Name ==
    /\ step = "none"
    /\ file' \in File /\ step' = "named"
    /\ UNCHANGED <<pixels, xpm>>

\* x11ut__convert_image_to_xpm.  Unset memory may hold any bytes.
LoadFile ==
    /\ step = "named"
    /\ LET read == Load(file) IN
       /\ step' = IF read = <<>> THEN "done" ELSE "loaded"
       /\ \E junk \in Levels : pixels' =
            [y \in DOMAIN read |-> [x \in DOMAIN read[y] |->
                IF read[y][x] = Unset THEN junk ELSE read[y][x]]]
    /\ UNCHANGED <<file, xpm>>

\* scaled: the memory for the scaled picture is there.
x11ut__convert_image_to_xpm(scaled) ==
    /\ step = "loaded"
    /\ LET small == IF IconSized(pixels) \/ ~scaled THEN pixels ELSE x11ut__resize_image(pixels)
           made == x11ut__rgb_to_xpm(small) IN
       xpm' = IF x11ut__validate_xpm_data(made) THEN made ELSE NoXpm
    /\ step' = "done"
    /\ UNCHANGED <<file, pixels>>

Next == Name \/ LoadFile \/ \E scaled \in BOOLEAN : x11ut__convert_image_to_xpm(scaled)

Spec == Init /\ [][Next]_vars

\* Every variable has its type.
TypeOK ==
    /\ file \in File \cup {NoFile}
    /\ step \in {"none", "named", "loaded", "done"}
    /\ pixels = <<>> \/ pixels \in Picture
    /\ \A row \in ToSet(xpm.rows) : ToSet(row) \subseteq DOMAIN xpm.palette

\* The pixel of the file that pixel y, x of the icon stands for.
Original(y, x) ==
    LET picture == file.picture IN
    IF Len(xpm.rows) = Len(picture) /\ Width(xpm.rows) = Width(picture)
      THEN picture[y][x]
      ELSE picture[Source(y, Len(picture))][Source(x, Width(picture))]

Colours(rows) == UNION {ToSet(row) : row \in ToSet(rows)}

\* Of a picture that is all there and has few colours, every pixel of the icon
\* is where it was, by the code's own rounding, and no more than 47 of 255 away: up to 31 lost by the three
\* bits, and a palette entry at most 16 further.  (Of three channels the sum of the
\* squares is least, which leaves one of them more room.)
PictureKept ==
    xpm.rows # <<>> /\ IsWhole(file) /\ Cardinality(Colours(file.picture)) <= Few =>
        \A y \in DOMAIN xpm.rows : \A x \in DOMAIN xpm.rows[y] :
            Distance(xpm.palette[xpm.rows[y][x]], Original(y, x)) <= 47
====
