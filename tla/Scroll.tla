---------------------------------- MODULE Scroll ----------------------------------
(***************************************************************************)
(* The scrolled lists of the library (src/crates/fluxplay/src/browser.rs   *)
(* and app.rs): which rows of a list of any length are laid out, and the   *)
(* finger, the wheel and the keys that move it.                            *)
(*                                                                         *)
(* The offset is kept twice: by the app, which lays the rows out, and by   *)
(* the toolkit's widget, which the app moves by operations and which       *)
(* tells, at a redraw, where it is.  Lengths and offsets are whole pixels, *)
(* few of them.                                                            *)
(***************************************************************************)
EXTENDS Integers, Sequences, FiniteSets

CONSTANTS
  Item,       \* row height
  View,       \* height of the list on screen
  Totals,     \* numbers of rows of the lists there are
  MaxContent, \* MAX_VIRTUAL_CONTENT_PX
  Travel,     \* VIRTUAL_ROW_TRAVEL_PX
  Overscan,   \* rows laid out above and below
  Lead,       \* most rows of lead of a fling
  Slop,       \* BROWSE_DRAG_SLOP
  Steps,      \* distances of a wheel step, or of a move of the finger
  MaxOps,     \* bound: operations on their way to the widget
  Faults      \* subset of {"frame", "episodes"}: two steps, or a step and a new list, in
              \* one frame; a series' page answered when its list is no more at its top

VARIABLES
  len,    \* rows of the list
  y,      \* browse_scroll_y
  speed,  \* sign of browse_scroll_vy
  at,     \* the widget's offset
  heard,  \* the offset it told last
  ops,    \* operations on their way to it
  told,   \* what it told, on its way: a sequence of at most one offset
  finger, \* [down, moved, accum, last]: browse_dragging, _moved, _accum, _last_dy
  coast,  \* browse_coast_vy
  opened  \* what the last release did: "nothing", "tile" or "focus"

vars == <<len, y, speed, at, heard, ops, told, finger, coast, opened>>

-----------------------------------------------------------------------------
Least(a, b) == IF a <= b THEN a ELSE b
Most(a, b) == IF a >= b THEN a ELSE b
Clamp(x, lo, hi) == Least(Most(x, lo), hi)
Ceil(a, b) == (a + b - 1) \div b
Round(a, b) == (2 * a + b) \div (2 * b)

\* virtual_content_height
ContentHeight(total) ==
  IF total = 0 THEN View
  ELSE IF total * Item <= MaxContent THEN total * Item
  ELSE Most(Clamp(total * Travel, 4 * View, MaxContent), View + Item)

MaxScroll(total) == Most(ContentHeight(total) - View, 0)

Wanted(over) == Ceil(View, Item) + 2 * over

\* virtual_slice, as long as the list fits
Natural(offset, total, over) ==
  LET o == Clamp(offset, 0, Most(total * Item - View \div 4, 0))
      start == Most(o \div Item - over, 0)
      end == Least(start + Wanted(over), total)
  IN  [start |-> start, end |-> end, top |-> start * Item, bottom |-> (total - end) * Item]

\* The spacers alone say where the rows are.
CompressedLoose(offset, total, over) ==
  LET content == ContentHeight(total)
      scroll == Most(content - View, 1)
      visible == Most(1, Least(Wanted(over), Most(content - View, View + Item) \div Item))
      last == total - Least(visible, total)
      start == Least(Round(Clamp(offset, 0, scroll) * last, scroll), last)
      end == Least(start + visible, total)
      remain == Most(content - (end - start) * Item, 0)
      top == IF last = 0 THEN 0 ELSE (start * remain) \div last
  IN  [start |-> start, end |-> end, top |-> top, bottom |-> remain - top]

\* virtual_slice, compressed: the rows go by faster than the pixels, and the band of
\* those laid out is kept over the view.
Compressed(offset, total, over) ==
  LET content == ContentHeight(total)
      scroll == Most(content - View, 1)
      o == Clamp(offset, 0, scroll)
      visible == Most(1, Least(Wanted(over), Most(content - View, View + Item) \div Item))
      last == total - Least(visible, total)
      start == Least(Round(o * last, scroll), last)
      end == Least(start + visible, total)
      mid == (end - start) * Item
      remain == Most(content - mid, 0)
      prop == IF last = 0 THEN 0 ELSE (start * remain) \div last
      lo == Clamp(o + View - mid, 0, remain)
      hi == Clamp(o, 0, remain)
      top == Clamp(prop, Least(lo, hi), Most(lo, hi))
  IN  [start |-> start, end |-> end, top |-> top, bottom |-> Most(remain - top, 0)]

VirtualSlice(offset, total, over) ==
  IF total = 0 THEN [start |-> 0, end |-> 0, top |-> 0, bottom |-> 0]
  ELSE IF total * Item <= MaxContent THEN Natural(offset, total, over)
  ELSE Compressed(offset, total, over)

\* The rows painted over the view: no overscan.
Painted(offset, total) == VirtualSlice(offset, total, 0)

\* art_prefetch_window, in rows
Prefetched(offset, total, dir, lead) ==
  LET s == VirtualSlice(offset, total, Overscan + lead \div 2)
      back == IF dir = -1 THEN lead ELSE IF dir = 0 THEN lead \div 2 ELSE 0
      ahead == IF dir = 1 THEN lead ELSE IF dir = 0 THEN lead \div 2 ELSE 0
  IN  Most(s.start - back, 0)..(Least(s.end + ahead, total) - 1)

-----------------------------------------------------------------------------
Still == [down |-> FALSE, moved |-> FALSE, accum |-> 0, last |-> 0]

Init ==
  /\ len \in Totals
  /\ y = 0 /\ speed = 0 /\ at = 0 /\ heard = 0 /\ ops = <<>> /\ told = <<>>
  /\ finger = Still /\ coast = 0 /\ opened = "nothing"

Moves(dy) == [kind |-> "by", dy |-> dy]
Snap == [kind |-> "snap", dy |-> 0]
Drawn == ops = <<>> /\ heard = at
Quiet == Drawn /\ told = <<>>
\* What moves the list comes a frame after what moved it last.
Framed == Len(ops) < MaxOps /\ (Drawn \/ "frame" \in Faults)

\* Message::BrowseScrollBy
ScrollBy(dy) ==
  /\ Framed
  /\ y' = Clamp(y + dy, 0, Most(ContentHeight(len) - View, 1))
  /\ ops' = Append(ops, Moves(dy))

Wheel(dy) ==
  /\ dy # 0
  /\ ScrollBy(dy)
  /\ UNCHANGED <<len, speed, at, heard, told, finger, coast, opened>>

\* The list changes and the offset with it, the widget is not told.
NewListUnsnapped(total) ==
  /\ Framed
  /\ len' = total /\ y' = 0 /\ speed' = 0
  /\ UNCHANGED <<at, heard, ops, told, finger, coast, opened>>

\* rebuild_browse_index and Message::BrowseIndexReady: another list, from its top.
NewList(total) ==
  /\ Framed
  /\ len' = total /\ y' = 0 /\ speed' = 0
  /\ ops' = Append(ops, Snap)
  /\ UNCHANGED <<at, heard, told, finger, coast, opened>>

\* Message::SeriesDetailLoaded: the episodes of the page from their top.
EpisodesLoaded(total) ==
  /\ (Quiet /\ at = 0) \/ "episodes" \in Faults
  /\ len' = total /\ y' = 0
  /\ UNCHANGED <<speed, at, heard, ops, told, finger, coast, opened>>

\* The widget: it does what it is asked, within its own content; the user drags
\* its bar, and a redraw, tell where it is.
WidgetActs ==
  /\ ops # <<>>
  /\ ops' = Tail(ops)
  /\ at' = IF Head(ops).kind = "snap" THEN 0 ELSE Clamp(at + Head(ops).dy, 0, MaxScroll(len))
  /\ UNCHANGED <<len, y, speed, heard, told, finger, coast, opened>>
BarDragged(offset) ==
  /\ Framed /\ told = <<>> /\ at # offset
  /\ at' = offset /\ heard' = offset /\ told' = <<offset>>
  /\ UNCHANGED <<len, y, speed, ops, finger, coast, opened>>
Redraw ==
  /\ told = <<>> /\ Least(at, MaxScroll(len)) # heard
  /\ at' = Least(at, MaxScroll(len))
  /\ heard' = at' /\ told' = <<at'>>
  /\ UNCHANGED <<len, y, speed, ops, finger, coast, opened>>

\* Message::BrowseScrolled
BrowseScrolled ==
  /\ told # <<>>
  /\ speed' = IF told[1] > y THEN 1 ELSE IF told[1] < y THEN -1 ELSE 0
  /\ y' = told[1]
  /\ told' = <<>>
  /\ UNCHANGED <<len, at, heard, ops, finger, coast, opened>>

\* A fling's flag stays with the next gesture.
DragStartKeepsFlag ==
  /\ ~finger.down
  /\ finger' = [Still EXCEPT !.down = TRUE, !.moved = finger.moved]
  /\ coast' = 0 /\ opened' = "nothing"
  /\ UNCHANGED <<len, y, speed, at, heard, ops, told>>

\* Message::BrowseDragStart
DragStart ==
  /\ ~finger.down
  /\ finger' = [Still EXCEPT !.down = TRUE]
  /\ coast' = 0 /\ opened' = "nothing"
  /\ UNCHANGED <<len, y, speed, at, heard, ops, told>>

\* Message::BrowseDragAt, a move that is seen
DragAt(dy) ==
  /\ finger.down /\ dy # 0
  /\ LET way == Least(finger.accum + (IF dy < 0 THEN -dy ELSE dy), Slop) IN
     \/ /\ way < Slop
        /\ finger' = [finger EXCEPT !.accum = way]
        /\ UNCHANGED <<y, ops, speed>>
     \/ /\ way >= Slop
        /\ finger' = [finger EXCEPT !.accum = way, !.moved = TRUE, !.last = dy]
        /\ speed' = IF dy > 0 THEN 1 ELSE -1
        /\ ScrollBy(dy)
  /\ UNCHANGED <<len, at, heard, told, coast, opened>>

\* The tile opens, moved or not.
ReleaseOpens ==
  /\ finger.down
  /\ opened' = "tile"
  /\ finger' = [finger EXCEPT !.down = FALSE, !.last = 0]
  /\ coast' = 0
  /\ UNCHANGED <<len, y, speed, at, heard, ops, told>>

\* The release on a tile, which hears of it first and takes the flag
\* (consume_browse_drag_suppress), and Message::BrowseDragEnd after it.
ReleaseOnTile ==
  /\ finger.down
  /\ opened' = IF finger.moved THEN "nothing" ELSE "tile"
  /\ finger' = [finger EXCEPT !.down = FALSE, !.moved = FALSE, !.last = 0]
  /\ coast' = 0
  /\ UNCHANGED <<len, y, speed, at, heard, ops, told>>

\* Message::BrowseDragEnd alone: the list coasts on, and the flag stays.
ReleaseOnGap ==
  /\ finger.down
  /\ opened' = "nothing"
  /\ finger' = [finger EXCEPT !.down = FALSE, !.last = 0]
  /\ coast' = IF finger.moved THEN finger.last ELSE 0
  /\ UNCHANGED <<len, y, speed, at, heard, ops, told>>

\* apply_browse_coast_step
CoastTick ==
  /\ coast # 0
  /\ ScrollBy(coast)
  /\ coast' = IF coast > 0 THEN coast - 1 ELSE coast + 1
  /\ UNCHANGED <<len, speed, at, heard, told, finger, opened>>

\* Message::BrowseActivate, by a key: it opens what has the focus through the same
\* flag.
Activate ==
  /\ len > 0 /\ ~finger.down
  /\ opened' = IF finger.moved THEN "nothing" ELSE "focus"
  /\ finger' = [finger EXCEPT !.moved = FALSE]
  /\ UNCHANGED <<len, y, speed, at, heard, ops, told, coast>>

Next ==
  \/ \E dy \in Steps : Wheel(dy) \/ DragAt(dy)
  \/ \E total \in Totals : NewList(total) \/ EpisodesLoaded(total)
  \/ WidgetActs \/ Redraw \/ BrowseScrolled
  \/ \E offset \in {0, MaxScroll(len) \div 2, MaxScroll(len)} : BarDragged(offset)
  \/ DragStart \/ ReleaseOnTile \/ ReleaseOnGap \/ CoastTick \/ Activate

Spec == Init /\ [][Next]_vars

-----------------------------------------------------------------------------
\* The state has its type.
TypeOK ==
  /\ len \in Totals /\ y \in Nat /\ at \in Nat
  /\ y <= Most(ContentHeight(len) - View, 1) \/ told # <<>> \/ ops # <<>> \/ ~Quiet
  /\ speed \in -1..1 /\ Len(ops) <= MaxOps /\ Len(told) <= 1
  /\ opened \in {"nothing", "tile", "focus"}

\* "Force iced scrollables back to top" (app.rs:7286): when nothing is on its way, the
\* rows that are laid out are those of where the widget is.
RestAgrees == Quiet => VirtualSlice(y, len, Overscan) = VirtualSlice(at, len, Overscan)

AtTop == Quiet /\ y = 0 /\ finger = Still /\ coast = 0 /\ speed = 0

\* Wherever the widget may be, the rows laid out with their spacers are as high as its
\* content and cover the view (browser.rs:278); every row of the list is painted
\* somewhere; and the pictures asked
\* ahead, whichever way it goes, are at least those on screen.  They depend on the list
\* alone, and are looked at when it is at its top.
RowsCover ==
  AtTop => \A offset \in 0..MaxScroll(len) :
    LET s == VirtualSlice(offset, len, Overscan)
        mid == (s.end - s.start) * Item
    IN  len > 0 => /\ s.top + mid + s.bottom = ContentHeight(len)
                   /\ s.top <= offset
                   /\ s.top + mid >= Least(offset + View, ContentHeight(len))
EveryRowShown ==
  AtTop => \A row \in 0..(len - 1) :
    \E offset \in 0..MaxScroll(len) : row \in Painted(offset, len).start..(Painted(offset, len).end - 1)
PicturesAhead ==
  AtTop => \A offset \in 0..MaxScroll(len), dir \in -1..1, lead \in 2..Lead :
    Painted(offset, len).start..(Painted(offset, len).end - 1) \subseteq Prefetched(offset, len, dir, lead)

\* "after a mosaic fling, the next tile on_release must not open" (app.rs:1198); the
\* list coasts after a fling only.
\* A finger that has moved less than that opens what it is on, whatever the fling
\* before it left, and the list it touches coasts no more (app.rs:2270).
Gestures ==
  /\ opened = "tile" => finger.accum < Slop
  /\ coast # 0 => finger.accum >= Slop
  /\ finger.down => coast = 0 /\ (finger.accum < Slop => ~finger.moved)
=============================================================================
