------------------------------ MODULE PlayerWindow ------------------------------
(***************************************************************************)
(* The size of the player's window, of the stage in it and of the pictures *)
(* asked of the engine; full screen and picture in picture                 *)
(* (src/crates/fluxplay/src/app.rs, desktop).                              *)
(*                                                                         *)
(* The window system changes a window some time after it was asked to, and *)
(* tells of a new size by an event; the app then asks for the size, whose  *)
(* answer comes later still.  The stage follows a new size only when it is *)
(* really another one, and not at all while a change of mode settles; so   *)
(* do the pictures follow the stage.  Sizes are pixels, times are whole    *)
(* units.                                                                  *)
(***************************************************************************)
EXTENDS Integers, Sequences

CONSTANTS
  Sizes,    \* sizes the user may give to the window
  Opening,  \* size of a new window
  Small,    \* size of picture in picture
  Screen,   \* size of the monitor
  Main,     \* size of the library's window
  Quality,  \* largest picture
  Freeze,   \* player_layout_freeze_until: 600 ms
  Settle,   \* PlayerLayoutDirty after a change of mode: 650 ms
  MaxWaits, \* bound: questions, answers, events and orders under way, each
  Faults    \* subset of {"closed in pip", "fast", "portrait"}: the window is closed in
            \* picture in picture; a window follows another while a mode settles; a window
            \* stands upright beside a library that lies

VARIABLES
  win,     \* the window as it is: [open, size, normal, mode, level]
  orders,  \* what the window system was asked and has not done
  events,  \* sizes it told of, on their way
  asked,   \* sizes that were asked and not read yet
  answers, \* sizes read, on their way
  flags,   \* player_fullscreen, pip_mode, session.ontop
  rect,    \* video_rect, NoSize before the first
  frame,   \* video_frame_wh
  freeze,  \* time until the stage follows again
  dirty    \* times until a late question of the size

vars == <<win, orders, events, asked, answers, flags, rect, frame, freeze, dirty>>

NoSize == <<0, 0>>
NoWindow == [open |-> FALSE, size |-> NoSize, normal |-> NoSize, mode |-> "windowed", level |-> "normal"]
Abs(x) == IF x < 0 THEN -x ELSE x
Wide(s) == s[1] >= s[2]
Even(x) == x - (x % 2)

-----------------------------------------------------------------------------
\* One size is kept for another that is nearly it and of nearly its shape.
SameShape(a, b) == Abs(a[1] * b[2] - b[1] * a[2]) * 100 <= 5 * a[1] * b[2]
Near(a, b) ==
  \/ Abs(a[1] - b[1]) <= 16 /\ Abs(a[2] - b[2]) <= 16
  \/ Abs(a[1] - b[1]) * 100 < 8 * a[1] /\ Abs(a[2] - b[2]) * 100 < 8 * a[2]
KeepsByEdge(a, b) == Wide(a) = Wide(b) /\ Near(a, b)
Keeps(a, b) == Wide(a) = Wide(b) /\ SameShape(a, b) /\ Near(a, b)

\* The stage of a window.
Stage(size) ==
  <<Even(IF size[1] < 160 THEN 160 ELSE size[1]), Even(IF size[2] < 120 THEN 120 ELSE size[2])>>

\* At most Quality, in the same shape.
Capped(s) ==
  IF s[1] <= Quality[1] /\ s[2] <= Quality[2] THEN s
  ELSE IF Quality[1] * s[2] <= Quality[2] * s[1]
       THEN <<Quality[1], Even((s[2] * Quality[1]) \div s[1])>>
       ELSE <<Even((s[1] * Quality[2]) \div s[2]), Quality[2]>>

\* soft_present_wh, with the last picture being f
Wanted == Capped(IF rect # NoSize /\ Wide(rect) = Wide(Main) THEN rect ELSE Main)
Request(f) ==
  IF f # NoSize /\ Wide(f) = Wide(Wanted) /\ (freeze > 0 \/ Keeps(f, Wanted)) THEN f ELSE Wanted

-----------------------------------------------------------------------------
Init ==
  /\ win = NoWindow /\ orders = <<>> /\ events = <<>> /\ asked = 0 /\ answers = <<>>
  /\ flags = [fullscreen |-> FALSE, pip |-> FALSE, ontop |-> FALSE]
  /\ rect = NoSize /\ frame = NoSize /\ freeze = 0 /\ dirty = {}

windowVars == <<win, orders, events>>
askVars == <<asked, answers, dirty>>
sizeVars == <<rect, frame>>

\* The size is asked.
Asks == asked < MaxWaits /\ asked' = asked + 1 /\ UNCHANGED <<answers, dirty>>
Order(o) == Len(orders) < MaxWaits /\ orders' = Append(orders, o)
SettlesUnasked == freeze' = Freeze /\ UNCHANGED <<asked, answers, dirty>>
\* A mode is changed: the stage is kept and the size asked once it settled.
Settles == freeze' = Freeze /\ dirty' = dirty \cup {Settle} /\ UNCHANGED <<asked, answers>>

\* open_or_focus_player, PlayerWindowOpened: a stream is opened.
Open ==
  /\ ~win.open
  /\ "fast" \notin Faults => freeze = 0
  /\ win' = [NoWindow EXCEPT !.open = TRUE, !.size = Opening, !.normal = Opening]
  /\ Asks
  /\ flags' = [flags EXCEPT !.fullscreen = FALSE]
  /\ UNCHANGED <<orders, events, sizeVars, freeze>>

\* WindowClosed, close_player_window: what is under way is of a window that is gone.
Close ==
  /\ win.open
  /\ "closed in pip" \notin Faults => ~flags.pip /\ ~flags.ontop
  /\ win' = NoWindow /\ orders' = <<>> /\ events' = <<>>
  /\ asked' = 0 /\ answers' = <<>> /\ dirty' = {}
  /\ flags' = [flags EXCEPT !.fullscreen = FALSE]
  /\ frame' = NoSize
  /\ UNCHANGED <<rect, freeze>>

ToggleFullscreen ==
  /\ win.open
  /\ Order([do |-> "mode", to |-> IF flags.fullscreen THEN "windowed" ELSE "fullscreen"])
  /\ Settles
  /\ flags' = [flags EXCEPT !.fullscreen = ~@]
  /\ UNCHANGED <<win, events, sizeVars>>

TogglePip ==
  /\ win.open
  /\ Order([do |-> "size", to |-> IF flags.pip THEN Opening ELSE Small])
  /\ Settles
  /\ flags' = [flags EXCEPT !.pip = ~@, !.ontop = ~flags.pip]
  /\ win' = [win EXCEPT !.level = IF flags.pip THEN "normal" ELSE "top"]
  /\ UNCHANGED <<events, sizeVars>>

ToggleOntop ==
  /\ win.open
  /\ flags' = [flags EXCEPT !.ontop = ~@]
  /\ win' = [win EXCEPT !.level = IF flags.ontop THEN "normal" ELSE "top"]
  /\ UNCHANGED <<orders, events, askVars, sizeVars, freeze>>

-----------------------------------------------------------------------------
\* The window system.
Tells(size) ==
  IF size = win.size THEN UNCHANGED events ELSE Len(events) < MaxWaits /\ events' = Append(events, size)
Acts ==
  /\ orders # <<>>
  /\ LET o == Head(orders)
         full == IF o.do = "mode" THEN o.to = "fullscreen" ELSE win.mode = "fullscreen"
         normal == IF o.do = "size" THEN o.to ELSE win.normal
     IN  /\ win' = [win EXCEPT !.mode = IF full THEN "fullscreen" ELSE "windowed",
                               !.normal = normal, !.size = IF full THEN Screen ELSE normal]
         /\ Tells(win'.size)
  /\ orders' = Tail(orders)
  /\ UNCHANGED <<askVars, flags, sizeVars, freeze>>
UserResizes(size) ==
  /\ win.open /\ win.mode = "windowed" /\ orders = <<>> /\ size # win.size
  /\ "portrait" \notin Faults => Wide(size) = Wide(Main)
  /\ Tells(size)
  /\ win' = [win EXCEPT !.size = size, !.normal = size]
  /\ UNCHANGED <<orders, askVars, flags, sizeVars, freeze>>

Measure ==
  /\ asked > 0 /\ win.open /\ Len(answers) < MaxWaits
  /\ asked' = asked - 1
  /\ answers' = Append(answers, win.size)
  /\ UNCHANGED <<windowVars, dirty, flags, sizeVars, freeze>>

-----------------------------------------------------------------------------
\* WindowResized: while a mode settles only a turn of the window is heard.
WindowResized ==
  /\ events # <<>>
  /\ events' = Tail(events)
  /\ IF freeze > 0 /\ (rect # NoSize => Wide(rect) = Wide(Head(events)))
     THEN UNCHANGED askVars ELSE Asks
  /\ UNCHANGED <<win, orders, flags, sizeVars, freeze>>

\* PlayerLayoutDirty
LayoutDirty ==
  /\ 0 \in dirty /\ asked < MaxWaits
  /\ dirty' = dirty \ {0}
  /\ asked' = asked + 1
  /\ UNCHANGED <<windowVars, answers, flags, sizeVars, freeze>>

\* PlayerLayout, apply_player_layout: a stage that turned drops its picture.
Large(a, b) == Abs(a[1] - b[1]) > 64 \/ Abs(a[2] - b[2]) > 64
PlayerLayout ==
  /\ answers # <<>>
  /\ answers' = Tail(answers)
  /\ LET new == Stage(Head(answers))
         flip == rect # NoSize /\ Wide(rect) # Wide(new)
         sticks == freeze > 0 /\ ~flip /\ ~(rect # NoSize /\ Large(rect, new)) /\ ~flags.pip
     IN  /\ rect' = IF sticks \/ (rect # NoSize /\ Keeps(rect, new)) THEN rect ELSE new
         /\ frame' = IF flip /\ rect' # rect THEN NoSize ELSE frame
  /\ UNCHANGED <<windowVars, asked, dirty, flags, freeze>>

\* present_stage_frame, with a picture of the size that was asked.
Pull ==
  /\ win.open
  /\ frame' = Request(frame)
  /\ UNCHANGED <<windowVars, askVars, flags, rect, freeze>>

-----------------------------------------------------------------------------
Less(n) == IF n = 0 THEN 0 ELSE n - 1
Tick ==
  /\ 0 \notin dirty
  /\ freeze' = Less(freeze) /\ dirty' = {d - 1 : d \in dirty}
  /\ UNCHANGED <<windowVars, asked, answers, flags, sizeVars>>

-----------------------------------------------------------------------------
Next ==
  \/ Open \/ Close \/ ToggleFullscreen \/ TogglePip \/ ToggleOntop
  \/ Acts \/ Measure \/ WindowResized \/ LayoutDirty \/ PlayerLayout \/ Pull
  \/ \E size \in Sizes : UserResizes(size)
  \/ Tick

Spec == Init /\ [][Next]_vars

-----------------------------------------------------------------------------
TypeOK ==
  /\ win.mode \in {"windowed", "fullscreen"} /\ win.level \in {"normal", "top"}
  /\ asked \in 0 .. MaxWaits /\ Len(answers) <= MaxWaits /\ Len(events) <= MaxWaits
  /\ freeze \in 0 .. Freeze /\ dirty \subseteq 0 .. Settle

\* Nothing is under way.
Quiet ==
  win.open /\ orders = <<>> /\ events = <<>> /\ asked = 0 /\ answers = <<>> /\ dirty = {}

\* However modes, sizes, questions and answers cross, the stage is in the end that of
\* the window, but for what is not worth a change: a size dropped while a mode settled is
\* asked again.
RectSettles == Quiet => rect # NoSize /\ Keeps(rect, Stage(win.size))

\* The picture that is asked for has the stage's shape, give or take a twentieth, and is
\* asked again at the same size as long as the stage stays: pictures and stage do not
\* chase each other.
FrameFits ==
  rect # NoSize /\ freeze = 0 =>
    /\ SameShape(Request(frame), Capped(rect))
    /\ Request(Request(frame)) = Request(frame)

\* What the controls say of the window is so.
FlagsHold ==
  Quiet => /\ flags.fullscreen = (win.mode = "fullscreen")
           /\ flags.ontop = (win.level = "top")
=============================================================================
