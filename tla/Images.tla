-------------------------------- MODULE Images --------------------------------
(***************************************************************************)
(* The pictures of the library (src/crates/fluxplay/src/images.rs and the  *)
(* handlers of app.rs that ask for them): a cache in memory, a few fetches *)
(* at a time, hosts that are left alone when they fail, arrivals held back *)
(* while the list is flung, and two passes that ask for pictures: those of *)
(* the window, and those of the first pages, warmed in the background.     *)
(*                                                                         *)
(* A picture is named by its URL, and a view is the URLs of browse_index.  *)
(***************************************************************************)
EXTENDS Naturals, Sequences, SequencesExt, FiniteSets, FiniteSetsExt

CONSTANTS
  Urls,      \* pictures
  HostOf,    \* [Urls -> hosts]
  Tiny,      \* answers too short for a picture
  Views,     \* what the list may show: sequences of pictures, one more from no URL
  Window,    \* tiles laid out at once, those around the visible ones included
  Warm,      \* art_warm_target
  Inflight,  \* max_inflight
  Prefetch,  \* image_prefetch
  MaxRam,    \* MAX_RAM_HANDLES
  FlushAt,   \* arrivals that are shown without waiting for the timer
  Trip,      \* HOST_FAIL_TRIP
  MaxMoves,  \* bound: scrolls and changes of the view
  MaxFails,  \* bound: fetches that fail
  Faults     \* subset of {"leave"}: the view changes while arrivals are held back

\* What the defaults of display_caps.rs satisfy.
ConstantsOK ==
  /\ {Window, Warm, Inflight, Prefetch, MaxRam, FlushAt, Trip} \subseteq Nat \ {0}
  /\ Prefetch <= Inflight

VARIABLES
  list,     \* the view, the first tile of the window, if it is flung, or was
  cache,    \* ImageCache
  warm,     \* art_warm_active, art_warm_cursor
  net,      \* fetch_image_prepared_edged under way
  pending,  \* pending_images
  armed,    \* image_flush_armed: a timer of 18 ms runs
  spent     \* how often the bounded things happened

vars == <<list, cache, warm, net, pending, armed, spent>>

Hosts == {HostOf[u] : u \in Urls}

Init ==
  /\ list \in [view : {<<>>}, top : {1}, flung : {FALSE}, was : {FALSE}]
  /\ cache = [ram |-> <<>>, inflight |-> {}, failed |-> {}, soft |-> {},
              fails |-> [h \in Hosts |-> 0], open |-> {}]
  /\ warm = [active |-> FALSE, cursor |-> 0]
  /\ net = {} /\ pending = <<>> /\ armed = FALSE
  /\ spent = [moves |-> 0, fails |-> 0]

-----------------------------------------------------------------------------
\* ImageCache.  The handles, the least recently shown first.
Promote(c, u) ==
  IF u \in ToSet(c.ram) THEN [c EXCEPT !.ram = Append(SelectSeq(@, LAMBDA v : v # u), u)] ELSE c

Request(c, u) ==
  CASE u \in c.failed \cup c.soft \/ HostOf[u] \in c.open -> c
    [] u \in ToSet(c.ram) -> Promote(c, u)
    [] u \in c.inflight \/ Cardinality(c.inflight) >= Inflight -> c
    [] OTHER -> [c EXCEPT !.inflight = @ \cup {u}]

InsertNoEviction(c, u) ==
  LET d == [c EXCEPT !.inflight = @ \ {u}, !.soft = @ \ {u}, !.open = @ \ {HostOf[u]},
                     !.fails[HostOf[u]] = 0]
  IN IF u \in ToSet(c.ram) THEN Promote(d, u)
     ELSE [d EXCEPT !.ram = Append(@, u)]
EvictOldest(ram) == IF Len(ram) >= MaxRam THEN Tail(ram) ELSE ram
\* insert_ui_bytes: an answer closes the circuit of its host, a bad one too.
Insert(c, u) ==
  LET d == [c EXCEPT !.inflight = @ \ {u}, !.soft = @ \ {u}, !.open = @ \ {HostOf[u]},
                     !.fails[HostOf[u]] = 0]
  IN CASE u \in Tiny -> [d EXCEPT !.failed = @ \cup {u}]
       [] u \in ToSet(c.ram) -> Promote(d, u)
       [] OTHER -> [d EXCEPT !.ram = Append(EvictOldest(c.ram), u)]

MarkFailed(c, u) ==
  [c EXCEPT !.inflight = @ \ {u}, !.soft = @ \ {u}, !.failed = @ \cup {u}]
MarkSoftFailedLeaks(c, u) ==
  LET h == HostOf[u]
      d == [c EXCEPT !.soft = @ \cup {u}]
  IN IF h \in c.open THEN d
     ELSE IF c.fails[h] + 1 >= Trip
          THEN [d EXCEPT !.inflight = @ \ {u}, !.open = @ \cup {h}, !.fails[h] = 0]
          ELSE [d EXCEPT !.inflight = @ \ {u}, !.fails[h] = @ + 1]
\* The URL rests, and its host after a few of them.
MarkSoftFailed(c, u) ==
  LET h == HostOf[u]
      d == [c EXCEPT !.inflight = @ \ {u}, !.soft = @ \cup {u}]
  IN IF h \in c.open THEN d
     ELSE IF c.fails[h] + 1 >= Trip
          THEN [d EXCEPT !.open = @ \cup {h}, !.fails[h] = 0]
          ELSE [d EXCEPT !.fails[h] = @ + 1]

-----------------------------------------------------------------------------
\* The pictures of the window: promoted, then asked for, a few at a time.
Shown(l) == SelectSeq(SubSeq(l.view, l.top, IF l.top + Window - 1 < Len(l.view)
                                            THEN l.top + Window - 1 ELSE Len(l.view)),
                      LAMBDA u : u \in Urls)
PrefetchVisible(c, l) ==
  LET shown == FoldLeft(Promote, c, Shown(l))
      room == Min({Prefetch, Inflight - Cardinality(c.inflight)})
      Ask(d, u) == IF Cardinality(d.inflight) - Cardinality(c.inflight) < room
                   THEN Request(d, u) ELSE d
  IN FoldLeft(Ask, shown, Shown(l))

Target(l) == Min({Warm, Len(l.view)})
\* pump_art_warm: from the cursor on, until the slots are taken; a slot taken
\* here counts twice.
PumpWarm(c, w, l) ==
  LET room == Inflight - Cardinality(c.inflight)
      Taken(d) == Cardinality(d.inflight) - Cardinality(c.inflight)
      Step(s, i) ==
        IF s.over \/ Taken(s.c) >= room \/ Cardinality(s.c.inflight) + Taken(s.c) >= Inflight
        THEN [s EXCEPT !.over = TRUE]
        ELSE [s EXCEPT !.c = IF l.view[i] \in Urls THEN Request(@, l.view[i]) ELSE @,
                       !.cursor = i]
      end == FoldLeft(Step, [c |-> c, cursor |-> w.cursor, over |-> FALSE],
                      [i \in 1..(Target(l) - w.cursor) |-> w.cursor + i])
  IN CASE ~w.active -> [c |-> c, w |-> w]
       [] w.cursor >= Target(l) -> [c |-> c, w |-> [w EXCEPT !.active = FALSE]]
       [] OTHER -> [c |-> end.c, w |-> [active |-> end.cursor < Target(l), cursor |-> end.cursor]]

\* refresh_browse_art and continue_art_warm, on a cache that just changed when
\* the fetches of `ended` ended: what they request is fetched.
Fetch(c, p, ended) ==
  /\ cache' = p.c /\ warm' = p.w
  /\ net' = (net \ ended) \cup (p.c.inflight \ c.inflight)
Refresh(c, w, l) == Fetch(c, PumpWarm(PrefetchVisible(c, l), w, l), {})
ContinueWarm(c, ended) ==
  Fetch(c, IF list.flung THEN [c |-> c, w |-> warm] ELSE PumpWarm(c, warm, list), ended)
\* flush_pending_images.
Flushed == FoldLeft(Insert, cache, pending)

-----------------------------------------------------------------------------
LoadedDropsInFling(u) ==
  /\ u \in net
  /\ IF list.flung
     THEN /\ UNCHANGED <<pending, cache, warm, armed>>
          /\ net' = net \ {u}
     ELSE /\ pending' = Append(pending, u)
          /\ net' = net \ {u}
          /\ armed' = TRUE
          /\ UNCHANGED <<cache, warm>>
  /\ UNCHANGED <<list, spent>>
\* ImageLoaded: kept for later while the list is flung, shown at once when many
\* wait, or when the timer ends.
Loaded(u) ==
  /\ u \in net
  /\ LET arrived == Append(pending, u)
     IN \/ /\ list.flung
           /\ pending' = arrived /\ net' = net \ {u}
           /\ UNCHANGED <<cache, warm, armed>>
        \/ /\ ~list.flung /\ Len(arrived) >= FlushAt
           /\ pending' = <<>>
           /\ ContinueWarm(FoldLeft(Insert, cache, arrived), {u})
           /\ UNCHANGED armed
        \/ /\ ~list.flung /\ Len(arrived) < FlushAt
           /\ pending' = arrived /\ net' = net \ {u}
           /\ armed' = TRUE
           /\ UNCHANGED <<cache, warm>>
  /\ UNCHANGED <<list, spent>>

\* How fetch_image_bytes ends without a picture, a busy server having been asked
\* twice; an answer that will not change makes the failure permanent.
Failures == {"unreachable", "busy", "broken", "no such picture", "a page", "too large"}
Permanent == {"no such picture", "a page", "too large"}
NotLoaded(u, why) ==
  /\ u \in net /\ spent.fails < MaxFails
  /\ pending' = pending
  /\ ContinueWarm(IF why \in Permanent THEN MarkFailed(cache, u) ELSE MarkSoftFailed(cache, u), {u})
  /\ spent' = [spent EXCEPT !.fails = @ + 1]
  /\ UNCHANGED <<list, armed>>

FlushPendingImages ==
  /\ armed
  /\ armed' = FALSE
  /\ \/ list.flung /\ UNCHANGED <<cache, warm, net, pending>>
     \/ ~list.flung /\ pending' = <<>> /\ ContinueWarm(Flushed, {})
  /\ UNCHANGED <<list, spent>>

-----------------------------------------------------------------------------
ScrolledNoSettle(top, flung) ==
  /\ spent.moves < MaxMoves
  /\ top \in 1..Len(list.view)
  /\ list' = [list EXCEPT !.top = top, !.flung = flung, !.was = flung]
  /\ IF ~flung /\ top # list.top
     THEN pending' = <<>> /\ Refresh(Flushed, warm, list')
     ELSE UNCHANGED <<cache, warm, net, pending>>
  /\ spent' = [spent EXCEPT !.moves = @ + 1]
  /\ UNCHANGED armed
\* BrowseScrolled: asks for the pictures of a new window, or of one that has
\* just come to rest.
Scrolled(top, flung) ==
  /\ spent.moves < MaxMoves
  /\ top \in 1..Len(list.view)
  /\ list' = [list EXCEPT !.top = top, !.flung = flung, !.was = flung]
  /\ IF ~flung /\ (top # list.top \/ list.was)
     THEN pending' = <<>> /\ Refresh(Flushed, warm, list')
     ELSE UNCHANGED <<cache, warm, net, pending>>
  /\ spent' = [spent EXCEPT !.moves = @ + 1]
  /\ UNCHANGED armed

\* rebuild_browse_index: the speed is forgotten, and the fling with it.
NewView(v) ==
  /\ v # list.view /\ spent.moves < MaxMoves
  /\ "leave" \notin Faults => ~list.flung \/ pending = <<>>
  /\ list' = [view |-> v, top |-> 1, flung |-> FALSE, was |-> FALSE]
  /\ UNCHANGED pending
  /\ Refresh(cache, [active |-> v # <<>>, cursor |-> 0], list')
  /\ spent' = [spent EXCEPT !.moves = @ + 1]
  /\ UNCHANGED armed

\* URL_SOFT_FAIL and HOST_COOLDOWN pass.
Rested ==
  /\ cache.soft # {} \/ cache.open # {}
  /\ \/ \E u \in cache.soft : cache' = [cache EXCEPT !.soft = @ \ {u}]
     \/ \E h \in cache.open : cache' = [cache EXCEPT !.open = @ \ {h}]
  /\ UNCHANGED <<list, warm, net, pending, armed, spent>>

Next ==
  \/ \E u \in Urls : Loaded(u) \/ \E why \in Failures : NotLoaded(u, why)
  \/ FlushPendingImages \/ Rested
  \/ \E top \in 1..Max({Len(v) : v \in Views}), flung \in BOOLEAN : Scrolled(top, flung)
  \/ \E v \in Views : NewView(v)

Spec == Init /\ [][Next]_vars
-----------------------------------------------------------------------------
TypeOK ==
  /\ list.view \in Views \cup {<<>>} /\ list.top \in 1..Max({Len(v) : v \in Views} \cup {1})
  /\ cache.ram \in Seq(Urls) /\ IsInjective(cache.ram) /\ Len(cache.ram) <= MaxRam
  /\ cache.inflight \subseteq Urls /\ cache.failed \subseteq Urls /\ cache.soft \subseteq Urls
  /\ cache.fails \in [Hosts -> 0..(Trip - 1)] /\ cache.open \subseteq Hosts
  /\ warm.active \in BOOLEAN /\ warm.cursor \in 0..Warm
  /\ net \subseteq Urls /\ armed \in BOOLEAN

\* A slot is held by a fetch or by an arrival that waits, by one of them and
\* once: slots that are lost would leave the library without pictures.
SlotsAreUsed ==
  /\ cache.inflight = net \cup ToSet(pending)
  /\ Len(pending) + Cardinality(net) = Cardinality(cache.inflight)
  /\ Cardinality(cache.inflight) <= Inflight

\* Pictures that arrived are shown in the end: while the list is at rest, those
\* that wait have a timer that shows them (FlushPendingImages: "Keep buffering;
\* settle path will flush.").
ArrivedAreShown == ~list.flung /\ pending # <<>> => armed

\* The pictures of a window at rest were asked for: each is there, or its fetch
\* failed (prefetch_urls: "Fast scroll: fill the mosaic window quickly").  It
\* does not hold: a window reached while the slots are taken gets none of them,
\* and what ends later asks for the first pages only.
RestShowsWindow ==
  ~list.flung /\ ~list.was /\ net = {} /\ pending = <<>> /\ spent.moves > 0 =>
    \A u \in ToSet(Shown(list)) :
      u \in ToSet(cache.ram) \cup cache.failed \cup cache.soft \/ HostOf[u] \in cache.open
=============================================================================
