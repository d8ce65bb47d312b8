-------------------------------- MODULE Guide --------------------------------
(***************************************************************************)
(* The programme guide: the panel's short listings asked for the channels  *)
(* on screen, the XMLTV guide that comes with a profile's catalogue, the   *)
(* two places they are merged into (the bundle in memory, the epg table on *)
(* disk), and what now_next shows for a channel.                           *)
(*                                                                         *)
(* A programme is filed under a channel's guide id (tvg) or its stream id, *)
(* and bears no panel.  Times count in hours.                              *)
(***************************************************************************)
EXTENDS Naturals, Integers, FiniteSetsExt

CONSTANTS
  Channels,
  Id, Key, Panel,    \* [channels -> stream id, guide id, panel]
  OnAir,             \* [channels -> the programmes it shows: sets of [start, stop]]
  OpenEnded,         \* the XMLTV guides give no stop for their last programme
  LoadPast, LoadAhead, KeepPast,   \* 6, 48 and 24 hours
  LoadRows,          \* rows a load reads at most (8000)
  MaxNow, MaxFetches, Limit        \* bounds: the clock, answers, programmes of a short listing

VARIABLES
  now,
  epg,       \* bundle.epg
  disk,      \* the epg tables
  asks,      \* short listings on their way: programmes
  load,      \* what a reload has read and not shown yet, or a set of none
  loading,   \* a reload is under way
  fetches

vars == <<now, epg, disk, asks, load, loading, fetches>>

Panels == {Panel[c] : c \in Channels}
Init ==
  /\ now = 0 /\ fetches = 0
  /\ epg = {} /\ disk = {} /\ asks = {}
  /\ load = {} /\ loading = FALSE

-----------------------------------------------------------------------------
Programme(chan, c, p) == [chan |-> chan, of |-> c, start |-> p.start, stop |-> p.stop]
SameKey(p, q) == p.chan = q.chan /\ p.of = q.of /\ p.start = q.start

\* get_short_epg: what is on and what follows, under the guide id and the stream id.
Coming(c) ==
  LET rest == {p \in OnAir[c] : p.stop > now}
  IN  {p \in rest : Cardinality({q \in rest : q.start < p.start}) < Limit}
ShortListing(panel) ==
  UNION {{Programme(chan, c, p) : chan \in {Key[c], Id[c]}, p \in Coming(c)}
           : c \in {d \in Channels : Panel[d] = panel}}

\* parse_xmltv: a programme without stop ends where the next one of its channel
\* starts, the last one after an hour.
CloseOpenEnded(ps, open) ==
  LET After(p) == {q.start : q \in {r \in ps : r.start > p.start}}
      Stop(p) == IF After(p) = {} THEN p.start + 1
                 ELSE CHOOSE t \in After(p) : \A u \in After(p) : t <= u
  IN  {IF p \in open THEN [p EXCEPT !.stop = Stop(p)] ELSE p : p \in ps}
XmlTv(c) ==
  LET ps == {Programme(Key[c], c, p) : p \in {q \in OnAir[c] : q.start <= now + LoadAhead}}
      last == {p \in ps : \A q \in ps : q.start <= p.start}
  IN  CloseOpenEnded(ps, IF OpenEnded THEN last ELSE {})

\* merge_epg of the bundle: what is there stays.
Merge(into, fresh) == into \cup {p \in fresh : \A q \in into : ~SameKey(p, q)}
\* merge_epg of the table: what is new replaces, what began long ago goes.
Store(into, fresh) ==
  {p \in fresh \cup {q \in into : \A r \in fresh : ~SameKey(q, r)} : p.start >= now - KeepPast}
\* load_bundle_of: of what began lately or begins soon, so many rows, in the order they
\* begin; of rows that begin together any may be the ones left out.
Window(d) == {p \in d : p.start >= now - LoadPast /\ p.start <= now + LoadAhead}
Least(a, b) == IF a <= b THEN a ELSE b
LoadsLast(d) ==
  LET rows == Window(d)
  IN  {l \in kSubset(Least(LoadRows, Cardinality(rows)), rows) :
         \A p \in l, q \in rows \ l : q.start <= p.start}
Loads(d) ==
  LET rows == Window(d)
  IN  {l \in kSubset(Least(LoadRows, Cardinality(rows)), rows) :
         \A p \in l, q \in rows \ l : p.start <= q.start}

\* What began is on until something else begins.
OnUntilNext(c, ps) == {p \in ps : p.chan \in {Id[c], Key[c]} /\ p.start <= now}
On(c, ps) == {p \in ps : p.chan \in {Id[c], Key[c]} /\ p.start <= now /\ now < p.stop}
\* now_next: of those on air the one that began last.
Now(c, ps) == {[of |-> p.of, start |-> p.start] :
                 p \in {q \in On(c, ps) : \A r \in On(c, ps) : r.start <= q.start}}

-----------------------------------------------------------------------------
Tick == now < MaxNow /\ now' = now + 1 /\ UNCHANGED <<epg, disk, asks, load, loading, fetches>>

\* fetch_epg_for: a task per panel of the channels on screen.
FetchEpg ==
  /\ fetches < MaxFetches /\ fetches' = fetches + 1
  /\ asks' = asks \cup {ShortListing(p) : p \in Panels}
  /\ UNCHANGED <<now, epg, disk, load, loading>>

\* EpgFetched: into the bundle and the profile's table.
EpgFetchedNotStored(a) ==
  /\ asks' = asks \ {a}
  /\ epg' = Merge(epg, a)
  /\ UNCHANGED <<now, disk, load, loading, fetches>>
EpgFetched(a) ==
  /\ asks' = asks \ {a}
  /\ IF a = {} THEN UNCHANGED <<epg, disk>>
     ELSE epg' = Merge(epg, a) /\ disk' = Store(disk, a)
  /\ UNCHANGED <<now, load, loading, fetches>>

\* load_source_with_epg and its ingestion: the XMLTV guide and the first listings.
Ingest(p) ==
  /\ fetches < MaxFetches /\ fetches' = fetches + 1
  /\ LET guide == UNION {XmlTv(c) : c \in {d \in Channels : Panel[d] = p}}
     IN  disk' = Store(disk, Merge(guide, ShortListing(p)))
  /\ UNCHANGED <<now, epg, asks, load, loading>>

\* rebuild_bundle_from_cache_task, BundleCacheReady.
StartLoad ==
  /\ ~loading /\ disk # {} /\ loading' = TRUE
  /\ load' \in Loads(disk)
  /\ UNCHANGED <<now, epg, disk, asks, fetches>>
LoadReady ==
  /\ loading /\ loading' = FALSE
  /\ epg' = load /\ load' = {}
  /\ UNCHANGED <<now, disk, asks, fetches>>

\* The application ends and starts again.
Restart ==
  /\ disk # {}
  /\ epg' = {} /\ asks' = {} /\ loading' = TRUE /\ load' \in Loads(disk)
  /\ UNCHANGED <<now, disk, fetches>>

Next ==
  \/ Tick \/ FetchEpg
  \/ \E a \in asks : EpgFetched(a)
  \/ \E p \in Panels : Ingest(p)
  \/ StartLoad \/ LoadReady \/ Restart

Spec == Init /\ [][Next]_vars

-----------------------------------------------------------------------------
(* Properties. *)

\* What is shown as on now is on, on that channel: no programme of another
\* channel, none that has ended, whatever answers came late or twice.
ShownIsOnAir ==
  \A c \in Channels : \A p \in Now(c, epg) :
    /\ p.of = c
    /\ \E q \in OnAir[c] : q.start = p.start /\ now < q.stop

\* What the guide says is on now it says after a restart too: the bundle and the
\* tables, merged by opposite rules and pruned apart, tell the same of the present, and
\* the rows a load has no room for are not those of the present.  A load reads back to
\* LoadPast and LoadRows rows: a programme that began earlier is not read, nor one with
\* more rows than that begun since.
Reached(p) ==
  /\ p.start >= now - LoadPast
  /\ Cardinality({q \in Window(disk) : q.start <= p.start}) <= LoadRows
GuideSurvives ==
  \A c \in Channels :
    Now(c, epg) # {} /\ (\A p \in Now(c, epg) : Reached(p))
      => \A l \in Loads(disk) : Now(c, l) = Now(c, epg)
=============================================================================
