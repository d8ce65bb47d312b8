----------------------------- MODULE TitleLookup -----------------------------
(***************************************************************************)
(* What the web tells of a title: enrich_title_full of                     *)
(* src/crates/fluxplay/src/metadata.rs asks one public service after the   *)
(* other while something is missing, puts the answers together, and the    *)
(* result is applied to the entry of the library.                          *)
(*                                                                         *)
(* A field is named by the film it is of: titles repeat, and a search may  *)
(* find another film than the one meant.  A synopsis has a length besides: *)
(* 0 for none, 1 below 40 characters, 2 below 80 (SHORT_PLOT), 3.          *)
(***************************************************************************)
EXTENDS Naturals

CONSTANTS
  Films,      \* films of that title, the one meant among them
  Meant,
  Strangers,  \* what the services may find by title: a subset of Films
  Faults      \* subset of {"lost"}: a service is not asked, or does not answer, about an id

VARIABLES
  item,   \* the entry: kind, imdb id, synopsis, credits
  patch,  \* what was found so far
  step    \* the service that is next

vars == <<item, patch, step>>

NoPlot == [of |-> "none", len |-> 0]
Empty == [imdb |-> "none", actors |-> "none", plot |-> NoPlot, art |-> "none"]
FilmOrNone == Films \cup {"none"}

Init ==
  /\ item \in [kind : {"movie", "series"}, imdb : {"none", Meant}, actors : {"none"},
               plot : {NoPlot, [of |-> Meant, len |-> 2], [of |-> Meant, len |-> 3]}]
  /\ patch = Empty
  /\ step = "id"

-----------------------------------------------------------------------------
Keep(a, b) == IF a = "none" THEN b ELSE a
\* The later id and the later text win.
MergeLast(p, q) ==
  [imdb |-> Keep(q.imdb, p.imdb), actors |-> Keep(p.actors, q.actors), art |-> Keep(p.art, q.art),
   plot |-> IF q.plot.len > 0 THEN q.plot ELSE p.plot]
\* MetaPatch::merge: what is there stays, and a blurb gives way to a longer text.
Merge(p, q) ==
  [imdb |-> Keep(p.imdb, q.imdb), actors |-> Keep(p.actors, q.actors), art |-> Keep(p.art, q.art),
   plot |-> IF p.plot.len < 3 /\ q.plot.len > p.plot.len THEN q.plot ELSE p.plot]

NeedsFullCredits(p) == p.actors = "none" \/ p.plot.len < 3

\* The answers: about film f with or without credits, a synopsis and a picture.
Answers(f, lens) ==
  [imdb : {f}, actors : {f, "none"}, plot : {[of |-> f, len |-> n] : n \in lens \ {0}}
   \cup (IF 0 \in lens THEN {NoPlot} ELSE {}), art : {f, "none"}]
Told(f) == Answers(f, {0, 2, 3})
Hits(f) == [imdb : {f, "none"}, actors : {"none"}, plot : {NoPlot}, art : {f, "none"}]
Itunes(f) == [imdb : {"none"}, actors : {"none"}, plot : {NoPlot, [of |-> f, len |-> 3]}, art : {f, "none"}]
Article(f) == [imdb : {"none"}, actors : {"none"}, plot : {[of |-> f, len |-> n] : n \in {2, 3}}, art : {f, "none"}]
TvMaze(f) == [imdb : {f, "none"}, actors : {f, "none"}, plot : {NoPlot, [of |-> f, len |-> 3]}, art : {f, "none"}]

Go(next) == step' = next /\ UNCHANGED item
Found(answers) == \E a \in answers : patch' = Merge(patch, a)
Nothing == UNCHANGED patch
Titled(Answer(_)) == \/ \E f \in Strangers : Found(Answer(f))
                     \/ Nothing

\* omdb_by_id, when the panel gave an id.
ById ==
  /\ step = "id" /\ Go("typed")
  /\ \/ item.imdb = "none" /\ Nothing
     \/ item.imdb # "none" /\ Found(Told(item.imdb))
     \/ item.imdb # "none" /\ "lost" \in Faults /\ Nothing

\* omdb_lookup with the kind, then without it.
ByTitle ==
  /\ \/ step = "typed" /\ Go("untyped")
     \/ step = "untyped" /\ Go("search")
  /\ IF NeedsFullCredits(patch) THEN Titled(Told) ELSE Nothing

\* omdb_search_best: the best row, then what its id names.
Search ==
  /\ step = "search" /\ Go("tvmaze")
  /\ IF NeedsFullCredits(patch) \/ patch.imdb = "none"
     THEN \/ Titled(Hits)
          \/ \E f \in Strangers : Found(Told(f))
     ELSE Nothing

\* tvmaze_show, tvmaze_cast
TvMazeShow ==
  /\ step = "tvmaze" /\ Go("itunes")
  /\ IF item.kind = "series" /\ NeedsFullCredits(patch) THEN Titled(TvMaze) ELSE Nothing

ItunesLookup ==
  /\ step = "itunes" /\ Go("wikipedia")
  /\ IF patch.art = "none" THEN Titled(Itunes) ELSE Nothing

WikipediaSummary ==
  /\ step = "wikipedia" /\ Go("apply")
  /\ IF patch.plot.len <= 1 THEN Titled(Article) ELSE Nothing

\* apply_vod, apply_series
KeepsPlot == patch.plot.len = 0 \/ item.plot.len >= 3 \/ item.plot.len >= patch.plot.len
Apply ==
  /\ step = "apply" /\ step' = "done"
  /\ item' = [item EXCEPT !.imdb = Keep(patch.imdb, @), !.actors = Keep(patch.actors, @),
                          !.plot = IF KeepsPlot THEN @ ELSE patch.plot]
  /\ UNCHANGED patch

Next ==
  \/ ById \/ ByTitle \/ Search \/ TvMazeShow \/ ItunesLookup \/ WikipediaSummary
  \/ Apply

Spec == Init /\ [][Next]_vars
-----------------------------------------------------------------------------
Plots == [of : FilmOrNone, len : 0 .. 3]
TypeOK ==
  /\ item \in [kind : {"movie", "series"}, imdb : FilmOrNone, actors : FilmOrNone, plot : Plots]
  /\ patch \in [imdb : FilmOrNone, actors : FilmOrNone, plot : Plots, art : FilmOrNone]

\* The id the panel gave is that of the film: no search by title changes it, whatever
\* it finds.  It needs an answer about the id: Keep has nothing to keep without one.
KnownIdStays == item.imdb = Meant => item'.imdb = Meant

\* A synopsis of the matched film, or of the panel, is not given up for another text.
GoodPlotStays ==
  /\ patch.plot.len = 3 => patch'.plot = patch.plot
  /\ item.plot.len = 3 => item'.plot = item.plot
=============================================================================
