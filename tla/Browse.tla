-------------------------------- MODULE Browse --------------------------------
(***************************************************************************)
(* What the tabs of the window list (app.rs): the lists of the bundle in   *)
(* memory, the view the user chose (tab, category, search, open page) and  *)
(* browse_index, the positions of the titles to show.  The index of a      *)
(* whole list is made at once; any other one is built on another thread    *)
(* from a snapshot and arrives later, with a generation.                   *)
(*                                                                         *)
(* `Faults` lists what else may happen: "moves", the user goes elsewhere   *)
(* while an index is being built; "merges", the titles of a category       *)
(* arrive when another one is shown.                                       *)
(***************************************************************************)
EXTENDS Naturals, FiniteSets, Sequences, SequencesExt

CONSTANTS
  Titles,    \* every title
  CatOf,     \* category of each title
  Hits,      \* titles that match the text the user may search
  Kept,      \* titles the filter of the viewer's language keeps, all when it is off
  Bundles,   \* bundles the database may give: a sequence of titles for each tab
  MaxBuilds, \* index builds under way at a time (bound)
  Faults     \* subset of {"moves", "merges"}

VARIABLES
  view,     \* tab, chosen category of each list, search text, open page
  typed,    \* the search text was typed less than 220 ms ago
  lists,    \* bundle: channels, vod, series
  favs,     \* favourite channels
  index,    \* browse_index, as the set of its positions
  episodes, \* title whose episodes episode_flat lists
  builds,   \* index builds: whether the generation is the current one, result
  loads     \* categories asked of the portal: list, category, result

vars == <<view, typed, lists, favs, index, episodes, builds, loads>>

Lists == {"live", "vod", "series"}
Tabs == Lists \cup {"favorites", "settings"}
Cats == {CatOf[t] : t \in Titles}
All == "*"
Closed == "closed"
ListOf(tab) == IF tab = "favorites" THEN "live" ELSE tab

Waiting == \E b \in builds : b.current
MayMove == "moves" \in Faults \/ ~Waiting

InCat(cat, t) == cat = All \/ CatOf[t] = cat
Found(text, t) == text = "" \/ t \in Hits

\* build_browse_index_blocking, on a snapshot
Matching(v, ls) ==
  LET l == ls[v.tab]
  IN {i \in DOMAIN l : InCat(v.chosen[v.tab], l[i]) /\ Found(v.text, l[i]) /\ l[i] \in Kept}

Whole(v) == v.text = "" /\ v.chosen[v.tab] = All /\ Kept = Titles

Superseded == {[b EXCEPT !.current = FALSE] : b \in builds}

-----------------------------------------------------------------------------
Init ==
  /\ view = [tab |-> "vod", chosen |-> [l \in Lists |-> All], text |-> "", page |-> Closed]
  /\ typed = FALSE
  /\ lists \in Bundles
  /\ favs = {}
  /\ index = DOMAIN lists["vod"] /\ episodes = Closed
  /\ builds = {} /\ loads = {}

\* bump_browse_gen is forgotten.
BuildUnnumbered(v, ls) ==
  /\ Cardinality(builds) < MaxBuilds
  /\ builds' = builds \cup {[current |-> TRUE, index |-> Matching(v, ls)]}
  /\ UNCHANGED index

\* The old index stays until the new one comes.
Build(v, ls) ==
  /\ Cardinality(builds) < MaxBuilds
  /\ builds' = Superseded \cup {[current |-> TRUE, index |-> Matching(v, ls)]}
  /\ UNCHANGED index

\* A page is forgotten.
RebuildNoPage(v, ls, fs, eps) ==
  /\ episodes' = IF v.tab = "settings" THEN Closed ELSE eps
  /\ IF v.tab \in Lists /\ ~Whole(v) THEN Build(v, ls)
     ELSE /\ index' = IF v.tab = "settings" THEN {} ELSE DOMAIN ls[ListOf(v.tab)]
          /\ UNCHANGED builds

\* rebuild_browse_index, when episode_flat is `eps`
Rebuild(v, ls, fs, eps) ==
  \/ /\ v.tab = "series" /\ v.page # Closed
     /\ episodes' = v.page
     /\ UNCHANGED <<index, builds>>
  \/ /\ v.tab = "vod" /\ v.page # Closed
     /\ episodes' = eps
     /\ UNCHANGED <<index, builds>>
  \/ /\ v.tab = "favorites" /\ episodes' = eps
     /\ index' = {i \in DOMAIN ls["live"] : ls["live"][i] \in fs}
     /\ UNCHANGED builds
  \/ /\ v.tab = "settings" /\ episodes' = Closed
     /\ index' = {}
     /\ UNCHANGED builds
  \/ /\ v.tab \in Lists /\ v.page = Closed /\ episodes' = eps
     /\ IF Whole(v) THEN index' = DOMAIN ls[v.tab] /\ UNCHANGED builds ELSE Build(v, ls)

\* A message that changes the view and rebuilds the index.
Go(v) == view' = v /\ Rebuild(v, lists, favs, episodes)

\* Message::Tab
Tab(t) ==
  /\ MayMove
  /\ Go([view EXCEPT !.tab = t, !.page = Closed,
           !.chosen = [l \in Lists |-> IF l = t /\ t # "live" THEN All ELSE @[l]]])
  /\ UNCHANGED <<typed, lists, favs, loads>>

\* SearchChanged: the list follows 220 ms later, unless more is typed.
SearchChanged ==
  /\ MayMove
  /\ view' = [view EXCEPT !.text = IF @ = "" THEN "hit" ELSE ""]
  /\ typed' = TRUE
  /\ UNCHANGED <<lists, favs, index, episodes, builds, loads>>

SearchApply ==
  /\ typed /\ MayMove
  /\ typed' = FALSE
  /\ Go(view)
  /\ UNCHANGED <<lists, favs, loads>>

\* load_vod_category_task, load_series_category_task: the titles, or an error.
Asked(l, cat) ==
  {[list |-> l, cat |-> cat, items |-> ts] :
     ts \in {{}, {t \in Titles : CatOf[t] = cat /\ \E b \in Bundles : t \in ToSet(b[l])}}}

\* SelectBrowseCategory: a category with no title in memory is asked of the portal.
SelectBrowseCategory(cat) ==
  /\ MayMove /\ view.tab \in Lists
  /\ Go([view EXCEPT !.chosen[view.tab] = cat, !.page = Closed])
  /\ LET l == view.tab
     IN IF l = "live" \/ cat = All \/ \E t \in ToSet(lists[l]) : CatOf[t] = cat
        THEN UNCHANGED loads
        ELSE \E a \in Asked(l, cat) : loads' = loads \cup {a}
  /\ UNCHANGED <<typed, lists, favs>>

\* The rest of the list, then what came.
Extended(ld) ==
  SelectSeq(lists[ld.list], LAMBDA t : CatOf[t] # ld.cat)
    \o SetToSeq(ld.items)

\* VodCategoryLoaded, SeriesCategoryLoaded; an error (no title) changes nothing.
CategoryLoaded(ld) ==
  /\ ld \in loads /\ loads' = loads \ {ld}
  /\ LET current == view.chosen[ld.list] = ld.cat
     IN /\ current \/ "merges" \in Faults
        /\ IF ld.items = {}
           THEN UNCHANGED <<lists, index, episodes, builds>>
           ELSE /\ lists' = [lists EXCEPT ![ld.list] = Extended(ld)]
                /\ IF current THEN Rebuild(view, lists', favs, episodes)
                   ELSE UNCHANGED <<index, episodes, builds>>
  /\ UNCHANGED <<view, typed, favs>>

\* The generation is not looked at.
ReadyAny(b) ==
  /\ b \in builds /\ builds' = builds \ {b}
  /\ index' = b.index /\ episodes' = Closed
  /\ UNCHANGED <<view, typed, lists, favs, loads>>

\* BrowseIndexReady
BrowseIndexReady(b) ==
  /\ b \in builds /\ builds' = builds \ {b}
  /\ IF b.current
     THEN index' = b.index /\ episodes' = Closed
     ELSE UNCHANGED <<index, episodes>>
  /\ UNCHANGED <<view, typed, lists, favs, loads>>

\* BundleCacheReady: another bundle; a channel group is chosen when none is.
BundleCacheReady(b) ==
  /\ lists' = b
  /\ \E g \in {CatOf[t] : t \in ToSet(b["live"])} \cup {All} :
       view' = [view EXCEPT !.chosen["live"] = IF @ = All THEN g ELSE @]
  /\ Rebuild(view', b, favs, episodes)
  /\ UNCHANGED <<typed, favs, loads>>

\* ToggleFavorite
ToggleFavorite(t) ==
  /\ t \in ToSet(lists["live"])
  /\ favs' = IF t \in favs THEN favs \ {t} ELSE favs \cup {t}
  /\ IF view.tab = "favorites" THEN Rebuild(view, lists, favs', episodes)
     ELSE UNCHANGED <<index, episodes, builds>>
  /\ UNCHANGED <<view, typed, lists, loads>>

\* OpenSeries: the index is left alone.
OpenSeries(t) ==
  /\ MayMove
  /\ view.tab = "series" /\ view.page = Closed /\ t \in ToSet(lists["series"])
  /\ view' = [view EXCEPT !.page = t]
  /\ episodes' = t
  /\ UNCHANGED <<typed, lists, favs, index, builds, loads>>

\* OpenVodDetail
OpenVodDetail(t) ==
  /\ MayMove
  /\ view.tab = "vod" /\ view.page = Closed /\ t \in ToSet(lists["vod"])
  /\ view' = [view EXCEPT !.page = t]
  /\ UNCHANGED <<typed, lists, favs, index, episodes, builds, loads>>

\* SeriesDetailLoaded, SeriesEpisodesEnriched of the open page
EpisodesLoaded ==
  /\ view.tab = "series" /\ view.page # Closed
  /\ episodes' = view.page
  /\ UNCHANGED <<view, typed, lists, favs, index, builds, loads>>

\* CloseSeriesDetail, CloseVodDetail
CloseDetail ==
  /\ view.page # Closed
  /\ view' = [view EXCEPT !.page = Closed]
  /\ Rebuild(view', lists, favs, IF view.tab = "series" THEN Closed ELSE episodes)
  /\ UNCHANGED <<typed, lists, favs, loads>>

Next ==
  \/ \E t \in Tabs : Tab(t)
  \/ SearchChanged \/ SearchApply
  \/ \E cat \in Cats \cup {All} : SelectBrowseCategory(cat)
  \/ \E ld \in loads : CategoryLoaded(ld)
  \/ \E b \in builds : BrowseIndexReady(b)
  \/ \E b \in Bundles : BundleCacheReady(b)
  \/ \E t \in Titles : ToggleFavorite(t) \/ OpenSeries(t) \/ OpenVodDetail(t)
  \/ EpisodesLoaded
  \/ CloseDetail

Spec == Init /\ [][Next]_vars

-----------------------------------------------------------------------------
\* The state has its type: a page is open on the tab of its list, and no two
\* builds are of the current generation.
TypeOK ==
  /\ view \in [tab : Tabs, chosen : [Lists -> Cats \cup {All}], text : {"", "hit"},
               page : Titles \cup {Closed}]
  /\ view.page # Closed => view.tab \in {"vod", "series"}
  /\ \A l \in Lists : IsInjective(lists[l]) /\ ToSet(lists[l]) \subseteq Titles
  /\ favs \subseteq Titles /\ episodes \in Titles \cup {Closed}
  /\ Cardinality({b \in builds : b.current}) <= 1

\* The positions the view asks for.
Wanted ==
  IF view.tab = "settings" THEN {}
  ELSE IF view.tab = "favorites"
  THEN {i \in DOMAIN lists["live"] : lists["live"][i] \in favs}
  ELSE Matching(view, lists)

\* With nothing being built or typed, a list shows the titles of the tab, the
\* category and the search the user chose, whatever bundles, categories and
\* favourites came meanwhile: an index built from an older bundle or for
\* another view does not stay (app.rs:6158 "stale gens are ignored").
IndexIsView == ~Waiting /\ ~typed /\ view.page = Closed => index = Wanted

\* The page of a series lists its episodes (app.rs:301).
EpisodesListed == view.tab = "series" /\ view.page # Closed => episodes = view.page

=============================================================================
