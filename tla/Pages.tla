-------------------------------- MODULE Pages --------------------------------
(***************************************************************************)
(* The page of a film or a series (src/crates/fluxplay/src/app.rs and the  *)
(* caches of catalog_db.rs): opening one asks its panel, the web when that *)
(* is not enough, and a translator; two passes complete the first titles   *)
(* of the library in the background.  Every answer is written to the       *)
(* library, to the page and to the profile's file, whatever was opened or  *)
(* closed meanwhile.                                                       *)
(*                                                                         *)
(* A synopsis is named by its kind: a blurb of the panel, or a full text   *)
(* of the panel or of the web.  Credits are one number: none, some, those  *)
(* with the title's imdb id.  The library is loaded and stays as it is.    *)
(***************************************************************************)
EXTENDS Naturals, Sequences, SequencesExt, FiniteSets, FiniteSetsExt, Bags

CONSTANTS
  Films, Shows,  \* bundle.vod and bundle.series, in their order
  Id,            \* [titles -> the id their panel gives them]
  Panelless,     \* titles no panel of an enabled profile is asked about
  PanelFacts,    \* what a panel may tell: records of a synopsis and credits
  WebFacts,      \* what the web may tell
  Guess,         \* [synopses -> the language guess_lang sees in them, or "none"]
  Langs,         \* pref_lang may be one of these, the empty one included
  MaxKept,       \* translations kept in memory (4000)
  MaxMoves,      \* bound: what the user opens, closes and sets
  MaxBatches,    \* bound: background passes
  Faults         \* what else happens, see Calm

VARIABLES
  items,   \* [titles -> its entry in the library]
  disk,    \* [titles -> its row in the profile's file]
  cached,  \* meta_cache: [titles -> {}, {what the web told}, or {Miss}]
  win,     \* the page, its notice of loading, the translations, the jobs under way
  spent    \* moves and batches so far

vars == <<items, disk, cached, win, spent>>

Titles == ToSet(Films) \cup ToSet(Shows)
IsShow(t) == t \in ToSet(Shows)
Synopses == {"none", "blurb", "panel", "web"}
Rank == [none |-> 0, blurb |-> 1, panel |-> 2, web |-> 2]
Larger(a, b) == IF a >= b THEN a ELSE b

NewItem(t) == [film |-> t, of |-> {t}, plot |-> "none", info |-> 0, eps |-> "none"]
NoPage == [tapped |-> "none", item |-> NewItem("none")]
Miss == [of |-> "none", plot |-> "none", info |-> 0]

Init ==
  /\ items = [t \in Titles |-> NewItem(t)] /\ disk = items
  /\ cached = [t \in Titles |-> {}]
  /\ win \in [page : {NoPage}, loading : {FALSE}, jobs : {EmptyBag}, on : {TRUE}, lang : Langs,
              known : {{}}, asked : {{}}, stored : {{}}]
  /\ spent = [moves |-> 0, batches |-> 0]

-----------------------------------------------------------------------------
\* The entry the handlers find: the first one of the kind with the id.
Find(t) == SelectSeq(IF IsShow(t) THEN Shows ELSE Films, LAMBDA u : Id[u] = Id[t])[1]
Shown(page, t) ==
  /\ page.tapped # "none"
  /\ IsShow(page.item.film) = IsShow(t) /\ Id[page.item.film] = Id[t]

\* merge_xtream_vod_fields, merge_xtream_series_fields: what the panel says, it wins.
MergePanel(item, a) ==
  [item EXCEPT !.of = @ \cup {a.of}, !.plot = IF a.plot = "none" THEN @ ELSE a.plot,
               !.info = Larger(@, a.info), !.eps = IF IsShow(a.of) THEN "bare" ELSE @]
\* apply_vod, apply_series: a synopsis gives way only if it is short and the other longer.
ApplyPatch(item, p) ==
  [item EXCEPT !.of = @ \cup {p.of}, !.info = Larger(@, p.info),
               !.plot = IF @ \in {"panel", "web"} \/ Rank[@] >= Rank[p.plot] THEN @ ELSE p.plot]

HasCredits(x) == Rank[x.plot] = 2 /\ x.info > 0
NeedsEnrich(item) == Rank[item.plot] = 0 \/ item.info < 2

Begin(w, job) == [w EXCEPT !.jobs = @ (+) SetToBag({job})]
End(w, job) == [w EXCEPT !.jobs = @ (-) SetToBag({job})]

\* enrich_open_detail_task, for the page of the kind that is open.
Enrich(w, show) ==
  LET i == w.page.item
      hits == {p \in cached[i.film] : HasCredits(p)}
  IN CASE w.page.tapped = "none" -> w
       [] IsShow(i.film) # show -> w
       [] HasCredits(i) /\ i.info = 2 -> w
       [] hits # {} -> Begin(w, [kind |-> "told", t |-> i.film, patch |-> hits])
       [] OTHER -> Begin([w EXCEPT !.loading = TRUE], [kind |-> "web", t |-> i.film])

\* The texts of the page.
Text(i, plot) == [of |-> i.film, is |-> plot]
Texts(page) ==
  IF page.tapped = "none" THEN {}
  ELSE {Text(page.item, p) : p \in {page.item.plot} \ {"none"}}
       \cup {Text(page.item, p) : p \in {page.item.eps} \ {"none", "bare"}}
TranslationOn(w) == w.on /\ w.lang # ""
\* request_translations for translate_open_detail_task: what is in the language
\* already, or translated once, is there at once.
Translate(w) ==
  LET texts == {x \in Texts(w.page) : [text |-> x, lang |-> w.lang] \notin w.known} \ w.asked
      there == {x \in texts : Guess[x.is] = w.lang \/ [text |-> x, lang |-> w.lang] \in w.stored}
      todo == texts \ there
      v == [w EXCEPT !.known = @ \cup {[text |-> x, lang |-> w.lang] : x \in there},
                     !.asked = @ \cup todo]
  IN IF ~TranslationOn(w) THEN w
     ELSE IF todo = {} THEN v
     ELSE Begin(v, [kind |-> "text", lang |-> w.lang, texts |-> todo])

\* enrich_episodes_task
Episodes(w) ==
  IF w.page.tapped # "none" /\ IsShow(w.page.item.film) /\ w.page.item.eps # "told"
  THEN Begin(w, [kind |-> "episodes", t |-> w.page.item.film, item |-> w.page.item]) ELSE w
-----------------------------------------------------------------------------
\* The user.
Move == spent.moves < MaxMoves /\ spent' = [spent EXCEPT !.moves = @ + 1]

OpenVodDetail(t) ==
  LET u == Find(t)
      w == [win EXCEPT !.page = [tapped |-> t, item |-> items[u]], !.loading = TRUE]
  IN /\ Move /\ ~IsShow(t)
     /\ u \in Panelless /\ HasCredits(items[u]) /\ items[u].info = 2 => "bare" \in Faults
     /\ win' = IF u \in Panelless THEN Enrich(Translate(w), FALSE)
               ELSE Begin(Translate(w), [kind |-> "panel", t |-> u])
     /\ UNCHANGED <<items, disk, cached>>

\* The episodes that are not in memory come from the file.
OpenSeries(t) ==
  LET u == Find(t)
      i == IF items[u].eps # "none" THEN items[u]
           ELSE [items[u] EXCEPT !.eps = disk[u].eps, !.plot = IF @ = "none" THEN disk[u].plot ELSE @]
      w == Translate([win EXCEPT !.page = [tapped |-> t, item |-> i], !.loading = FALSE])
  IN /\ Move /\ IsShow(t)
     /\ win' = IF u \in Panelless THEN Enrich(w, TRUE)
               ELSE Begin(w, [kind |-> "panel", t |-> u])
     /\ UNCHANGED <<items, disk, cached>>

CloseDetail ==
  /\ Move /\ win.page.tapped # "none"
  /\ win' = [win EXCEPT !.page = NoPage, !.loading = FALSE]
  /\ UNCHANGED <<items, disk, cached>>

\* What was asked for in the language before still counts as asked for.
SetPrefLangKeepsAsked(code) ==
  /\ Move /\ code # win.lang
  /\ win.asked # {} => "relang" \in Faults
  /\ win' = Translate([win EXCEPT !.lang = code, !.known = {}])
  /\ UNCHANGED <<items, disk, cached>>
SetPrefLang(code) ==
  /\ Move /\ code # win.lang
  /\ win.asked # {} => "relang" \in Faults
  /\ win' = Translate([win EXCEPT !.lang = code, !.known = {}, !.asked = {}])
  /\ UNCHANGED <<items, disk, cached>>

ToggleTranslateMeta ==
  /\ Move /\ win' = Translate([win EXCEPT !.on = ~@])
  /\ UNCHANGED <<items, disk, cached>>

-----------------------------------------------------------------------------
\* The answers.
UnderWay(kind) == {j \in BagToSet(win.jobs) : j.kind = kind}

\* The answer about a film is merged into what has its id, and saved.
VodDetailLoadedAnyPage ==
  \E j \in UnderWay("panel"), f \in PanelFacts :
     LET a == [of |-> j.t, plot |-> f.plot, info |-> f.info]
         u == Find(j.t)
         w == [End(win, j) EXCEPT !.loading = FALSE,
                 !.page.item = IF win.page.tapped # "none" THEN MergePanel(@, a) ELSE @]
     IN /\ ~IsShow(j.t)
        /\ items' = [items EXCEPT ![u] = MergePanel(@, a)]
        /\ disk' = [disk EXCEPT ![u] = items'[u]]
        /\ win' = Translate(Enrich(w, FALSE))
        /\ UNCHANGED <<cached, spent>>
VodDetailLoadedSavesAnswer ==
  \E j \in UnderWay("panel"), f \in PanelFacts :
     LET a == [of |-> j.t, plot |-> f.plot, info |-> f.info]
         u == Find(j.t)
         w == [End(win, j) EXCEPT !.loading = FALSE,
                 !.page.item = IF Shown(win.page, j.t) THEN MergePanel(@, a) ELSE @]
     IN /\ ~IsShow(j.t)
        /\ items' = [items EXCEPT ![u] = MergePanel(@, a)]
        /\ disk' = [disk EXCEPT ![u] = MergePanel(NewItem(u), a)]
        /\ win' = Translate(Enrich(w, FALSE))
        /\ UNCHANGED <<cached, spent>>
VodDetailLoaded ==
  \E j \in UnderWay("panel"), f \in PanelFacts :
     LET a == [of |-> j.t, plot |-> f.plot, info |-> f.info]
         u == Find(j.t)
         w == [End(win, j) EXCEPT !.loading = FALSE,
                 !.page.item = IF Shown(win.page, j.t) THEN MergePanel(@, a) ELSE @]
     IN /\ ~IsShow(j.t)
        /\ items' = [items EXCEPT ![u] = MergePanel(@, a)]
        /\ disk' = [disk EXCEPT ![u] = items'[u]]
        /\ win' = Translate(Enrich(w, FALSE))
        /\ UNCHANGED <<cached, spent>>
\* Without an answer the web is asked; the notice of loading stays.
VodDetailFailed ==
  \E j \in UnderWay("panel") :
     /\ ~IsShow(j.t)
     /\ HasCredits(win.page.item) /\ win.page.item.info = 2 => "bare" \in Faults
     /\ win' = Enrich(End(win, j), FALSE)
     /\ UNCHANGED <<items, disk, cached, spent>>

\* That about a series is not saved, and goes to the library alone once the page is left.
SeriesDetailLoaded ==
  \E j \in UnderWay("panel"), f \in PanelFacts :
     LET a == [of |-> j.t, plot |-> f.plot, info |-> f.info]
         w == End(win, j)
     IN /\ IsShow(j.t)
        /\ items' = [items EXCEPT ![Find(j.t)] = MergePanel(@, a)]
        /\ win' = IF ~Shown(win.page, j.t) THEN w
                  ELSE Translate(Episodes(Enrich([w EXCEPT !.page.item = MergePanel(@, a)], TRUE)))
        /\ UNCHANGED <<disk, cached, spent>>
SeriesDetailFailed ==
  \E j \in UnderWay("panel") :
     /\ IsShow(j.t) /\ win' = End(win, j)
     /\ UNCHANGED <<items, disk, cached, spent>>

\* DetailMetaLoaded, from the network or from the cache.
MetaLoaded(j, found) ==
  LET w == [End(win, j) EXCEPT !.loading = FALSE]
      u == Find(j.t)
  IN IF found = {}
     THEN /\ cached' = IF Shown(win.page, j.t)
                       THEN [cached EXCEPT ![win.page.item.film] = {Miss}] ELSE cached
          /\ win' = w
          /\ UNCHANGED <<items, disk, spent>>
     ELSE LET p == CHOOSE p \in found : TRUE
          IN /\ cached' = IF Shown(win.page, j.t)
                          THEN [cached EXCEPT ![win.page.item.film] = {p}] ELSE cached
             /\ items' = [items EXCEPT ![u] = ApplyPatch(@, p)]
             /\ disk' = [disk EXCEPT ![u] = items'[u]]
             /\ win' = Translate([w EXCEPT
                         !.page.item = IF Shown(win.page, j.t) THEN ApplyPatch(@, p) ELSE @])
             /\ UNCHANGED spent
Patch(t, f) == [of |-> t, plot |-> f.plot, info |-> f.info]
DetailMetaMissedSilently ==
  \E j \in UnderWay("web") : win' = End(win, j) /\ UNCHANGED <<items, disk, cached, spent>>
DetailMetaMissed == \E j \in UnderWay("web") : MetaLoaded(j, {})
DetailMetaLoaded ==
  \/ \E j \in UnderWay("web"), f \in WebFacts : MetaLoaded(j, {Patch(j.t, f)})
  \/ \E j \in UnderWay("told") : MetaLoaded(j, j.patch)

\* The episodes come with the whole entry as it was when they were asked for, and
\* that is what is saved.
SeriesEpisodesEnriched ==
  \E j \in UnderWay("episodes"), eps \in {"bare", "told"} :
     LET u == Find(j.t)
         item == [j.item EXCEPT !.eps = eps]
         w == End(win, j)
     IN /\ item.info < disk[u].info => "episodes" \in Faults
        /\ items' = [items EXCEPT ![u].eps = eps]
        /\ disk' = [disk EXCEPT ![u] = item]
        /\ win' = IF Shown(win.page, j.t) THEN Translate([w EXCEPT !.page.item.eps = eps]) ELSE w
        /\ UNCHANGED <<cached, spent>>

TranslationsReadyAnyLang ==
  \E j \in UnderWay("text"), ok \in BOOLEAN :
     LET pairs == {[text |-> x, lang |-> j.lang] : x \in j.texts}
         w == [End(win, j) EXCEPT
                 !.asked = @ \ j.texts,
                 !.stored = IF ok THEN @ \cup pairs ELSE @,
                 !.known = @ \cup pairs]
     IN /\ win' = IF Cardinality(w.known) > MaxKept THEN Translate([w EXCEPT !.known = {}]) ELSE w
        /\ UNCHANGED <<items, disk, cached, spent>>
\* What could not be translated is taken for its own translation.
TranslationsReady ==
  \E j \in UnderWay("text"), ok \in BOOLEAN :
     LET pairs == {[text |-> x, lang |-> j.lang] : x \in j.texts}
         w == [End(win, j) EXCEPT
                 !.asked = @ \ j.texts,
                 !.stored = IF ok THEN @ \cup pairs ELSE @,
                 !.known = IF j.lang = win.lang THEN @ \cup pairs ELSE @]
     IN /\ win' = IF Cardinality(w.known) > MaxKept THEN Translate([w EXCEPT !.known = {}]) ELSE w
        /\ UNCHANGED <<items, disk, cached, spent>>
-----------------------------------------------------------------------------
\* The passes in the background.
Batch == spent.batches < MaxBatches /\ spent' = [spent EXCEPT !.batches = @ + 1]
Calm(fault) == win.page.tapped = "none" \/ fault \in Faults

\* enrich_metadata_task: what the cache tells of the titles, and those to ask about.
EnrichMetadata ==
  LET need == {t \in Titles : NeedsEnrich(items[t])}
      told == {p \in UNION {cached[t] : t \in need} : p # Miss}
      todo == {t \in need : cached[t] = {}}
  IN /\ Batch /\ (todo # {} \/ told # {})
     /\ win' = Begin(win, [kind |-> "batch", todo |-> todo, patches |-> told])
     /\ UNCHANGED <<items, disk, cached>>
\* One of them is answered, and cached.
EnrichTitle ==
  \E j \in UnderWay("batch"), found \in {{}} \cup {{f} : f \in WebFacts} : \E t \in j.todo :
     LET patches == {Patch(t, f) : f \in found}
     IN /\ cached' = [cached EXCEPT ![t] = IF patches = {} THEN {Miss} ELSE patches]
        /\ win' = Begin(End(win, j), [j EXCEPT !.todo = @ \ {t}, !.patches = @ \cup patches])
        /\ UNCHANGED <<items, disk, spent>>
\* The page that is open is replaced by the entry in the library.
Renewed(i) ==
  LET new == items'[Find(i.film)]
  IN IF IsShow(i.film) /\ new.eps = "none" THEN [new EXCEPT !.eps = i.eps] ELSE new
MetaEnriched ==
  \E j \in UnderWay("batch") :
     /\ j.todo = {} /\ Calm("batch")
     /\ items' = FoldSet(LAMBDA p, all : [all EXCEPT ![Find(p.of)] = ApplyPatch(@, p)],
                         items, j.patches)
     /\ disk' = [t \in Titles |-> IF \E p \in j.patches : p.of = t THEN items'[Find(t)] ELSE disk[t]]
     /\ win' = [End(win, j) EXCEPT
                  !.page.item = IF win.page.tapped = "none" THEN @ ELSE Renewed(@)]
     /\ UNCHANGED <<cached, spent>>

\* enrich_xtream_vod_batch_task, when the films are first shown.
EnrichXtreamVod ==
  LET need == {t \in ToSet(Films) \ Panelless : NeedsEnrich(items[t])}
  IN /\ Batch /\ need # {}
     /\ win' = Begin(win, [kind |-> "info", films |-> need])
     /\ UNCHANGED <<items, disk, cached>>
VodInfoBatch ==
  \E j \in UnderWay("info"), f \in PanelFacts : \E ok \in {{}, j.films} :
     LET answer(t) == [of |-> t, plot |-> f.plot, info |-> f.info]
     IN /\ Calm("batch")
        /\ items' = FoldSet(LAMBDA t, all : [all EXCEPT ![Find(t)] = MergePanel(@, answer(t))],
                            items, ok)
        /\ disk' = [t \in Titles |-> IF \E u \in ok : Find(u) = t THEN items'[t] ELSE disk[t]]
        /\ win' = [End(win, j) EXCEPT
                     !.page.item = IF \E t \in ok : Shown(win.page, t) THEN items'[Find(@.film)] ELSE @]
        /\ UNCHANGED <<cached, spent>>
-----------------------------------------------------------------------------
Next ==
  \/ \E t \in Titles : OpenVodDetail(t) \/ OpenSeries(t)
  \/ CloseDetail
  \/ \E code \in Langs : SetPrefLang(code)
  \/ ToggleTranslateMeta
  \/ VodDetailLoaded \/ VodDetailFailed \/ SeriesDetailLoaded \/ SeriesDetailFailed
  \/ DetailMetaLoaded \/ DetailMetaMissed \/ SeriesEpisodesEnriched \/ TranslationsReady
  \/ EnrichMetadata \/ EnrichTitle \/ MetaEnriched
  \/ EnrichXtreamVod \/ VodInfoBatch

Spec == Init /\ [][Next]_vars
-----------------------------------------------------------------------------
Items == [film : Titles, of : SUBSET Titles, plot : Synopses, info : 0 .. 2,
          eps : {"none", "bare", "told"}]
TypeOK ==
  /\ items \in [Titles -> Items] /\ disk \in [Titles -> Items]
  /\ \A t \in Titles : Cardinality(cached[t]) <= 1
  /\ win.page = NoPage \/ win.page \in [tapped : Titles, item : Items]
  /\ win.on \in BOOLEAN /\ win.lang \in Langs

\* A row of a profile holds the title it is named for and what was told of it: an
\* answer that comes late, or for a title of another panel, does not get there.
RowsAreTheirs == \A t \in Titles : disk[t].film = t /\ disk[t].of = {t}

\* The page shows the title that was tapped, and what was told of that one.
PageIsTapped ==
  win.page.tapped # "none" => /\ win.page.item.film = win.page.tapped
                              /\ win.page.item.of = {win.page.tapped}

\* A text is shown in the language of the settings, never in the one before.
RightLanguage == \A k \in win.known : k.lang = win.lang

\* Once all answers are there the texts of the page are translated, however often the
\* page and the language changed meanwhile.
PageTranslated ==
  win.jobs = EmptyBag /\ TranslationOn(win) =>
     \A x \in Texts(win.page) : [text |-> x, lang |-> win.lang] \in win.known

\* Once all answers are there the page does not say that it is loading.
LoadingEnds == win.jobs = EmptyBag => ~win.loading

\* No text is being translated twice into the language of the settings.
AskedOnce ==
  \A j, k \in UnderWay("text") :
     j.lang = win.lang /\ k.lang = win.lang /\ j.texts \cap k.texts # {} =>
        j = k /\ CopiesIn(j, win.jobs) = 1

\* Credits that were saved are not written over by an entry without them.
SavedCreditsStay == \A t \in Titles : disk'[t].info >= disk[t].info
=============================================================================
