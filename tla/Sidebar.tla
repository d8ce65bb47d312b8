------------------------------- MODULE Sidebar -------------------------------
(***************************************************************************)
(* The categories beside a list and the language of the viewer (app.rs,    *)
(* names.rs).  The sidebar is a cache: it is made anew by the messages     *)
(* that are known to change it, never when it is drawn.  With a language   *)
(* set its categories come first; with "only my language" the others are   *)
(* left out, and so are the titles of the list that are not in it.         *)
(*                                                                         *)
(* A category is written by the panel as [list, id, bars, code, words]:    *)
(* a code between bars or before one, then words.  `Faults`: "moves", the  *)
(* user goes elsewhere while a list is being made; "merges", the titles of *)
(* a category arrive when another one is shown.                            *)
(***************************************************************************)
EXTENDS Languages, Naturals, Sequences, FiniteSets, SequencesExt

CONSTANTS
  Bundles,   \* what the database may give: [cats |-> sequence, titles |-> set]
  Late,      \* titles a panel tells when their category is asked for
  Prefs,     \* languages a viewer may choose, "" for none
  Page,      \* CAT_PAGE, categories the sidebar may hold
  Faults     \* subset of {"moves", "merges"}

VARIABLES
  view,      \* tab, chosen category of each list, text typed above the sidebar
  lang,      \* settings: pref, only
  bundle,    \* categories and titles in memory
  sidebar,   \* cat_entries
  shown,     \* titles the list shows
  build,     \* what the list being made on another thread will show
  asked      \* categories asked of the panel

vars == <<view, lang, bundle, sidebar, shown, build, asked>>

Lists == {"live", "vod", "series"}
Tabs == Lists \cup {"settings"}
All == "*"
Nothing == [cats |-> <<>>, titles |-> {}]

-----------------------------------------------------------------------------
(* The name of a category. *)

\* A code between bars may be a region word; one before a bar has capitals only.
SplitPipeCode(c) ==
  IF c.bars = "both" \/ (c.bars = "after" /\ c.code # "fr") THEN c.code ELSE ""

KeywordLangs(word) ==
  CASE word \in {"FRANCAIS", "QUEBEC"} -> {"fr"}
    [] word \in {"VLAAMS", "FLEMISH"} -> {"nl"}
    [] word = "ENGLISH" -> {"en"}
    [] OTHER -> {}

\* A word that names a language is added to those of the region.
ParseCategoryWidens(c) ==
  LET code == SplitPipeCode(c)
      region == IF IsCode(code) THEN CodeInfo(code) ELSE NoLang
  IN [langs |-> region.langs \cup UNION {KeywordLangs(w) : w \in ToSet(c.words)},
      multi |-> region.multi \/ "MULTI" \in ToSet(c.words),
      adult |-> region.adult \/ "ADULTS" \in ToSet(c.words)]
\* A word that names a language takes the place of the languages of the region;
\* MULTI SUB are subtitles.
ParseCategory(c) ==
  LET code == SplitPipeCode(c)
      region == IF IsCode(code) THEN CodeInfo(code) ELSE NoLang
      spoken == UNION {KeywordLangs(w) : w \in ToSet(c.words)}
      dubbed(i) == c.words[i] = "MULTI" /\ (i < Len(c.words) => c.words[i + 1] # "SUB")
  IN [langs |-> IF spoken = {} THEN region.langs ELSE spoken,
      multi |-> region.multi \/ \E i \in DOMAIN c.words : dubbed(i),
      adult |-> region.adult \/ "ADULTS" \in ToSet(c.words)]

IsAdultCat(c) == c.code \in {"XXX", "+18"} \/ "ADULTS" \in ToSet(c.words)

-----------------------------------------------------------------------------
(* The sidebar. *)

LangFilterOn(lg) == lg.only /\ lg.pref # ""
InList(b, l) == {t \in b.titles : t.list = l}

KeptCategories(b, v, lg) ==
  SelectSeq(b.cats, LAMBDA c : /\ c.list = v.tab
                               /\ v.typed # "" => v.typed \in ToSet(c.words)
                               /\ LangFilterOn(lg) => Matches(ParseCategory(c), lg.pref))

\* filtered_categories: the viewer's language first, adult last, as the panel lists
\* them otherwise.
FilteredUnranked(b, v, lg) == KeptCategories(b, v, lg)
FilteredCategories(b, v, lg) ==
  FlattenSeq([r \in 1 .. 4 |-> SelectSeq(KeptCategories(b, v, lg),
                LAMBDA c : LangRank(ParseCategory(c), lg.pref) = r - 1)])

\* group_names: a playlist without categories has the groups of its channels.
GroupNames(b) == SetToSeq({t.cat : t \in InList(b, "live")})

\* rebuild_cat_entries
CatEntries(b, v, lg) ==
  LET l == v.tab
      kept == FilteredCategories(b, v, lg)
      cats == [i \in DOMAIN kept |-> kept[i].id]
      ids == IF l = "live" /\ cats = <<>> /\ ~lg.only THEN GroupNames(b) ELSE cats
      rows == SubSeq(ids, 1, IF Len(ids) < Page THEN Len(ids) ELSE Page)
  IN IF l \notin Lists THEN <<>>
     ELSE <<[id |-> All, active |-> v.chosen[l] = All,
             count |-> IF LangFilterOn(lg) THEN 0 ELSE Cardinality(InList(b, l))]>>
          \o [i \in DOMAIN rows |-> [id |-> rows[i], active |-> v.chosen[l] = rows[i], count |-> 0]]

-----------------------------------------------------------------------------
(* The list. *)

\* lang_ctx: the language of each category
CatLang(b, l, id) ==
  LET about == {c \in ToSet(b.cats) : c.list = l /\ c.id = id}
  IN IF about = {} THEN NoLang ELSE ParseCategory(CHOOSE c \in about : TRUE)

\* A title is kept by its own language, else by that of its category.
Keeps(b, t, lg) == LangFilterOn(lg) => ItemMatches(t.says, CatLang(b, t.list, t.cat), lg.pref)

\* build_browse_index_blocking
Listed(b, v, lg) ==
  {t \in InList(b, v.tab) : v.chosen[v.tab] \in {All, t.cat} /\ Keeps(b, t, lg)}

\* The sidebar is left as it is.
RebuildListOnly(v, b, lg) ==
  /\ UNCHANGED <<sidebar, build>>
  /\ shown' = IF v.tab \in Lists THEN Listed(b, v, lg) ELSE {}

\* rebuild_browse_index: a whole list is shown at once, another one is made apart and
\* takes the place of the one being made.
Rebuild(v, b, lg) ==
  /\ sidebar' = CatEntries(b, v, lg)
  /\ IF v.tab \notin Lists \/ (v.chosen[v.tab] = All /\ ~LangFilterOn(lg))
     THEN /\ shown' = IF v.tab \in Lists THEN InList(b, v.tab) ELSE {}
          /\ UNCHANGED build
     ELSE build' = {Listed(b, v, lg)} /\ UNCHANGED shown

MayMove == "moves" \in Faults \/ build = {}

\* At start the settings are read, the bundle is empty.
Init ==
  /\ view = [tab |-> "live", chosen |-> [l \in Lists |-> All], typed |-> ""]
  /\ lang \in {lg \in [pref : Prefs, only : BOOLEAN] : lg.only => lg.pref # ""}
  /\ bundle = Nothing /\ sidebar = <<>> /\ shown = {}
  /\ build = {} /\ asked = {}

\* pick_default_live_group: a French one, else the first, never an adult one.
DefaultGroups(b) ==
  LET live == SelectSeq(b.cats, LAMBDA c : c.list = "live" /\ ~IsAdultCat(c))
      french == SelectSeq(live, LAMBDA c : c.code \in {"FR", "fr"} \/ Head(c.words) = "FRANCAIS")
  IN IF french # <<>> THEN french[1].id
     ELSE IF live # <<>> THEN live[1].id
     ELSE IF InList(b, "live") # {} THEN GroupNames(b)[1] ELSE All

\* BundleCacheReady
BundleCacheReady(b) ==
  /\ bundle' = b
  /\ view' = [view EXCEPT !.chosen["live"] = IF @ = All THEN DefaultGroups(b) ELSE @]
  /\ Rebuild(view', b, lang)
  /\ UNCHANGED <<lang, asked>>

\* Message::Tab
TabListOnly(t) ==
  /\ MayMove
  /\ view' = [view EXCEPT !.tab = t, !.typed = "",
                !.chosen = [l \in Lists |-> IF l = t /\ t # "live" THEN All ELSE @[l]]]
  /\ RebuildListOnly(view', bundle, lang)
  /\ UNCHANGED <<lang, bundle, asked>>
Tab(t) ==
  /\ MayMove
  /\ view' = [view EXCEPT !.tab = t, !.typed = "",
                !.chosen = [l \in Lists |-> IF l = t /\ t # "live" THEN All ELSE @[l]]]
  /\ Rebuild(view', bundle, lang)
  /\ UNCHANGED <<lang, bundle, asked>>

\* CatFilterChanged, and what is pasted in its place
CatFilterChanged(text) ==
  /\ view.tab \in Lists
  /\ view' = [view EXCEPT !.typed = text]
  /\ sidebar' = CatEntries(bundle, view', lang)
  /\ UNCHANGED <<lang, bundle, shown, build, asked>>

\* SelectBrowseCategory, by a row of the sidebar
SelectBrowseCategory(id) ==
  /\ MayMove
  /\ \E i \in DOMAIN sidebar : sidebar[i].id = id
  /\ view' = [view EXCEPT !.chosen[view.tab] = id]
  /\ Rebuild(view', bundle, lang)
  /\ asked' = IF view.tab = "live" \/ id = All \/ \E t \in InList(bundle, view.tab) : t.cat = id
              THEN asked ELSE asked \cup {[list |-> view.tab, cat |-> id]}
  /\ UNCHANGED <<lang, bundle>>

\* VodCategoryLoaded, SeriesCategoryLoaded: an error changes nothing.
CategoryLoaded(a) ==
  /\ a \in asked /\ asked' = asked \ {a}
  /\ \/ UNCHANGED <<bundle, sidebar, shown, build>>
     \/ /\ bundle' = [bundle EXCEPT !.titles =
              {t \in @ : ~(t.list = a.list /\ t.cat = a.cat)}
                \cup {t \in Late : t.list = a.list /\ t.cat = a.cat}]
        /\ IF view.chosen[a.list] = a.cat THEN Rebuild(view, bundle', lang)
           ELSE "merges" \in Faults /\ UNCHANGED <<sidebar, shown, build>>
  /\ UNCHANGED <<view, lang>>

\* SetPrefLang, on the settings page
SetPrefLangKeepsOnly(pref) ==
  /\ MayMove /\ view.tab = "settings" /\ lang.pref # pref
  /\ lang' = [lang EXCEPT !.pref = pref]
  /\ Rebuild(view, bundle, lang')
  /\ UNCHANGED <<view, bundle, asked>>
SetPrefLang(pref) ==
  /\ MayMove /\ view.tab = "settings" /\ lang.pref # pref
  /\ lang' = [pref |-> pref, only |-> lang.only /\ pref # ""]
  /\ Rebuild(view, bundle, lang')
  /\ UNCHANGED <<view, bundle, asked>>

\* ToggleOnlyPrefLang
ToggleOnlyPrefLang ==
  /\ MayMove /\ view.tab = "settings" /\ lang.pref # ""
  /\ lang' = [lang EXCEPT !.only = ~@]
  /\ Rebuild(view, bundle, lang')
  /\ UNCHANGED <<view, bundle, asked>>

\* BrowseIndexReady of the current generation
BrowseIndexReady ==
  /\ shown' \in build /\ build' = {}
  /\ UNCHANGED <<view, lang, bundle, sidebar, asked>>

Next ==
  \/ \E b \in Bundles : BundleCacheReady(b)
  \/ \E t \in Tabs : Tab(t)
  \/ \E text \in {"", "SPORT"} : CatFilterChanged(text)
  \/ \E c \in UNION {ToSet(b.cats) : b \in Bundles} : SelectBrowseCategory(c.id)
  \/ SelectBrowseCategory(All)
  \/ \E a \in asked : CategoryLoaded(a)
  \/ \E pref \in Prefs : SetPrefLang(pref)
  \/ ToggleOnlyPrefLang
  \/ BrowseIndexReady

Spec == Init /\ [][Next]_vars

-----------------------------------------------------------------------------
\* The state has its type; no filter without a language.
TypeOK ==
  /\ view.tab \in Tabs /\ view.typed \in {"", "SPORT"}
  /\ lang \in [pref : Prefs, only : BOOLEAN] /\ lang.only => lang.pref # ""
  /\ \A r \in build : r \subseteq bundle.titles
  /\ \A a \in asked : a.list \in {"vod", "series"}

Entries == {sidebar[i].id : i \in DOMAIN sidebar} \ {All}
About(id) == CHOOSE c \in ToSet(bundle.cats) : c.list = view.tab /\ c.id = id
Place(id) == CHOOSE i \in DOMAIN bundle.cats : bundle.cats[i] = About(id)

\* The rows of a playlist without categories, or of a text that no category has, are
\* the groups of its channels.
OfGroups == view.tab = "live" /\ (bundle.cats = <<>> \/ view.typed # "")

\* What the sidebar says is so, whatever changed since it was made: it marks the
\* category the list shows and no other, counts the titles in memory, has the text
\* that was typed and, under the viewer's language alone, no category of another
\* language (app.rs:312, cat_entries).
SidebarIsTrue ==
  /\ view.tab \notin Lists => sidebar = <<>>
  /\ view.tab \in Lists /\ bundle # Nothing => sidebar # <<>>
  /\ \A i \in DOMAIN sidebar :
       /\ sidebar[i].active <=> view.chosen[view.tab] = sidebar[i].id
       /\ sidebar[i].id = All /\ ~LangFilterOn(lang)
            => sidebar[i].count = Cardinality({t \in bundle.titles : t.list = view.tab})
  /\ OfGroups \/ /\ Entries \subseteq {c.id : c \in {d \in ToSet(bundle.cats) : d.list = view.tab}}
                 /\ \A id \in Entries :
                      /\ view.typed # "" => view.typed \in ToSet(About(id).words)
                      /\ LangFilterOn(lang) => lang.pref \in About(id).speaks

\* Viewer language first, adult last, portal order inside (app.rs:7950): of two
\* categories the one of the viewer's language comes first, an adult one last, and of
\* two of the same rank the one the panel lists first.
PreferredFirst ==
  LET rank(id) == LangRank(ParseCategory(About(id)), lang.pref)
      named(id) == lang.pref \in ParseCategory(About(id)).langs
      adult(id) == About(id).adult
  IN OfGroups \/ \A i, j \in 2 .. Len(sidebar) : i < j =>
       LET a == sidebar[i].id  b == sidebar[j].id
       IN /\ adult(a) => adult(b)
          /\ named(b) /\ ~adult(b) => named(a)
          /\ rank(a) = rank(b) => Place(a) < Place(b)

\* A viewer of that language understands the title: by its own words, or by its category.
Understood(t) ==
  IF IsKnown(t.says) THEN lang.pref \in t.says.langs \/ t.says.langs = {}
  ELSE \E c \in ToSet(bundle.cats) : c.list = t.list /\ c.id = t.cat /\ lang.pref \in c.speaks

\* With the filter on, what the list shows of the chosen category is what a viewer of
\* that language understands, and nothing of it is missing (app.rs:9274, "Afficher
\* uniquement les chaînes TV, les VOD et séries disponibles dans votre langue").
OnlyMine ==
  build = {} /\ view.tab \in Lists =>
    shown = {t \in bundle.titles : /\ t.list = view.tab
                                   /\ view.chosen[view.tab] \in {All, t.cat}
                                   /\ lang.only => Understood(t)}

\* The category the list is of has its row, so that the viewer sees why the list is
\* empty.  It has none when the filter leaves it out.
ChosenIsListed ==
  view.tab \in Lists /\ view.typed = "" /\ bundle # Nothing =>
    \E i \in DOMAIN sidebar : sidebar[i].active

=============================================================================
