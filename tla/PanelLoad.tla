------------------------------- MODULE PanelLoad -------------------------------
(***************************************************************************)
(* Loading the catalogue of an Xtream panel                                *)
(* (src/crates/fluxplay-providers/src/xtream.rs, api_cache.rs): every      *)
(* request looks in the cache on disk, waits for one of two permits, asks  *)
(* the panel, stores the answer, and falls back to a stale one when the    *)
(* panel fails.  load_bundle asks for the account, then for the lists,     *)
(* then for everything at once, then category by category.                 *)
(*                                                                         *)
(* An answer is the version of the panel's content it was made from.       *)
(***************************************************************************)
EXTENDS Naturals, FiniteSets, FiniteSetsExt

CONSTANTS
  Loads,     \* calls to load_bundle that may run
  Kinds,     \* subset of {"vod", "series"}
  Cats,      \* categories of each kind that are not for adults
  Permits,   \* PORTAL_CONCURRENCY
  Parallel,  \* categories asked at once, of each kind
  MaxVer,    \* bound: changes of the panel's content
  MaxTurns,  \* bound: changes of the panel's mood
  MaxRuns,   \* bound: loads begun
  Faults     \* subset of {"overlap"}: a load begins while another runs

VARIABLES
  panel,  \* version of the content, mood, whether it gives everything at once
  disk,   \* api_cache: for each request a version and whether it is fresh
  load,   \* load_bundle: its stage, the version when it began, if it is a reload
  req,    \* its requests: where each is, the answer in its hands
  got     \* what it got: a version, an error, or nothing yet

vars == <<panel, disk, load, req, got>>

Moods == {"ok", "busy", "refused"}
Lists == {<<"cats", k>> : k \in Kinds}
Dumps == {<<"dump", k>> : k \in Kinds}
CatsOf(k) == {<<k, c>> : c \in Cats}
Keys == {<<"auth", "">>, <<"live", "">>} \cup Lists \cup Dumps \cup UNION {CatsOf(k) : k \in Kinds}
Auth == <<"auth", "">>
Live == <<"live", "">>
Nothing == MaxVer + 1
Error == MaxVer + 2
No == [at |-> "no", ver |-> 0]
NoEntry == [ver |-> Nothing, fresh |-> FALSE]

Init ==
  /\ panel \in [ver : {0}, mood : {"ok"}, turns : {0}, whole : BOOLEAN]
  /\ disk = [k \in Keys |-> NoEntry]
  /\ load = [l \in Loads |-> [at |-> "idle", since |-> 0, reload |-> FALSE, runs |-> 0]]
  /\ req = [l \in Loads |-> [k \in Keys |-> No]]
  /\ got = [l \in Loads |-> [k \in Keys |-> Nothing]]

Running(l) == load[l].at \notin {"idle", "done", "failed"}
Flying(l) == {k \in Keys : req[l][k] # No}
\* The permit goes back when the answer, or the error, is in hand.
Taken == SumSet({Cardinality({k \in Keys : req[l][k].at = "sent"}) : l \in Loads})

-----------------------------------------------------------------------------
\* fetch_api_json.
\* An entry within its time to live is the answer.
Ask(l, k) ==
  /\ req[l][k] = No /\ got[l][k] = Nothing
  /\ IF disk[k].fresh
     THEN got' = [got EXCEPT ![l][k] = disk[k].ver] /\ UNCHANGED req
     ELSE req' = [req EXCEPT ![l][k].at = "wait"] /\ UNCHANGED got
  /\ UNCHANGED <<panel, disk, load>>

\* with_portal_limit.
Send(l, k) ==
  /\ req[l][k].at = "wait" /\ Taken < Permits
  /\ req' = [req EXCEPT ![l][k].at = "sent"]
  /\ UNCHANGED <<panel, disk, load, got>>

Answer(l, k) ==
  /\ req[l][k].at = "sent" /\ panel.mood = "ok"
  /\ req' = [req EXCEPT ![l][k] = [at |-> "have", ver |-> panel.ver]]
  /\ UNCHANGED <<panel, disk, load, got>>
\* api_cache::put, with the permit given back.
Store(l, k) ==
  /\ req[l][k].at = "have"
  /\ disk' = [disk EXCEPT ![k] = [ver |-> req[l][k].ver, fresh |-> TRUE]]
  /\ got' = [got EXCEPT ![l][k] = req[l][k].ver]
  /\ req' = [req EXCEPT ![l][k] = No]
  /\ UNCHANGED <<panel, load>>
\* HTTP 429, another status or no answer: what the disk has, however old.
FailKeepsNothing(l, k) ==
  /\ req[l][k].at = "sent"
  /\ panel.mood = "busy" \/ (panel.mood = "refused" /\ k # Auth)
  /\ got' = [got EXCEPT ![l][k] = Error]
  /\ req' = [req EXCEPT ![l][k] = No]
  /\ UNCHANGED <<panel, disk, load>>
Fail(l, k) ==
  /\ req[l][k].at = "sent"
  /\ panel.mood = "busy" \/ (panel.mood = "refused" /\ k # Auth)
  /\ got' = [got EXCEPT ![l][k] = IF disk[k] = NoEntry THEN Error ELSE disk[k].ver]
  /\ req' = [req EXCEPT ![l][k] = No]
  /\ UNCHANGED <<panel, disk, load>>
\* check_auth: the answer is not stored, and the load fails, whatever the disk has.
Refuse(l) ==
  /\ req[l][Auth].at = "sent" /\ panel.mood = "refused"
  /\ got' = [got EXCEPT ![l][Auth] = Error]
  /\ req' = [req EXCEPT ![l][Auth] = No]
  /\ UNCHANGED <<panel, disk, load>>

-----------------------------------------------------------------------------
\* load_bundle.
Over(l, K) == \A k \in K : got[l][k] # Nothing
Ok(l, k) == got[l][k] \in 0..MaxVer
At(l, stage) == load' = [load EXCEPT ![l].at = stage]

BeginKeepsCache(l, reload) ==
  /\ ~Running(l) /\ load[l].runs < MaxRuns
  /\ "overlap" \notin Faults => \A m \in Loads : ~Running(m)
  /\ load' = [load EXCEPT ![l] = [at |-> "auth", since |-> panel.ver, reload |-> reload,
                                  runs |-> @.runs + 1]]
  /\ got' = [got EXCEPT ![l] = [k \in Keys |-> Nothing]]
  /\ UNCHANGED <<panel, disk, req>>
\* load_single; ReloadSource empties the cache first.
Begin(l, reload) ==
  /\ ~Running(l) /\ load[l].runs < MaxRuns
  /\ "overlap" \notin Faults => \A m \in Loads : ~Running(m)
  /\ load' = [load EXCEPT ![l] = [at |-> "auth", since |-> panel.ver, reload |-> reload,
                                  runs |-> @.runs + 1]]
  /\ got' = [got EXCEPT ![l] = [k \in Keys |-> Nothing]]
  /\ disk' = IF reload THEN [k \in Keys |-> NoEntry] ELSE disk
  /\ UNCHANGED <<panel, req>>

AskAuth(l) == load[l].at = "auth" /\ Ask(l, Auth)
AuthOver(l) ==
  /\ load[l].at = "auth" /\ Over(l, {Auth})
  /\ At(l, IF Ok(l, Auth) THEN "headers" ELSE "failed")
  /\ UNCHANGED <<panel, disk, req, got>>

\* The streams and the lists of categories, all at once: a failed list is done
\* without, and failed streams fail the load when the lists are over.
AskHeader(l) == load[l].at = "headers" /\ \E k \in {Live} \cup Lists : Ask(l, k)
HeadersOverEarly(l) ==
  /\ load[l].at = "headers" /\ got[l][Live] # Nothing
  /\ Over(l, {Live} \cup Lists) \/ got[l][Live] = Error
  /\ At(l, IF Ok(l, Live) THEN "dumps" ELSE "failed")
  /\ UNCHANGED <<panel, disk, req, got>>
HeadersOver(l) ==
  /\ load[l].at = "headers" /\ Over(l, {Live} \cup Lists)
  /\ At(l, IF Ok(l, Live) THEN "dumps" ELSE "failed")
  /\ UNCHANGED <<panel, disk, req, got>>

AskDump(l) == load[l].at = "dumps" /\ \E k \in Dumps : Ask(l, k)
DumpsOver(l) ==
  /\ load[l].at = "dumps" /\ Over(l, Dumps)
  /\ At(l, "cats")
  /\ UNCHANGED <<panel, disk, req, got>>

\* A dump that failed, or is too small to be one.
Empty(l, kind) == ~Ok(l, <<"dump", kind>>) \/ ~panel.whole
\* load_vod_and_series_full: the categories of a list that was got.
Walked(l, kind) == IF Empty(l, kind) /\ Ok(l, <<"cats", kind>>) THEN CatsOf(kind) ELSE {}
\* parallel_map_categories: a category that fails is done without.
AskCat(l) ==
  /\ load[l].at = "cats"
  /\ \E kind \in Kinds : \E k \in Walked(l, kind) :
       /\ Cardinality(Flying(l) \cap CatsOf(kind)) < Parallel
       /\ Ask(l, k)
CatsOver(l) ==
  /\ load[l].at = "cats"
  /\ \A kind \in Kinds : Over(l, Walked(l, kind))
  /\ At(l, "done")
  /\ UNCHANGED <<panel, disk, req, got>>

-----------------------------------------------------------------------------
\* ttl_for_action.
Expire(k) ==
  /\ disk[k].fresh
  /\ disk' = [disk EXCEPT ![k].fresh = FALSE]
  /\ UNCHANGED <<panel, load, req, got>>
\* The panel gets other content, or another mood.
NewContent ==
  /\ panel.ver < MaxVer
  /\ panel' = [panel EXCEPT !.ver = @ + 1]
  /\ UNCHANGED <<disk, load, req, got>>
Turn(mood) ==
  /\ panel.turns < MaxTurns /\ mood # panel.mood
  /\ panel' = [panel EXCEPT !.mood = mood, !.turns = @ + 1]
  /\ UNCHANGED <<disk, load, req, got>>

Next ==
  \/ \E l \in Loads :
       \/ \E k \in Keys : Send(l, k) \/ Answer(l, k) \/ Store(l, k) \/ Fail(l, k)
       \/ Refuse(l)
       \/ \E reload \in BOOLEAN : Begin(l, reload)
       \/ AskAuth(l) \/ AuthOver(l) \/ AskHeader(l) \/ HeadersOver(l)
       \/ AskDump(l) \/ DumpsOver(l) \/ AskCat(l) \/ CatsOver(l)
  \/ \E k \in Keys : Expire(k)
  \/ NewContent
  \/ \E mood \in Moods : Turn(mood)

Spec == Init /\ [][Next]_vars
-----------------------------------------------------------------------------
TypeOK ==
  /\ panel.ver \in 0..MaxVer /\ panel.mood \in Moods
  /\ disk \in [Keys -> [ver : 0..MaxVer, fresh : BOOLEAN] \cup {NoEntry}]
  /\ \A l \in Loads :
       load[l].at \in {"idle", "auth", "headers", "dumps", "cats", "done", "failed"}
  /\ req \in [Loads -> [Keys -> [at : {"no", "wait", "sent", "have"}, ver : 0..MaxVer]]]
  /\ got \in [Loads -> [Keys -> 0..(MaxVer + 2)]]
  /\ Taken <= Permits

\* A manual reload ("Force fresh portal JSON") gives nothing the panel had
\* before it.
ReloadIsFresh ==
  \A l \in Loads : load[l].at = "done" /\ load[l].reload =>
    \A k \in Keys : Ok(l, k) => got[l][k] >= load[l].since

\* What the application already has of the panel outlives the panel: a load
\* that is not refused fails only for something it never had.  (An entry of
\* the disk is never lost but to a reload.)
HadIsKept ==
  \A l \in Loads : load[l].at \in {"done", "failed"} /\ ~load[l].reload =>
    \A k \in Keys : disk[k] # NoEntry /\ k # Auth => got[l][k] # Error

\* Each category of a kind that has no dump was asked for, however the others
\* ended ("fall back to walking every non-adult category"), and no request is
\* left behind by a load that is over.
EveryCategory ==
  \A l \in Loads :
    /\ load[l].at = "done" =>
         \A kind \in Kinds : Empty(l, kind) /\ Ok(l, <<"cats", kind>>) => Over(l, CatsOf(kind))
    /\ ~Running(l) => Flying(l) = {}
=============================================================================
