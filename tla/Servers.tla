-------------------------------- MODULE Servers --------------------------------
(***************************************************************************)
(* Several servers for one subscription                                    *)
(* (src/crates/fluxplay-providers/src/servers.rs): they are probed all at  *)
(* once, the ranking is kept for a quarter of an hour, and loading the     *)
(* catalogue, playing and downloading move from one server to the next in  *)
(* its order.                                                              *)
(*                                                                         *)
(* A base is the start of a URL: the API of a server, or the media host    *)
(* its server_info names.                                                  *)
(***************************************************************************)
EXTENDS Naturals, Sequences, SequencesExt, FiniteSets

CONSTANTS
  Hosts,     \* servers that may be configured
  Profiles,  \* lists of servers the profile may have
  Split,     \* those whose server_info names another media host
  MaxEdits,  \* bound: edits of the profile
  MaxTurns,  \* bound: servers that go down or come back
  MaxLoads,  \* bound: loads of the catalogue
  Faults     \* subset of {"stale"}: the profile is edited during a probe

VARIABLES
  conf,     \* MediaSource: endpoint and mirrors, and how often it was edited
  alive,    \* the servers that answer, and how often that changed
  cache,    \* servers::cache for this profile
  probe,    \* the calls to rank under way: of the load, of the interface
  load,     \* load_source
  catalog   \* base of the stream URLs of the catalogue

vars == <<conf, alive, cache, probe, load, catalog>>

Tasks == {"load", "ui"}
Api(h) == [host |-> h, kind |-> "api"]
Media(h) == [host |-> h, kind |-> IF h \in Split THEN "cdn" ELSE "api"]
Bases == [host : Hosts, kind : {"api", "cdn"}]

None == [up |-> <<>>, down |-> <<>>, prefixes |-> {}, known |-> FALSE, fresh |-> FALSE]
NoProbe == [eps |-> <<>>, up |-> <<>>, dead |-> {}]
NoLoad == [at |-> "idle", eps |-> <<>>, order |-> <<>>, failed |-> {}, loads |-> 0]

Init ==
  /\ conf \in [eps : Profiles, edits : {0}]
  /\ alive \in [hosts : SUBSET Hosts, turns : {0}]
  /\ cache = None
  /\ probe = [t \in Tasks |-> NoProbe]
  /\ load = NoLoad
  /\ catalog = Media(Head(conf.eps))

HasMirrors(eps) == Len(eps) > 1

-----------------------------------------------------------------------------
\* rank: one request to each server, at once.
\* A server that answers brings its server_info, in the order of the latencies.
ProbeAnswers(t) ==
  /\ \E h \in ToSet(probe[t].eps) \ (ToSet(probe[t].up) \cup probe[t].dead) :
       probe' = IF h \in alive.hosts
                THEN [probe EXCEPT ![t].up = Append(@, h)]
                ELSE [probe EXCEPT ![t].dead = @ \cup {h}]
  /\ UNCHANGED <<conf, alive, cache, load, catalog>>

Answered(t) ==
  /\ probe[t].eps # <<>>
  /\ ToSet(probe[t].eps) = ToSet(probe[t].up) \cup probe[t].dead
RankedUpOnly(p) ==
  [up |-> [i \in 1..Len(p.up) |-> Media(p.up[i])],
   down |-> <<>>,
   prefixes |-> {Api(h) : h \in ToSet(p.eps)} \cup {Media(h) : h \in ToSet(p.up)},
   known |-> TRUE, fresh |-> TRUE]
\* The media base of a server that did not answer is that of its API.
Ranked(p) ==
  [up |-> [i \in 1..Len(p.up) |-> Media(p.up[i])],
   down |-> [i \in 1..Cardinality(p.dead) |->
               Api(SelectSeq(p.eps, LAMBDA h : h \in p.dead)[i])],
   prefixes |-> {Api(h) : h \in ToSet(p.eps)} \cup {Media(h) : h \in ToSet(p.up)},
   known |-> TRUE, fresh |-> TRUE]
\* static_ranking: the configured order, when nothing was probed yet.
Static(eps) ==
  [up |-> [i \in 1..Len(eps) |-> Api(eps[i])], down |-> <<>>,
   prefixes |-> {Api(h) : h \in ToSet(eps)}, known |-> FALSE, fresh |-> FALSE]

EndpointOrderUp(r) == [i \in 1..Len(r.up) |-> r.up[i].host]
EndpointOrder(r) == [i \in 1..Len(r.up \o r.down) |-> (r.up \o r.down)[i].host]

\* rank_servers_task of the interface.
UiRanks ==
  /\ HasMirrors(conf.eps) /\ probe["ui"] = NoProbe
  /\ probe' = [probe EXCEPT !["ui"].eps = conf.eps]
  /\ UNCHANGED <<conf, alive, cache, load, catalog>>
\* rank: the new ranking takes the place of the old one.
UiRanked ==
  /\ Answered("ui")
  /\ cache' = Ranked(probe["ui"])
  /\ probe' = [probe EXCEPT !["ui"] = NoProbe]
  /\ UNCHANGED <<conf, alive, load, catalog>>

-----------------------------------------------------------------------------
\* load_source: without mirrors the one server, else the ranking, if it is old
\* after a probe.
Begin(eps, ranking) ==
  LET l == [at |-> "try", eps |-> eps, order |-> <<>>, failed |-> {}, loads |-> load.loads + 1]
  IN /\ load.loads < MaxLoads
     /\ \/ /\ ~HasMirrors(eps)
           /\ load' = [l EXCEPT !.order = eps]
           /\ UNCHANGED probe
        \/ /\ HasMirrors(eps) /\ ranking.fresh
           /\ load' = [l EXCEPT !.order = EndpointOrder(ranking)]
           /\ UNCHANGED probe
        \/ /\ HasMirrors(eps) /\ ~ranking.fresh
           /\ load' = [l EXCEPT !.at = "rank"]
           /\ probe' = [probe EXCEPT !["load"] = [NoProbe EXCEPT !.eps = eps]]

NoLoadRuns == load.at \in {"idle", "done", "failed"}
LoadStart ==
  /\ NoLoadRuns
  /\ Begin(conf.eps, cache)
  /\ UNCHANGED <<conf, cache, alive, catalog>>

LoadRanked ==
  /\ load.at = "rank" /\ Answered("load")
  /\ cache' = Ranked(probe["load"])
  /\ load' = [load EXCEPT !.at = "try", !.order = EndpointOrder(cache')]
  /\ probe' = [probe EXCEPT !["load"] = NoProbe]
  /\ UNCHANGED <<conf, alive, catalog>>

\* load_single on the next server; one that is down may still be answered for
\* by the cache of requests.
TryNext ==
  /\ load.at = "try" /\ load.order # <<>>
  /\ LET h == Head(load.order)
     IN \/ /\ load' = [load EXCEPT !.at = "done", !.order = <<>>]
           /\ catalog' = Media(h)
        \/ /\ h \notin alive.hosts
           /\ load' = [load EXCEPT !.order = Tail(@), !.failed = @ \cup {h}]
           /\ UNCHANGED catalog
  /\ UNCHANGED <<conf, alive, cache, probe>>
LoadFails ==
  /\ load.at = "try" /\ load.order = <<>>
  /\ load' = [load EXCEPT !.at = "failed"]
  /\ UNCHANGED <<conf, alive, cache, probe, catalog>>

-----------------------------------------------------------------------------
\* The servers for a URL of the catalogue, the URL itself among them, if it
\* starts with a base of the account.
Once(s) == SelectSeq([i \in 1..Len(s) |-> IF \E j \in 1..(i - 1) : s[j] = s[i] THEN <<>> ELSE <<s[i]>>],
                     LAMBDA x : x # <<>>)
CandidatesUp(url) ==
  LET r == IF cache.known THEN cache ELSE Static(conf.eps)
  IN IF ~HasMirrors(conf.eps) \/ url \notin r.prefixes THEN <<url>>
     ELSE FlattenSeq(Once(Append(r.up, url)))
Candidates(url) ==
  LET r == IF cache.known THEN cache ELSE Static(conf.eps)
  IN IF ~HasMirrors(conf.eps) \/ url \notin r.prefixes THEN <<url>>
     ELSE FlattenSeq(Once(Append(r.up, url) \o r.down))

DemotedOut(r, base) ==
  [r EXCEPT !.up = SelectSeq(@, LAMBDA b : b # base)]
\* demote: the first reachable server of that base goes to the end.
Demoted(r, base) ==
  IF base \notin ToSet(r.up) THEN r
  ELSE [r EXCEPT !.up = Append(SelectSeq(@, LAMBDA b : b # base), base)]

\* open_with_failover: every server refuses until one opens; all those that
\* refused, but for the last candidate, are demoted.
OpenWithFailover ==
  LET cs == Candidates(catalog)
      opens == {i \in 1..Len(cs) : cs[i].host \in alive.hosts}
      first == IF opens = {} THEN Len(cs) + 1 ELSE CHOOSE i \in opens : \A j \in opens : i <= j
      refused == [i \in 1..(IF opens = {} THEN Len(cs) - 1 ELSE first - 1) |-> cs[i]]
  IN /\ cache' = FoldLeft(Demoted, cache, refused)
     /\ UNCHANGED <<conf, alive, probe, load, catalog>>

-----------------------------------------------------------------------------
\* A probe that is under way when the profile is edited is a fault.
MayEdit(eps) ==
  /\ eps # conf.eps /\ conf.edits < MaxEdits /\ NoLoadRuns
  /\ "stale" \notin Faults => probe = [t \in Tasks |-> NoProbe]
EditKeepsRanking(eps) ==
  /\ MayEdit(eps)
  /\ conf' = [eps |-> eps, edits |-> conf.edits + 1]
  /\ Begin(eps, cache)
  /\ UNCHANGED <<alive, cache, catalog>>
\* The profile gets other servers: its ranking is forgotten, the catalogue loaded.
Edit(eps) ==
  /\ MayEdit(eps)
  /\ conf' = [eps |-> eps, edits |-> conf.edits + 1]
  /\ cache' = None
  /\ Begin(eps, None)
  /\ UNCHANGED <<alive, catalog>>

\* RANKING_TTL.
Expire ==
  /\ cache.fresh
  /\ cache' = [cache EXCEPT !.fresh = FALSE]
  /\ UNCHANGED <<conf, alive, probe, load, catalog>>
Turn(h) ==
  /\ alive.turns < MaxTurns
  /\ alive' = [hosts |-> SymDiff(alive.hosts, {h}), turns |-> alive.turns + 1]
  /\ UNCHANGED <<conf, cache, probe, load, catalog>>

Next ==
  \/ UiRanks \/ UiRanked \/ LoadStart \/ LoadRanked \/ TryNext \/ LoadFails
  \/ \E t \in Tasks : ProbeAnswers(t)
  \/ OpenWithFailover \/ Expire
  \/ \E eps \in Profiles : Edit(eps)
  \/ \E h \in Hosts : Turn(h)

Spec == Init /\ [][Next]_vars
-----------------------------------------------------------------------------
TypeOK ==
  /\ conf.eps \in Profiles /\ conf.edits \in 0..MaxEdits
  /\ alive.hosts \subseteq Hosts
  /\ cache.up \in Seq(Bases) /\ cache.down \in Seq(Bases) /\ cache.prefixes \subseteq Bases
  /\ cache.fresh => cache.known
  /\ \A t \in Tasks : /\ probe[t].up \in Seq(Hosts) /\ probe[t].dead \subseteq Hosts
                      /\ ToSet(probe[t].up) \cap probe[t].dead = {}
  /\ load.at \in {"idle", "rank", "try", "done", "failed"} /\ load.failed \subseteq Hosts
  /\ catalog \in Bases

\* A load gives up only after every server of the profile failed it, whatever
\* ranking it went by (load_source: "tried fastest first until one answers").
GivesUpLast == load.at = "failed" => load.failed = ToSet(load.eps)

\* The ranking has each server of the profile once, through probes that
\* overlap, refusals and edits.
RanksAll ==
  cache.known =>
    LET r == cache.up \o cache.down
    IN IsInjective(r) /\ {r[i].host : i \in 1..Len(r)} = ToSet(conf.eps)

\* A stream of the catalogue on one of the account's servers may be played, or
\* fetched, from each of them, and from those found down after the others
\* (open_with_failover, Plan; Ranking.prefixes: "Every base a catalog URL of
\* this account may start with").
FailoverReaches ==
  catalog.host \in ToSet(conf.eps) =>
    {b.host : b \in ToSet(Candidates(catalog))} = ToSet(conf.eps)

\* Ranking.prefixes: "Every base a catalog URL of this account may start with
\* (media and API bases of all servers)".
PrefixesComplete ==
  cache.known /\ catalog.host \in ToSet(conf.eps) => catalog \in cache.prefixes
=============================================================================
