------------------------------- MODULE MCLibrary -------------------------------
(***************************************************************************)
(* The library and what brings it, side by side, each part on a small      *)
(* instance: the catalogue and its browser, the pictures it shows, the     *)
(* servers of a subscription, the requests to a panel, the tunnel they go  *)
(* through and the proxy it is, the split of an earlier catalogue.  They   *)
(* share no variable here: a behaviour is one of `part`, the variables of  *)
(* the others stay at Unused, the catalogue stays as it begins, and one    *)
(* run checks them all.  The configuration describes the catalogue of the  *)
(* part of that name; two more run on the variables of the browser.      *)
(***************************************************************************)
EXTENDS Catalogue, Sequences

VARIABLES
  part,
  view, typed, lists, favs, index, episodes, builds, loads,
  list, pics, warm, fetching, pending, armed, spent,
  conf, alive, cache, probe, load, catalog,
  panel, disk, bundling, req, got,
  setting, ui, starts, proxy, socks, net, client, opts, running,
  tunnel, iface, stop, conn, slots, names, zone, moved, now,
  live, bak, profile, opener, owned, applied, removed, opened, crashes

CONSTANTS p1, p2

Both == {p1, p2}
Some == {"p"}
TwoJobs == {1, 2}
Kills == {"kill"}
TupleOf(S, n) == UNION {[1..k -> S] : k \in 1..n}
Unused == "unused"
browseVars == <<view, typed, lists, favs, index, episodes, builds, loads>>
imagesVars == <<list, pics, warm, fetching, pending, armed, spent>>
serversVars == <<conf, alive, cache, probe, load, catalog>>
panelVars == <<panel, disk, bundling, req, got>>
tunnelVars == <<setting, ui, starts, proxy, socks, net, client, opts, running>>
proxyVars == <<tunnel, iface, stop, conn, slots, names, zone, moved, now>>
splitVars == <<live, bak, profile, opener, owned, applied, removed, opened, crashes>>

\* The catalogue of one profile: through more operations, and with a database found locked.
Alone == INSTANCE Catalogue WITH
  sources <- view, known <- typed, db <- lists, handle <- favs, bundle <- index, jobs <- episodes,
  portal <- builds, ops <- loads,
  Profiles <- Some, Slots <- {1, 2}, MaxVersion <- 2, MaxOps <- 4, Faults <- {"kill"}
Locked == INSTANCE Catalogue WITH
  sources <- view, known <- typed, db <- lists, handle <- favs, bundle <- index, jobs <- episodes,
  portal <- builds, ops <- loads,
  Profiles <- Some, Slots <- {1, 2}, MaxVersion <- 1, MaxOps <- 1, Faults <- {"locked"}

Browse == INSTANCE Browse WITH
  Titles <- {"a1", "b1", "s1", "k1"},
  CatOf <- [t \in {"a1", "b1", "s1", "k1"} |-> IF t = "b1" THEN "b" ELSE "a"],
  Hits <- {"a1", "k1"}, Kept <- {"a1", "b1", "s1", "k1"},
  Bundles <- {[live |-> <<"k1">>, vod |-> <<"a1", "b1">>, series |-> <<"s1">>],
              [live |-> <<"k1">>, vod |-> <<"a1">>, series |-> <<"s1">>]},
  MaxBuilds <- 2,
  Faults <- {}

\* Two views, one with a title that has no picture; the hosts are x and y.
Images == INSTANCE Images WITH
  cache <- pics, net <- fetching,
  Urls <- {"a", "b", "c", "d", "e"},
  HostOf <- [u \in {"a", "b", "c", "d", "e"} |-> IF u \in {"d", "e"} THEN "y" ELSE "x"],
  Tiny <- {"e"},
  Views <- {<<"a", "b", "none", "c", "d">>, <<"c", "e">>},
  Window <- 2, Warm <- 2, Inflight <- 2, Prefetch <- 2, MaxRam <- 3, FlushAt <- 2, Trip <- 2,
  MaxMoves <- 3, MaxFails <- 3, Faults <- {}

\* A server alone, and one with two others for mirrors.
Servers == INSTANCE Servers WITH
  Hosts <- {"h1", "h2", "h3"},
  Profiles <- {<<"h1">>, <<"h2", "h3", "h1">>},
  Split <- {}, MaxEdits <- 1, MaxTurns <- 1, MaxLoads <- 1, Faults <- {}

Panel == INSTANCE PanelLoad WITH
  load <- bundling,
  Loads <- {"l"}, Kinds <- {"vod"}, Cats <- {"c1", "c2"}, Permits <- 2, Parallel <- 1,
  MaxVer <- 1, MaxTurns <- 1, MaxRuns <- 2, Faults <- {}

\* A user who waits for the tunnel to start, and one who does not.
Calm == INSTANCE Tunnel WITH alive <- running, MaxStarts <- 3, Faults <- {}
Hasty == INSTANCE Tunnel WITH alive <- running, MaxStarts <- 2, Faults <- {"overlap"}
ASSUME Calm!ConstantsOK /\ Hasty!ConstantsOK

\* One slot for two clients; a name whose addresses change once.
Proxy == INSTANCE WgProxy WITH
  cache <- names,
  Clients <- {"c1", "c2"}, Names <- {"n"},
  Zones <- {<<>>, <<[fam |-> 6, ver |-> 1]>>, <<[fam |-> 6, ver |-> 2], [fam |-> 4, ver |-> 2]>>},
  Families <- {4, 6}, Wanted <- <<>>,
  Profiles <- TupleOf([kind : {"interface"}, keys : SUBSET {"PrivateKey", "Address6"}]
                        \cup [kind : {"peer"}, keys : SUBSET {"PublicKey", "Endpoint", "AllowedIPs"}]
                        \cup [kind : {"other"}, keys : {{"PublicKey"}}], 3),
  Heads <- TupleOf({"host", "connection", "proxy-authorization", "range"}, 2),
  MaxClients <- 1, Keeps <- {0, 3}, KeepMin <- 1, KeepMax <- 2, MaxTime <- 4

\* An old file of two profiles, split by a process that dies twice.
Old == {<<"channels", "a">>, <<"vod", "m">>, <<"categories", "c">>}
Split == INSTANCE LegacyCatalog WITH
  sources <- owned,
  Ids <- {"p", "q"}, Rows <- Old \cup {<<"channels", "b">>},
  Dumps <- {Old, {<<"channels", "b">>}},
  Legacy <- [rows |-> [i \in {"p", "q"} |-> Old], sums |-> [i \in {"p", "q"} |-> Old], old |-> TRUE],
  Openers <- {"o"}, MaxCrashes <- 2, Faults <- {}

NoCatalogue ==
  /\ sources = {} /\ known = {} /\ db = [p \in Profiles |-> NoFile] /\ handle = {}
  /\ bundle = NoRows /\ jobs = [j \in Slots |-> Idle] /\ portal = [p \in Profiles |-> 1] /\ ops = 0
NoBrowse ==
  /\ view = Unused /\ typed = Unused /\ lists = Unused /\ favs = Unused
  /\ index = Unused /\ episodes = Unused /\ builds = Unused /\ loads = Unused
NoImages ==
  /\ list = Unused /\ pics = Unused /\ warm = Unused /\ fetching = Unused
  /\ pending = Unused /\ armed = Unused /\ spent = Unused
NoServers ==
  /\ conf = Unused /\ alive = Unused /\ cache = Unused /\ probe = Unused
  /\ load = Unused /\ catalog = Unused
NoPanel ==
  panel = Unused /\ disk = Unused /\ bundling = Unused /\ req = Unused /\ got = Unused
NoTunnel ==
  /\ setting = Unused /\ ui = Unused /\ starts = Unused /\ proxy = Unused /\ socks = Unused
  /\ net = Unused /\ client = Unused /\ opts = Unused /\ running = Unused
NoProxy ==
  /\ tunnel = Unused /\ iface = Unused /\ stop = Unused /\ conn = Unused /\ slots = Unused
  /\ names = Unused /\ zone = Unused /\ moved = Unused /\ now = Unused
NoSplit ==
  /\ live = Unused /\ bak = Unused /\ profile = Unused /\ opener = Unused /\ owned = Unused
  /\ applied = Unused /\ removed = Unused /\ opened = Unused /\ crashes = Unused

LibraryInit ==
  \/ /\ part = "catalogue" /\ Init
     /\ NoBrowse /\ NoImages /\ NoServers /\ NoPanel /\ NoTunnel /\ NoProxy /\ NoSplit
  \/ /\ part = "alone" /\ Alone!Init
     /\ NoCatalogue /\ NoImages /\ NoServers /\ NoPanel /\ NoTunnel /\ NoProxy /\ NoSplit
  \/ /\ part = "locked" /\ Locked!Init
     /\ NoCatalogue /\ NoImages /\ NoServers /\ NoPanel /\ NoTunnel /\ NoProxy /\ NoSplit
  \/ /\ part = "browse" /\ Browse!Init
     /\ NoCatalogue /\ NoImages /\ NoServers /\ NoPanel /\ NoTunnel /\ NoProxy /\ NoSplit
  \/ /\ part = "images" /\ Images!Init
     /\ NoCatalogue /\ NoBrowse /\ NoServers /\ NoPanel /\ NoTunnel /\ NoProxy /\ NoSplit
  \/ /\ part = "servers" /\ Servers!Init
     /\ NoCatalogue /\ NoBrowse /\ NoImages /\ NoPanel /\ NoTunnel /\ NoProxy /\ NoSplit
  \/ /\ part = "panel" /\ Panel!Init
     /\ NoCatalogue /\ NoBrowse /\ NoImages /\ NoServers /\ NoTunnel /\ NoProxy /\ NoSplit
  \/ /\ part = "calm" /\ Calm!Init
     /\ NoCatalogue /\ NoBrowse /\ NoImages /\ NoServers /\ NoPanel /\ NoProxy /\ NoSplit
  \/ /\ part = "hasty" /\ Hasty!Init
     /\ NoCatalogue /\ NoBrowse /\ NoImages /\ NoServers /\ NoPanel /\ NoProxy /\ NoSplit
  \/ /\ part = "proxy" /\ Proxy!Init
     /\ NoCatalogue /\ NoBrowse /\ NoImages /\ NoServers /\ NoPanel /\ NoTunnel /\ NoSplit
  \/ /\ part = "split" /\ Split!Init
     /\ NoCatalogue /\ NoBrowse /\ NoImages /\ NoServers /\ NoPanel /\ NoTunnel /\ NoProxy

LibraryNext ==
  \/ /\ part = "catalogue" /\ Next
     /\ UNCHANGED <<part, browseVars, imagesVars, serversVars, panelVars, tunnelVars, proxyVars, splitVars>>
  \/ /\ part = "alone" /\ Alone!Next
     /\ UNCHANGED <<part, vars, imagesVars, serversVars, panelVars, tunnelVars, proxyVars, splitVars>>
  \/ /\ part = "locked" /\ Locked!Next
     /\ UNCHANGED <<part, vars, imagesVars, serversVars, panelVars, tunnelVars, proxyVars, splitVars>>
  \/ /\ part = "browse" /\ Browse!Next
     /\ UNCHANGED <<part, vars, imagesVars, serversVars, panelVars, tunnelVars, proxyVars, splitVars>>
  \/ /\ part = "images" /\ Images!Next
     /\ UNCHANGED <<part, vars, browseVars, serversVars, panelVars, tunnelVars, proxyVars, splitVars>>
  \/ /\ part = "servers" /\ Servers!Next
     /\ UNCHANGED <<part, vars, browseVars, imagesVars, panelVars, tunnelVars, proxyVars, splitVars>>
  \/ /\ part = "panel" /\ Panel!Next
     /\ UNCHANGED <<part, vars, browseVars, imagesVars, serversVars, tunnelVars, proxyVars, splitVars>>
  \/ /\ part = "calm" /\ Calm!Next
     /\ UNCHANGED <<part, vars, browseVars, imagesVars, serversVars, panelVars, proxyVars, splitVars>>
  \/ /\ part = "hasty" /\ Hasty!Next
     /\ UNCHANGED <<part, vars, browseVars, imagesVars, serversVars, panelVars, proxyVars, splitVars>>
  \/ /\ part = "proxy" /\ Proxy!Next
     /\ UNCHANGED <<part, vars, browseVars, imagesVars, serversVars, panelVars, tunnelVars, splitVars>>
  \/ /\ part = "split" /\ Split!Next
     /\ UNCHANGED <<part, vars, browseVars, imagesVars, serversVars, panelVars, tunnelVars, proxyVars>>

LibraryVars ==
  <<part, vars, browseVars, imagesVars, serversVars, panelVars, tunnelVars, proxyVars, splitVars>>
LibrarySpec == LibraryInit /\ [][LibraryNext]_LibraryVars

\* TypeOK of each of them.
TypesOK ==
  /\ part = "catalogue" => TypeOK
  /\ part = "alone" => Alone!TypeOK
  /\ part = "browse" => Browse!TypeOK
  /\ part = "images" => Images!TypeOK
  /\ part = "servers" => Servers!TypeOK
  /\ part = "panel" => Panel!TypeOK
  /\ part = "calm" => Calm!TypeOK
  /\ part = "hasty" => Hasty!TypeOK
  /\ part = "proxy" => Proxy!TypeOK
  /\ part = "split" => Split!TypeOK

\* The catalogue of one profile is current, too; the index is of the view and the
\* episodes of the page: IndexIsView and EpisodesListed of Browse.  No slot of the
\* pictures is lost, and those that arrived are shown: SlotsAreUsed and ArrivedAreShown
\* of Images.  The catalogue of an earlier version is split without loss: RowsArrive,
\* SumsAreTrue and RemovedStay of LegacyCatalog.
LibraryIsCurrent ==
  /\ part = "alone" => Alone!CatalogueIsCurrent
  /\ part = "browse" => Browse!IndexIsView /\ Browse!EpisodesListed
  /\ part = "images" => Images!SlotsAreUsed /\ Images!ArrivedAreShown
  /\ part = "split" => Split!RowsArrive /\ Split!SumsAreTrue /\ Split!RemovedStay

\* A subscription with several servers uses them all, and a load of its panel gives
\* what is there: GivesUpLast, RanksAll and FailoverReaches of Servers,
\* ReloadIsFresh, HadIsKept and EveryCategory of PanelLoad.
PanelsServe ==
  /\ part = "servers" => Servers!GivesUpLast /\ Servers!RanksAll /\ Servers!FailoverReaches
  /\ part = "panel" => Panel!ReloadIsFresh /\ Panel!HadIsKept /\ Panel!EveryCategory

\* Nothing goes around the tunnel while it is enabled, and at rest the tunnel is
\* as it is set: FailClosed and SettingHolds of Tunnel; whoever is served is served
\* through the tunnel, of addresses that are not too old, as the profile and the request
\* say: OnlyThroughTunnel, NamesAreFresh, ProfileIsWhole, OneAnswerPerRequest of WgProxy.
TunnelHolds ==
  /\ part = "calm" => Calm!FailClosed /\ Calm!SettingHolds
  /\ part = "hasty" => Hasty!FailClosed
  /\ part = "proxy" => /\ Proxy!OnlyThroughTunnel /\ Proxy!NamesAreFresh
                       /\ Proxy!ProfileIsWhole /\ Proxy!OneAnswerPerRequest
=============================================================================
