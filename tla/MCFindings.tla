------------------------------- MODULE MCFindings -------------------------------
(***************************************************************************)
(* The instances of PartFile, Servers and LegacyCatalog on which the code  *)
(* does otherwise than its comments say.  `Finding` names the one that is  *)
(* checked; the variables of the others stay at Unused.                    *)
(***************************************************************************)
EXTENDS Naturals

CONSTANT Finding

VARIABLES
  file, sidecar, server, run,
  conf, alive, cache, probe, load, catalog,
  live, bak, profile, opener, owned, applied, removed, opened, crashes

Unused == "unused"
partVars == <<file, sidecar, server, run>>
serversVars == <<conf, alive, cache, probe, load, catalog>>
splitVars == <<live, bak, profile, opener, owned, applied, removed, opened, crashes>>

\* A file of two bytes, fetched in segments by one window that may be killed.
Crash == INSTANCE PartFile WITH
  Windows <- {"w1"}, NNames <- 1, NServers <- 1, NVersions <- 1,
  SizeOf <- [v \in {1} |-> 2], SplitMin <- 1, Faults <- {"kill"}

\* Two windows, and a server that may ignore a range.
Race == INSTANCE PartFile WITH
  Windows <- {"w1", "w2"}, NNames <- 1, NServers <- 1, NVersions <- 1,
  SizeOf <- [v \in {1} |-> 2], SplitMin <- 9, Faults <- {"plain"}

\* Three servers, one of which sends its media from another host than its API.
Cdn == INSTANCE Servers WITH
  Hosts <- {"h1", "h2", "h3"},
  Profiles <- {<<"h1", "h2">>, <<"h2", "h3", "h1">>, <<"h3">>},
  Split <- {"h1"}, MaxEdits <- 1, MaxTurns <- 1, MaxLoads <- 2, Faults <- {}

\* An old file with a channel and a film; a portal that has no channel any more.
Old == {<<"channels", "a">>, <<"vod", "m">>}
NoLive == INSTANCE LegacyCatalog WITH
  sources <- owned,
  Ids <- {"p"}, Rows <- Old, Dumps <- {Old, {<<"vod", "m">>}},
  Legacy <- [rows |-> [i \in {"p"} |-> Old], sums |-> [i \in {"p"} |-> {<<"none", 0>>}], old |-> TRUE],
  Openers <- {"o"}, MaxCrashes <- 0, Faults <- {"no live"}

NoPart == file = Unused /\ sidecar = Unused /\ server = Unused /\ run = Unused
NoServers ==
  /\ conf = Unused /\ alive = Unused /\ cache = Unused
  /\ probe = Unused /\ load = Unused /\ catalog = Unused
NoSplit ==
  /\ live = Unused /\ bak = Unused /\ profile = Unused /\ opener = Unused /\ owned = Unused
  /\ applied = Unused /\ removed = Unused /\ opened = Unused /\ crashes = Unused

Init ==
  \/ Finding = "crash" /\ Crash!Init /\ NoServers /\ NoSplit
  \/ Finding = "race" /\ Race!Init /\ NoServers /\ NoSplit
  \/ Finding = "cdn" /\ Cdn!Init /\ NoPart /\ NoSplit
  \/ Finding = "no live" /\ NoLive!Init /\ NoPart /\ NoServers

Next ==
  \/ Finding = "crash" /\ Crash!Next /\ UNCHANGED <<serversVars, splitVars>>
  \/ Finding = "race" /\ Race!Next /\ UNCHANGED <<serversVars, splitVars>>
  \/ Finding = "cdn" /\ Cdn!Next /\ UNCHANGED <<partVars, splitVars>>
  \/ Finding = "no live" /\ NoLive!Next /\ UNCHANGED <<partVars, serversVars>>

Spec == Init /\ [][Next]_<<partVars, serversVars, splitVars>>

\* "renamed only when complete, so a half-written file never looks finished"
\* (downloads.rs:5-6): FinishedIsWhole of PartFile.
FinishedIsWhole == Finding = "crash" => Crash!FinishedIsWhole

\* The lock keeps "a second window from appending to the same file" (downloads.rs:458-459):
\* FinishedIsLeftAlone of PartFile.
FinishedIsLeftAlone == [][Finding = "race" => Race!LeavesFinished]_partVars

\* The prefixes of an account are "every base a catalog URL of this account may start
\* with" (servers.rs): PrefixesComplete of Servers.
PrefixesComplete == Finding = "cdn" => Cdn!PrefixesComplete

\* "Portal spine checksum matches DB - no rewrite." (catalog_db.rs:33): SumsAreTrue of
\* LegacyCatalog.
SumsAreTrue == Finding = "no live" => NoLive!SumsAreTrue
=============================================================================
