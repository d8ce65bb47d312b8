------------------------------ MODULE LegacyCatalog ------------------------------
(***************************************************************************)
(* The catalogue of earlier versions, one file for all the profiles, is    *)
(* split into one file per profile, and profiles left without channels are *)
(* filled again from it (src/crates/fluxplay/src/catalog_db.rs).           *)
(*                                                                         *)
(* Every opening of the catalogue does both, statement by statement, on    *)
(* whatever thread opens it; the process may die between two statements.   *)
(* A portal's dump is applied as a whole (module Catalogue has its         *)
(* steps).  The images and the guide that are copied too are left out.     *)
(***************************************************************************)
EXTENDS Integers, Sequences, FiniteSets

CONSTANTS
  Ids,        \* profiles
  Rows,       \* rows of the catalogue, pairs <<table, name>>
  Dumps,      \* what a portal may answer, sets of rows
  Legacy,     \* the old file, [rows, sums : a function of Ids each, old : no meta_ok column]
  Openers,    \* threads that may open the catalogue
  MaxCrashes, \* bound
  Faults      \* subset of {"overlap", "rename", "locked", "no live"}: two threads open it at once;
              \* the old file cannot be renamed; its columns cannot be added; a portal
              \* has no live channel any more

VARIABLES
  live,    \* catalog.sqlite3, NoFile when it is not there
  bak,     \* catalog.sqlite3.migrated.bak
  profile, \* the file of each profile
  opener,  \* where each thread is: [pc, phase, todo, id, at, src]
  sources, \* profiles that are set up
  applied, \* last dump that was applied to each profile, None before (history)
  removed, \* profiles the user removed (history)
  opened,  \* the catalogue was opened (history)
  crashes

vars == <<live, bak, profile, opener, sources, applied, removed, opened, crashes>>

None == {<<"none", 0>>}
NoFile == [rows |-> <<>>, sums |-> <<>>, old |-> FALSE]
EmptyFile == [rows |-> [i \in Ids |-> {}], sums |-> [i \in Ids |-> None], old |-> FALSE]
Channels(rows) == {r \in rows : r[1] = "channels"}
\* The profiles an old file has a row of, in these tables.
Named(file, tables) == {i \in Ids : file # NoFile /\ \E r \in file.rows[i] : r[1] \in tables}
Tables == {"categories", "channels", "vod", "series"}
Idle == [pc |-> "idle", phase |-> "none", todo |-> {}, id |-> "none", at |-> 0, src |-> NoFile]

-----------------------------------------------------------------------------
\* migrate_schema: the columns of later versions come before the indexes on them.
Upgraded(file) == [file EXCEPT !.old = FALSE]

\* What copy_source_rows copies, in this order: the sums after the rows they are of.
CopiesSumsFirst == <<"meta", "categories", "channels", "vod", "series">>
Copies == <<"categories", "channels", "vod", "series", "meta">>

\* One INSERT OR IGNORE ... SELECT; one that fails is only logged.
CopiedOf(dst, src, i, table) ==
  CASE src = NoFile -> dst
    [] table = "meta" -> [dst EXCEPT !.sums = [j \in Ids |-> IF dst.sums[j] = None THEN src.sums[j] ELSE dst.sums[j]]]
    [] table \in {"vod", "series"} /\ src.old -> dst
    [] OTHER -> [dst EXCEPT !.rows[i] = @ \cup {r \in src.rows[i] : r[1] = table}]

-----------------------------------------------------------------------------
Init ==
  /\ live = Legacy /\ bak = NoFile
  /\ profile = [i \in Ids |-> NoFile]
  /\ opener = [o \in Openers |-> Idle]
  /\ sources \in SUBSET Ids
  /\ applied = [i \in Ids |-> None] /\ removed = {} /\ opened = FALSE /\ crashes = 0

historyVars == <<sources, applied, removed, opened, crashes>>
Goes(o, to) == opener' = [opener EXCEPT ![o] = to]
Busy == {o \in Openers : opener[o].pc # "idle"}

\* CatalogDb::open, migrate_legacy_catalog to its loop
Open(o) ==
  /\ opener[o].pc = "idle"
  /\ "overlap" \in Faults \/ Busy = {}
  /\ \/ /\ live # NoFile
        /\ \/ live' = Upgraded(live)
           \/ "locked" \in Faults /\ UNCHANGED live
        /\ Goes(o, [Idle EXCEPT !.pc = "next", !.phase = "migrate", !.todo = sources \cup Named(live, Tables)])
     \/ /\ live = NoFile
        /\ Goes(o, [Idle EXCEPT !.pc = "repair"])
        /\ UNCHANGED live
  /\ UNCHANGED <<bak, profile, historyVars>>

\* One profile: a file that is there is left as it is.
Split(i) == profile[i] = NoFile
Create(o) ==
  /\ opener[o].pc = "next" /\ opener[o].phase = "migrate"
  /\ \E i \in opener[o].todo :
       LET rest == opener[o].todo \ {i} IN
       \/ ~Split(i) /\ Goes(o, [opener[o] EXCEPT !.todo = rest]) /\ UNCHANGED profile
       \/ /\ Split(i)
          /\ profile' = [profile EXCEPT ![i] = EmptyFile]
          /\ Goes(o, [opener[o] EXCEPT !.pc = "attach", !.todo = rest, !.id = i])
  /\ UNCHANGED <<live, bak, historyVars>>

\* legacy_catalog_source
Source == IF live # NoFile THEN live ELSE bak

\* ATTACH opens the file, and makes an empty one when it has gone.
Attach(o) ==
  /\ opener[o].pc = "attach"
  /\ LET made == opener[o].phase = "migrate" /\ live = NoFile IN
     /\ live' = IF made THEN EmptyFile ELSE live
     /\ Goes(o, [opener[o] EXCEPT !.pc = "copy", !.at = 1,
                                  !.src = IF opener[o].phase = "migrate"
                                          THEN IF made THEN NoFile ELSE live ELSE Source])
  /\ UNCHANGED <<bak, profile, historyVars>>

Copy(o) ==
  /\ opener[o].pc = "copy"
  /\ LET me == opener[o] IN
     /\ profile[me.id] # NoFile
     /\ profile' = [profile EXCEPT ![me.id] = CopiedOf(@, me.src, me.id, Copies[me.at])]
     /\ Goes(o, IF me.at < Len(Copies) THEN [me EXCEPT !.at = @ + 1]
                ELSE [Idle EXCEPT !.pc = "next", !.phase = me.phase, !.todo = me.todo])
  /\ UNCHANGED <<live, bak, historyVars>>

\* The old file is put away under another name.
Archive(o) ==
  /\ opener[o].pc = "next" /\ opener[o].phase = "migrate" /\ opener[o].todo = {}
  /\ \/ live # NoFile /\ bak' = live /\ live' = NoFile
     \/ (live = NoFile \/ "rename" \in Faults) /\ UNCHANGED <<live, bak>>
  /\ Goes(o, [Idle EXCEPT !.pc = "repair"])
  /\ UNCHANGED <<profile, historyVars>>

\* repair_incomplete_profiles
Repair(o) ==
  /\ opener[o].pc = "repair"
  /\ Goes(o, [Idle EXCEPT !.pc = "next", !.phase = "repair",
                          !.todo = IF Source = NoFile THEN {} ELSE sources \cup Named(Source, {"channels"})])
  /\ UNCHANGED <<live, bak, profile, historyVars>>

\* Only a profile without a channel that had some.
LacksAny(i) == profile[i] # NoFile /\ Channels(Source.rows[i]) # {}
Lacks(i) == profile[i] # NoFile /\ Channels(profile[i].rows[i]) = {} /\ Channels(Source.rows[i]) # {}
RepairOne(o) ==
  /\ opener[o].pc = "next" /\ opener[o].phase = "repair"
  /\ \E i \in opener[o].todo :
       LET rest == opener[o].todo \ {i} IN
       \/ ~Lacks(i) /\ Goes(o, [opener[o] EXCEPT !.todo = rest])
       \/ Lacks(i) /\ Goes(o, [opener[o] EXCEPT !.pc = "attach", !.todo = rest, !.id = i])
  /\ UNCHANGED <<live, bak, profile, historyVars>>

\* ensure_source, for every profile that is set up
Ensure(o) ==
  /\ opener[o].pc = "next" /\ opener[o].phase = "repair" /\ opener[o].todo = {}
  /\ profile' = [i \in Ids |-> IF i \in sources /\ profile[i] = NoFile THEN EmptyFile ELSE profile[i]]
  /\ opened' = TRUE
  /\ Goes(o, [Idle EXCEPT !.pc = "open"])
  /\ UNCHANGED <<live, bak, sources, applied, removed, crashes>>

\* ingest_one_blocking: a dump whose sum is the profile's changes nothing.
Apply(o, i, d) ==
  /\ opener[o].pc = "open" /\ i \in sources
  /\ "no live" \notin Faults => Channels(d) # {}
  /\ profile' = IF profile[i].sums[i] = d THEN profile
                ELSE [profile EXCEPT ![i].rows[i] = d, ![i].sums[i] = d]
  /\ applied' = [applied EXCEPT ![i] = d]
  /\ Goes(o, Idle)
  /\ UNCHANGED <<live, bak, sources, removed, opened, crashes>>

\* load_bundle_blocking, counts: the catalogue is only read.
Read(o) ==
  /\ opener[o].pc = "open"
  /\ Goes(o, Idle)
  /\ UNCHANGED <<live, bak, profile, historyVars>>

\* delete_source
Remove(i) ==
  /\ i \in sources /\ Busy = {} /\ opened
  /\ sources' = sources \ {i} /\ removed' = removed \cup {i}
  /\ profile' = [profile EXCEPT ![i] = NoFile]
  /\ applied' = [applied EXCEPT ![i] = None]
  /\ UNCHANGED <<live, bak, opener, opened, crashes>>

\* The process dies; each statement was one transaction.
Crash ==
  /\ crashes < MaxCrashes /\ Busy # {}
  /\ crashes' = crashes + 1 /\ opener' = [o \in Openers |-> Idle]
  /\ UNCHANGED <<live, bak, profile, sources, applied, removed, opened>>

Next ==
  \/ \E o \in Openers :
       \/ Open(o) \/ Create(o) \/ Attach(o) \/ Copy(o) \/ Archive(o)
       \/ Repair(o) \/ RepairOne(o) \/ Ensure(o) \/ Read(o)
       \/ \E i \in Ids, d \in Dumps : Apply(o, i, d)
  \/ \E i \in Ids : Remove(i)
  \/ Crash

Spec == Init /\ [][Next]_vars

-----------------------------------------------------------------------------
Files == [rows : [Ids -> SUBSET Rows], sums : [Ids -> Dumps \cup {None}], old : BOOLEAN] \cup {NoFile}
TypeOK ==
  /\ live \in Files /\ bak \in Files /\ profile \in [Ids -> Files]
  /\ sources \subseteq Ids /\ removed \subseteq Ids /\ crashes \in 0..MaxCrashes
  /\ \A o \in Openers : opener[o].pc \in {"idle", "next", "attach", "copy", "repair", "open"}

\* Nothing is lost by the split: an opened profile that no dump was applied to has the rows
\* of the old file; its channels at least when the process died in the midst of it.
RowsArrive ==
  opened /\ Busy = {} =>
    \A i \in sources : applied[i] = None =>
      LET kept == IF crashes = 0 THEN Legacy.rows[i] ELSE Channels(Legacy.rows[i]) IN
      profile[i] # NoFile /\ kept \subseteq profile[i].rows[i]

\* A sum tells what the rows are, whatever was copied and when the process died: on its
\* word a dump is not applied.  A dump that was applied stays as it was.
SumsAreTrue ==
  \A i \in Ids : profile[i] # NoFile =>
    /\ profile[i].sums[i] # None => profile[i].rows[i] = profile[i].sums[i]
    /\ applied[i] # None => profile[i].rows[i] = applied[i]

\* A profile the user removed is not made again from the old file.
RemovedStay == \A i \in removed : profile[i] = NoFile
=============================================================================
