------------------------------- MODULE Catalogue -------------------------------
(***************************************************************************)
(* The catalogue of titles (src/crates/fluxplay/src/catalog_db.rs and its  *)
(* handlers in app.rs): one SQLite file per profile, filled from the dumps *)
(* of its portal, read back into the bundle in memory that the views use,  *)
(* and enriched from the bundle by what other services know of a title.    *)
(*                                                                         *)
(* A profile has one title here.  A row of it is the portal's version `v`  *)
(* of its own fields (0: no row), whether it holds metadata, whether it    *)
(* holds episodes, and the column meta_ok.  A handler of the user          *)
(* interface is one step; fetches, ingests, loads and enrichments are jobs *)
(* on other threads, whose results come back in any order.                 *)
(*                                                                         *)
(* `Faults` lists what else may happen: loads, or ingests, or enrichments  *)
(* and the like, or two fetches of a profile that overlap, a database      *)
(* found locked, the process killed.                                       *)
(***************************************************************************)
EXTENDS Naturals, FiniteSets

CONSTANTS
  Profiles,   \* identifiers of profiles
  Slots,      \* jobs at a time (bound)
  MaxVersion, \* versions of a portal's catalogue (bound)
  MaxOps,     \* requests of the user and kills (bound)
  Faults      \* what may happen: see FaultKinds

FaultKinds == {"loads", "ingests", "enrich", "fetches", "locked", "kill"}

ASSUME ConstantsAssumption ==
  MaxVersion \in Nat \ {0} /\ MaxOps \in Nat /\ Faults \subseteq FaultKinds

VARIABLES
  sources, \* profiles the user has
  known,   \* identifiers given so far: one never comes back
  db,      \* the SQLite file of each profile
  handle,  \* profiles open in catalog_db, the connections of the user interface
  bundle,  \* rows in memory
  jobs,    \* background tasks, their result included until it is handled
  portal,  \* version each portal serves
  ops      \* requests made so far

vars == <<sources, known, db, handle, bundle, jobs, portal, ops>>

Versions == 0 .. MaxVersion
NoRow == [v |-> 0, meta |-> FALSE, seasons |-> FALSE, ok |-> FALSE]
NoRows == [p \in Profiles |-> NoRow]
NoFile == [exists |-> FALSE, row |-> NoRow, sum |-> 0, synced |-> FALSE]
EmptyFile == [NoFile EXCEPT !.exists = TRUE]

\* A job: the profiles left to do, the dumps fetched, the rows read or kept,
\* the profile at hand, and the profiles deleted since it opened their files.
Idle == [kind |-> "idle", at |-> "new", ps |-> {}, one |-> FALSE,
         dumps |-> [p \in Profiles |-> 0], rows |-> NoRows, lost |-> {}]
Job(kind, ps) == [Idle EXCEPT !.kind = kind, !.ps = ps]

Running(kinds) == {j \in Slots : jobs[j].kind \in kinds}
Apart(fault, kinds) == fault \in Faults \/ Running(kinds) = {}

Free == {j \in Slots : jobs[j].kind = "idle"}
Count(f, S) == Cardinality({p \in S : f[p].v # 0})

-----------------------------------------------------------------------------
(* catalog_db.rs *)

\* CatalogDb::open: a file for each profile asked for, and whatever is on disk.
Opened(files, ps) ==
  [p \in Profiles |-> IF p \in ps /\ ~files[p].exists THEN EmptyFile ELSE files[p]]
OnDisk(files) == {p \in Profiles : files[p].exists}

\* is_sync_fresh; whether the marks are young enough is the clock's choice.
SyncFresh(files, open) ==
  /\ open # {}
  /\ \E p \in open : files[p].row.v # 0
  /\ \A p \in open : files[p].synced

\* persist_vod, persist_series: the whole item over an existing row.
Persisted(files, p, item) ==
  IF p \in handle /\ files[p].row.v # 0
  THEN [files EXCEPT ![p].row = [item EXCEPT !.ok = TRUE]]
  ELSE files

\* Without what the row had.
MergedPlain(v, old) == [v |-> v, meta |-> FALSE, seasons |-> old.seasons, ok |-> FALSE]

\* merge_series_keep_meta: the dump's own fields, what the old row adds.
Merged(v, old) == [v |-> v, meta |-> old.meta, seasons |-> old.seasons, ok |-> old.meta]

\* load_enriched_vod_map, load_enriched_series_map
Enriched(row) == IF row.ok THEN row ELSE NoRow

\* load_bundle_from_conn: the episodes stay behind.
Loaded(row) == [row EXCEPT !.seasons = FALSE]

-----------------------------------------------------------------------------
Init ==
  /\ sources \in (SUBSET Profiles) \ {{}} /\ known = sources
  /\ db = Opened([p \in Profiles |-> NoFile], sources)
  /\ handle = sources
  /\ bundle = NoRows
  /\ jobs = [j \in Slots |-> Idle]
  /\ portal = [p \in Profiles |-> 1]
  /\ ops = 0

\* Every profile on disk is loaded.
LoadAll(js, j, srcs) == [js EXCEPT ![j] = Job("load", srcs \cup OnDisk(db))]

\* rebuild_bundle_from_cache_task, in slot j.
LoadIn(js, j, srcs) == [js EXCEPT ![j] = Job("load", srcs)]

PortalChanges(p) ==
  /\ portal[p] < MaxVersion
  /\ portal' = [portal EXCEPT ![p] = @ + 1]
  /\ UNCHANGED <<sources, known, db, handle, bundle, jobs, ops>>

-----------------------------------------------------------------------------
(* Fetch *)

FetchJob(ps, one) == [Job("fetch", ps) EXCEPT !.one = one]

\* load_one: a dump of the portal, or an error (0).
Answered == [NoRow EXCEPT !.v = 1]
Got(job, p, v) == [job EXCEPT !.ps = @ \ {p}, !.dumps[p] = v, !.rows[p] = Answered]
Fetches(j, p) ==
  /\ jobs[j].kind = "fetch" /\ p \in jobs[j].ps
  /\ \E v \in {0, portal[p]} : jobs' = [jobs EXCEPT ![j] = Got(@, p, v)]
  /\ UNCHANGED <<sources, known, db, handle, bundle, portal, ops>>

Fetched(j) == {p \in Profiles : jobs[j].rows[p].v # 0}
Fetching(p) == \E j \in Slots : jobs[j].kind = "fetch" /\ p \in jobs[j].ps \cup Fetched(j)
FetchEnded(j) == jobs[j].kind = "fetch" /\ jobs[j].ps = {}

\* SourceLoaded and SourcesBatchLoaded: an ingest of what came; one profile
\* asked for alone and not got ends there.
IngestStarts(j) ==
  /\ FetchEnded(j)
  /\ Apart("ingests", {"ingest"}) /\ Apart("enrich", {"episodes"})
  /\ LET got == {p \in Fetched(j) : jobs[j].dumps[p] # 0}
     IN jobs' = [jobs EXCEPT ![j] =
          IF jobs[j].one /\ got = {} THEN Idle
          ELSE [Job("ingest", got) EXCEPT !.one = jobs[j].one,
                  !.dumps = jobs[j].dumps]]
  /\ UNCHANGED <<sources, known, db, handle, bundle, portal, ops>>

-----------------------------------------------------------------------------
(* Ingest: apply_source_bundle_progressive for each profile in turn *)

Step(j, at) == jobs[j].kind = "ingest" /\ jobs[j].at = at
Pick(S) == CHOOSE p \in S : TRUE
At(j) == Pick(jobs[j].ps)
Writes(j, p, file) == IF p \in jobs[j].lost THEN db ELSE [db EXCEPT ![p] = file]

IngestOpens(j) ==
  /\ Step(j, "new")
  /\ db' = Opened(db, jobs[j].ps)
  /\ jobs' = [jobs EXCEPT ![j].at = "sum"]
  /\ UNCHANGED <<sources, known, handle, bundle, portal, ops>>

SumMatches(j, p) == db[p].sum = jobs[j].dumps[p]

\* The dump is compared with the checksum of the last one.
IngestCompares(j) ==
  /\ Step(j, "sum") /\ jobs[j].ps # {}
  /\ LET p == At(j)
     IN jobs' = [jobs EXCEPT ![j].at = IF SumMatches(j, p) THEN "mark" ELSE "read"]
  /\ UNCHANGED <<sources, known, db, handle, bundle, portal, ops>>

\* The checksum is written before the transaction.
SumFirst(j) ==
  /\ Step(j, "read")
  /\ LET p == At(j)
     IN /\ jobs' = [jobs EXCEPT ![j].rows[p] = Enriched(db[p].row), ![j].at = "commit"]
        /\ db' = Writes(j, p, [db[p] EXCEPT !.sum = jobs[j].dumps[p]])
  /\ UNCHANGED <<sources, known, handle, bundle, portal, ops>>

IngestReads(j) ==
  /\ Step(j, "read")
  /\ LET p == At(j)
     IN jobs' = [jobs EXCEPT ![j].rows[p] = Enriched(db[p].row), ![j].at = "commit"]
  /\ UNCHANGED <<sources, known, db, handle, bundle, portal, ops>>

\* One transaction: upserts, then the rows the dump lacks are deleted.
IngestCommits(j) ==
  /\ Step(j, "commit")
  /\ LET p == At(j)
     IN db' = Writes(j, p, [db[p] EXCEPT !.row = Merged(jobs[j].dumps[p], jobs[j].rows[p])])
  /\ jobs' = [jobs EXCEPT ![j].at = "write"]
  /\ UNCHANGED <<sources, known, handle, bundle, portal, ops>>

IngestWritesSum(j) ==
  /\ Step(j, "write")
  /\ LET p == At(j) IN db' = Writes(j, p, [db[p] EXCEPT !.sum = jobs[j].dumps[p]])
  /\ jobs' = [jobs EXCEPT ![j].at = "mark"]
  /\ UNCHANGED <<sources, known, handle, bundle, portal, ops>>

\* On to the next profile.
Past(job, p) == [job EXCEPT !.ps = @ \ {p}, !.at = "sum"]

\* mark_full_sync_now
IngestMarks(j) ==
  /\ Step(j, "mark")
  /\ LET p == At(j)
     IN /\ db' = Writes(j, p, [db[p] EXCEPT !.synced = TRUE])
        /\ jobs' = [jobs EXCEPT ![j] = Past(@, p)]
  /\ UNCHANGED <<sources, known, handle, bundle, portal, ops>>

\* The database stays locked, or the disk is full: nothing is committed.  One
\* profile asked for alone ends there.
IngestFails(j) ==
  /\ "locked" \in Faults
  /\ \/ Step(j, "read")
     \/ Step(j, "commit")
  /\ jobs' = [jobs EXCEPT ![j] = IF @.one THEN Idle ELSE Past(@, At(j))]
  /\ UNCHANGED <<sources, known, db, handle, bundle, portal, ops>>

\* CatalogIngestDone, CatalogIngestOneDone
IngestDone(j) ==
  /\ Step(j, "sum") /\ jobs[j].ps = {}
  /\ Apart("loads", {"load"})
  /\ jobs' = LoadIn(jobs, j, sources)
  /\ UNCHANGED <<sources, known, db, handle, bundle, portal, ops>>

-----------------------------------------------------------------------------
(* Load *)

LoadOpens(j) ==
  /\ jobs[j].kind = "load" /\ jobs[j].at = "new"
  /\ db' = Opened(db, jobs[j].ps)
  /\ jobs' = [jobs EXCEPT ![j].at = "rows"]
  /\ UNCHANGED <<sources, known, handle, bundle, portal, ops>>

Reads(job, p) == [job EXCEPT !.ps = @ \ {p}, !.rows[p] = Loaded(db[p].row)]

LoadReads(j, p) ==
  /\ jobs[j].kind = "load" /\ jobs[j].at = "rows" /\ p \in jobs[j].ps
  /\ jobs' = [jobs EXCEPT ![j] = Reads(@, p)]
  /\ UNCHANGED <<sources, known, db, handle, bundle, portal, ops>>

Unenriched(rows) == {p \in Profiles : rows[p].v # 0 /\ ~rows[p].meta}

\* BundleCacheReady(Ok): the bundle is replaced; a catalogue in sync is enriched.
BundleCacheReady(j) ==
  /\ jobs[j].kind = "load" /\ jobs[j].at = "rows" /\ jobs[j].ps = {}
  /\ bundle' = jobs[j].rows
  /\ jobs' \in {[jobs EXCEPT ![j] = Idle]} \cup
       {[jobs EXCEPT ![j] = Job("enrich", ps)] :
          ps \in {q \in {Unenriched(bundle')} : q # {} /\ SyncFresh(db, handle)}}
  /\ UNCHANGED <<sources, known, db, handle, portal, ops>>

\* BundleCacheReady(Err): the catalogue shown is kept.
LoadFails(j) ==
  /\ "locked" \in Faults
  /\ jobs[j].kind = "load"
  /\ jobs' = [jobs EXCEPT ![j] = Idle]
  /\ UNCHANGED <<sources, known, db, handle, bundle, portal, ops>>

-----------------------------------------------------------------------------
(* Enrichment *)

\* Of one title: the row of the bundle with the patch, saved as a whole.
Patched(p) == [bundle[p] EXCEPT !.meta = TRUE]

\* MetaEnriched: the answers for some of the titles.
MetaEnriched(j) ==
  /\ jobs[j].kind = "enrich"
  /\ Apart("enrich", {"ingest", "load", "episodes"})
  /\ \E hit \in SUBSET jobs[j].ps :
       LET shown == {p \in hit : bundle[p].v # 0}
       IN /\ bundle' = [p \in Profiles |-> IF p \in shown THEN Patched(p) ELSE bundle[p]]
          /\ db' = [p \in Profiles |->
                      IF p \in shown THEN Persisted(db, p, Patched(p))[p] ELSE db[p]]
  /\ jobs' = [jobs EXCEPT ![j] = Idle]
  /\ UNCHANGED <<sources, known, handle, portal, ops>>

\* SeriesDetailLoaded: the episodes of the page the user opened; they are
\* completed elsewhere from a copy of the page.
SeriesDetailLoaded(j) ==
  /\ jobs[j].kind = "episodes" /\ jobs[j].at = "new"
  /\ Apart("enrich", {"load"})
  /\ LET p == At(j)
     IN IF bundle[p].v = 0
        THEN /\ jobs' = [jobs EXCEPT ![j] = Idle]
             /\ UNCHANGED bundle
        ELSE /\ bundle' = [bundle EXCEPT ![p].seasons = TRUE]
             /\ jobs' = [jobs EXCEPT ![j].at = "copied", ![j].rows[p] = bundle'[p]]
  /\ UNCHANGED <<sources, known, db, handle, portal, ops>>

\* SeriesEpisodesEnriched: the copy is saved.
SeriesEpisodesEnriched(j) ==
  /\ jobs[j].kind = "episodes" /\ jobs[j].at = "copied"
  /\ Apart("enrich", {"ingest", "load"})
  /\ LET p == At(j)
     IN /\ bundle' = IF bundle[p].v = 0 THEN bundle ELSE [bundle EXCEPT ![p].seasons = TRUE]
        /\ db' = Persisted(db, p, jobs[j].rows[p])
  /\ jobs' = [jobs EXCEPT ![j] = Idle]
  /\ UNCHANGED <<sources, known, handle, portal, ops>>

-----------------------------------------------------------------------------
(* The user *)

Asks == ops < MaxOps /\ ops' = ops + 1

\* AddSource: the file is made, every profile opened again, the portal fetched.
AddSource(p) ==
  /\ Asks /\ p \notin known
  /\ sources' = sources \cup {p} /\ known' = known \cup {p}
  /\ db' = Opened(db, sources')
  /\ handle' = OnDisk(db')
  /\ \E j \in Free : jobs' = [jobs EXCEPT ![j] = FetchJob({p}, TRUE)]
  /\ UNCHANGED <<bundle, portal>>

\* ReloadSource, and the edit of a profile that changes its server.
ReloadSource(p) ==
  /\ Asks /\ p \in sources
  /\ "fetches" \in Faults \/ ~Fetching(p)
  /\ \E j \in Free : jobs' = [jobs EXCEPT ![j] = FetchJob({p}, TRUE)]
  /\ UNCHANGED <<sources, known, db, handle, bundle, portal>>

\* delete_source: a job that has the file open keeps reading the deleted file
\* and writes to nothing.
Orphaned(job, p) ==
  IF job.kind = "load" /\ job.at = "rows" /\ p \in job.ps THEN Reads(job, p)
  ELSE IF job.kind = "ingest" /\ job.at # "new" THEN [job EXCEPT !.lost = @ \cup {p}]
  ELSE job

\* The connection of the removed profile stays open.
RemoveKeepsOpen(p) ==
  /\ Asks /\ p \in sources
  /\ Apart("loads", {"load"})
  /\ sources' = sources \ {p}
  /\ db' = [db EXCEPT ![p] = NoFile]
  /\ \E j \in Free :
       jobs' = LoadIn([i \in Slots |-> Orphaned(jobs[i], p)], j, sources')
  /\ UNCHANGED <<known, handle, bundle, portal>>

\* RemoveSource
RemoveSource(p) ==
  /\ Asks /\ p \in sources
  /\ Apart("loads", {"load"})
  /\ sources' = sources \ {p}
  /\ handle' = handle \ {p}
  /\ db' = [db EXCEPT ![p] = NoFile]
  /\ \E j \in Free :
       jobs' = LoadIn([i \in Slots |-> Orphaned(jobs[i], p)], j, sources')
  /\ UNCHANGED <<known, bundle, portal>>

\* ProfileImportDone: the archive's catalogue (or none) under a new
\* identifier, taken for synchronised.
ImportProfile(p) ==
  /\ Asks /\ p \notin known
  /\ Apart("loads", {"load"})
  /\ sources' = sources \cup {p} /\ known' = known \cup {p}
  /\ handle' = handle \cup {p}
  /\ \E v \in 0 .. portal[p], kept \in BOOLEAN :
       db' = [db EXCEPT ![p] =
         [exists |-> TRUE, sum |-> v, synced |-> TRUE,
          row |-> IF v = 0 THEN NoRow ELSE [v |-> v, meta |-> kept, seasons |-> kept, ok |-> kept]]]
  /\ \E j \in Free : jobs' = LoadIn(jobs, j, sources')
  /\ UNCHANGED <<bundle, portal>>

\* OpenSeries
OpenSeries(p) ==
  /\ Asks /\ bundle[p].v # 0 /\ p \in sources
  /\ Apart("enrich", {"enrich", "ingest"})
  /\ \E j \in Free : jobs' = [jobs EXCEPT ![j] = Job("episodes", {p})]
  /\ UNCHANGED <<sources, known, db, handle, bundle, portal>>

\* The process is killed; FluxPlay::new opens what is on disk, loads it, and
\* fetches every profile unless all were synchronised lately.
Restart ==
  /\ "kill" \in Faults /\ Asks /\ sources # {}
  /\ db' = Opened(db, sources)
  /\ handle' = OnDisk(db')
  /\ bundle' = NoRows
  /\ \E a, b \in Slots :
       /\ a # b
       /\ LET boot == LoadIn([j \in Slots |-> Idle], a, sources)
          IN jobs' \in {[boot EXCEPT ![b] = FetchJob(sources, FALSE)]} \cup
                       {js \in {boot} : SyncFresh(db', handle')}
  /\ UNCHANGED <<sources, known, portal>>

Next ==
  \/ \E j \in Slots :
       \/ \E p \in Profiles : Fetches(j, p) \/ LoadReads(j, p)
       \/ IngestStarts(j) \/ IngestOpens(j) \/ IngestCompares(j) \/ IngestReads(j)
       \/ IngestCommits(j) \/ IngestWritesSum(j) \/ IngestMarks(j) \/ IngestFails(j) \/ IngestDone(j)
       \/ LoadOpens(j) \/ BundleCacheReady(j) \/ LoadFails(j)
       \/ MetaEnriched(j) \/ SeriesDetailLoaded(j) \/ SeriesEpisodesEnriched(j)
  \/ \E p \in Profiles :
       \/ AddSource(p) \/ ReloadSource(p) \/ RemoveSource(p) \/ ImportProfile(p)
       \/ OpenSeries(p) \/ PortalChanges(p)
  \/ Restart

Spec == Init /\ [][Next]_vars

-----------------------------------------------------------------------------
Rows == [v : Versions, meta : BOOLEAN, seasons : BOOLEAN, ok : BOOLEAN]
Files == [exists : BOOLEAN, row : Rows, sum : Versions, synced : BOOLEAN]
JobType ==
  [kind : {"idle", "fetch", "ingest", "load", "enrich", "episodes"},
   at : {"new", "sum", "read", "commit", "write", "mark", "rows", "copied"},
   ps : SUBSET Profiles, one : BOOLEAN, dumps : [Profiles -> Versions],
   rows : [Profiles -> Rows], lost : SUBSET Profiles]

\* The state has its type, and an item with episodes or metadata is a row.
TypeOK ==
  /\ sources \subseteq known /\ known \subseteq Profiles /\ handle \subseteq OnDisk(db)
  /\ db \in [Profiles -> Files] /\ \A p \in Profiles : db[p].exists \/ db[p] = NoFile
  /\ bundle \in [Profiles -> Rows] /\ \A p \in Profiles : bundle[p].v # 0 \/ bundle[p] = NoRow
  /\ jobs \in [Slots -> JobType]
  /\ portal \in [Profiles -> Versions] /\ ops \in 0 .. MaxOps

\* A profile is marked synchronised only with the rows of the dump at hand:
\* the ingest that skips the rewrite because the checksum matches
\* (catalog_db.rs:209) is right that nothing has changed, after ingests cut
\* short, restarts and enrichments that rewrote the rows.
SkippedIsCurrent ==
  \A j \in Slots : Step(j, "mark") /\ At(j) \notin jobs[j].lost =>
    db[At(j)].row.v = jobs[j].dumps[At(j)]

\* When no job is left, the bundle is what the files of the user's profiles
\* hold, episodes apart, and nothing of the profiles removed
\* (catalog_db.rs:628).
RestShowsDisk ==
  (\A j \in Slots : jobs[j].kind = "idle") =>
    \A p \in Profiles :
      IF p \in sources THEN bundle[p].v = db[p].row.v /\ bundle[p].meta = db[p].row.meta
      ELSE bundle[p] = NoRow

\* What is skipped as unchanged is so, and the views at rest show what the files hold
\* (catalog_db.rs:209, 628).
CatalogueIsCurrent == SkippedIsCurrent /\ RestShowsDisk

\* What an enrichment found is in the file until the profile is removed,
\* whatever the portal sends (catalog_db.rs:191).
KeepsEnrichment == \A p \in Profiles : db[p].row.meta /\ db'[p].exists => db'[p].row.meta
EnrichmentKept == [][KeepsEnrichment]_vars

\* "Episode trees stay in the row.  Opening a series reads that one payload."
\* (catalog_db.rs:692)
EpisodesStay ==
  [][\A p \in Profiles : db[p].row.seasons /\ db'[p].exists => db'[p].row.seasons]_vars

=============================================================================
