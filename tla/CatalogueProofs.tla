-------------------------- MODULE CatalogueProofs --------------------------
(***************************************************************************)
(* What the catalogue holds is kept, shown and current, for any number of  *)
(* profiles, of jobs at a time, of versions of a portal and of requests;   *)
(* each theorem says which of the model's faults it leaves out.            *)
(*                                                                         *)
(* The argument has three layers.  KeptInv follows the metadata: the rows  *)
(* in memory, those a load read, those the page of a series copied and     *)
(* those an ingest is about to write all know what the file knows, so that *)
(* none that is saved can lose any.  ViewInv follows the versions: unless  *)
(* a load or an ingest runs, or its result is still to come, the rows in   *)
(* memory are of the file's version, and a load that runs beside no ingest *)
(* has read it.  SumInv follows the checksum of the last dump: it is that  *)
(* of the rows, but between the two writes of an ingest or after a kill    *)
(* there; and then the dump of every fetch and ingest under way is newer   *)
(* than it.                                                                *)
(*                                                                         *)
(* The lemmas named after an action say what the action does to each       *)
(* variable, without the model's EXCEPTs.                                  *)
(***************************************************************************)
EXTENDS Catalogue, TLAPS

-----------------------------------------------------------------------------
\* The constants of the model, and what each operator of it returns.

LEMMA PickIn ==
  ASSUME NEW S, S # {}
  PROVE  Pick(S) \in S
BY DEF Pick

LEMMA NoRowType ==
  NoRow \in Rows /\ NoRow.v = 0 /\ ~NoRow.meta /\ ~NoRow.ok /\ ~NoRow.seasons
BY ConstantsAssumption DEF NoRow, Rows, Versions

LEMMA NoRowsType == NoRows \in [Profiles -> Rows] /\ \A p \in Profiles : NoRows[p] = NoRow
BY NoRowType DEF NoRows

LEMMA NoFileType ==
  NoFile \in Files /\ ~NoFile.exists /\ NoFile.row = NoRow /\ NoFile.sum = 0
BY NoRowType, ConstantsAssumption DEF NoFile, Files, Versions

LEMMA EmptyFileType ==
  EmptyFile \in Files /\ EmptyFile.exists /\ EmptyFile.row = NoRow /\ EmptyFile.sum = 0
BY NoFileType DEF EmptyFile, Files

NoDumps == [p \in Profiles |-> 0]

LEMMA IdleType ==
  /\ Idle \in JobType /\ Idle.kind = "idle" /\ Idle.at = "new" /\ Idle.ps = {}
  /\ ~Idle.one /\ Idle.dumps = NoDumps /\ Idle.rows = NoRows /\ Idle.lost = {}
BY NoRowsType, ConstantsAssumption DEF Idle, JobType, Versions, NoDumps

Kinds == {"idle", "fetch", "ingest", "load", "enrich", "episodes"}

LEMMA JobTypes ==
  ASSUME NEW kind \in Kinds, NEW ps \in SUBSET Profiles
  PROVE  /\ Job(kind, ps) \in JobType
         /\ Job(kind, ps).kind = kind /\ Job(kind, ps).at = "new" /\ Job(kind, ps).ps = ps
         /\ ~Job(kind, ps).one /\ Job(kind, ps).dumps = NoDumps
         /\ Job(kind, ps).rows = NoRows /\ Job(kind, ps).lost = {}
BY IdleType DEF Job, JobType, Kinds

LEMMA FetchJobType ==
  ASSUME NEW ps \in SUBSET Profiles, NEW job, job = FetchJob(ps, TRUE) \/ job = FetchJob(ps, FALSE)
  PROVE  /\ job \in JobType /\ job.kind = "fetch" /\ job.at = "new" /\ job.ps = ps
         /\ job.dumps = NoDumps /\ job.rows = NoRows /\ job.lost = {}
<1> DEFINE base == Job("fetch", ps)
<1>1. /\ base \in JobType /\ base.kind = "fetch" /\ base.at = "new" /\ base.ps = ps
      /\ base.lost = {} /\ base.dumps = NoDumps /\ base.rows = NoRows
  <2>1. "fetch" \in Kinds BY DEF Kinds
  <2> QED BY <2>1, JobTypes
<1>2. job = [base EXCEPT !.one = TRUE] \/ job = [base EXCEPT !.one = FALSE] BY DEF FetchJob
<1> HIDE DEF base
<1>3. CASE job = [base EXCEPT !.one = TRUE] BY <1>1, <1>3 DEF JobType
<1>4. CASE job = [base EXCEPT !.one = FALSE] BY <1>1, <1>4 DEF JobType
<1> QED BY <1>2, <1>3, <1>4

LEMMA OpenedType ==
  ASSUME NEW files \in [Profiles -> Files], NEW ps \in SUBSET Profiles
  PROVE  /\ Opened(files, ps) \in [Profiles -> Files]
         /\ \A p \in ps : Opened(files, ps)[p].exists
         /\ \A p \in Profiles : \/ Opened(files, ps)[p] = files[p]
                                \/ p \in ps /\ ~files[p].exists /\ Opened(files, ps)[p] = EmptyFile
BY EmptyFileType DEF Opened

LEMMA LoadedType ==
  ASSUME NEW row \in Rows
  PROVE  /\ Loaded(row) \in Rows /\ Loaded(row).v = row.v /\ Loaded(row).meta = row.meta
         /\ row = NoRow => Loaded(row) = NoRow
<1>1. Loaded(row) \in Rows /\ Loaded(row).v = row.v /\ Loaded(row).meta = row.meta BY DEF Loaded, Rows
<1>2. ASSUME row = NoRow PROVE Loaded(row) = NoRow
  <2>1. Loaded(row).seasons = NoRow.seasons /\ Loaded(row).ok = NoRow.ok BY <1>2, NoRowType DEF Loaded, Rows
  <2> HIDE DEF Loaded
  <2> QED BY <1>1, <1>2, <2>1, NoRowType DEF Rows
<1> QED BY <1>1, <1>2

LEMMA EnrichedType ==
  ASSUME NEW row \in Rows, row.meta => row.ok
  PROVE  Enriched(row) \in Rows /\ Enriched(row).meta = row.meta
BY NoRowType DEF Enriched, Rows

LEMMA MergedType ==
  ASSUME NEW v \in Versions, NEW old \in Rows
  PROVE  Merged(v, old) \in Rows /\ Merged(v, old).v = v /\ Merged(v, old).meta = old.meta /\ Merged(v, old).ok = old.meta
BY DEF Merged, Rows

LEMMA PersistedType ==
  ASSUME NEW files \in [Profiles -> Files], NEW p \in Profiles, NEW item \in Rows
  PROVE  /\ Persisted(files, p, item) \in [Profiles -> Files]
         /\ \A q \in Profiles : q # p => Persisted(files, p, item)[q] = files[q]
         /\ Persisted(files, p, item)[p].exists = files[p].exists
         /\ Persisted(files, p, item)[p].sum = files[p].sum
         /\ Persisted(files, p, item)[p].synced = files[p].synced
         /\ IF p \in handle /\ files[p].row.v # 0
            THEN /\ Persisted(files, p, item)[p].row.v = item.v
                 /\ Persisted(files, p, item)[p].row.meta = item.meta
                 /\ Persisted(files, p, item)[p].row.ok
            ELSE Persisted(files, p, item)[p] = files[p]
<1> DEFINE saved == [item EXCEPT !.ok = TRUE]
<1>1. saved \in Rows /\ saved.v = item.v /\ saved.meta = item.meta /\ saved.ok BY DEF Rows
<1>2. CASE p \in handle /\ files[p].row.v # 0
  <2>1. Persisted(files, p, item) = [files EXCEPT ![p].row = saved] BY <1>2 DEF Persisted
  <2>2. Persisted(files, p, item)[p] = [files[p] EXCEPT !.row = saved] BY <2>1
  <2>3. files[p] \in Files OBVIOUS
  <2> HIDE DEF saved
  <2>4. /\ Persisted(files, p, item)[p] \in Files /\ Persisted(files, p, item)[p].row = saved
        /\ Persisted(files, p, item)[p].exists = files[p].exists
        /\ Persisted(files, p, item)[p].sum = files[p].sum
        /\ Persisted(files, p, item)[p].synced = files[p].synced
    BY <1>1, <2>2, <2>3 DEF Files
  <2>5. Persisted(files, p, item) \in [Profiles -> Files] BY <2>1, <2>4
  <2>6. \A q \in Profiles : q # p => Persisted(files, p, item)[q] = files[q] BY <2>1
  <2> QED BY <1>1, <1>2, <2>4, <2>5, <2>6
<1>3. CASE ~(p \in handle /\ files[p].row.v # 0)
  BY <1>3 DEF Persisted
<1> QED BY <1>2, <1>3

-----------------------------------------------------------------------------
\* What each step does, field by field.

Others(j) == \A i \in Slots : i # j => jobs'[i] = jobs[i]
Typed == jobs' \in [Slots -> JobType]
Keeps(j, p) ==
  /\ jobs'[j].dumps[p] = jobs[j].dumps[p] /\ jobs'[j].rows[p] = jobs[j].rows[p]

LEMMA JobAt ==
  ASSUME TypeOK, NEW j \in Slots
  PROVE  jobs[j] \in JobType
BY DEF TypeOK

LEMMA NewJob ==
  ASSUME TypeOK, NEW j \in Slots, NEW new \in JobType, jobs' = [jobs EXCEPT ![j] = new]
  PROVE  Typed /\ Others(j) /\ jobs'[j] = new
BY DEF TypeOK, Typed, Others

LEMMA FetchesDoes ==
  ASSUME TypeOK, NEW j \in Slots, NEW p \in Profiles, Fetches(j, p)
  PROVE  /\ Typed /\ Others(j)
         /\ jobs[j].kind = "fetch" /\ p \in jobs[j].ps
         /\ jobs'[j].kind = "fetch" /\ jobs'[j].ps = jobs[j].ps \ {p}
         /\ jobs'[j].at = jobs[j].at
         /\ jobs'[j].dumps[p] \in {0, portal[p]} /\ jobs'[j].rows[p].v # 0
         /\ \A q \in Profiles : q # p => Keeps(j, q)
         /\ UNCHANGED <<sources, known, db, handle, bundle, portal, ops>>
<1> DEFINE got(v) == Got(jobs[j], p, v)
<1>1. PICK v \in {0, portal[p]} : jobs' = [jobs EXCEPT ![j] = got(v)]
  BY DEF Fetches
<1>2. Answered \in Rows /\ Answered.v = 1
  BY ConstantsAssumption, NoRowType DEF Answered, Rows, Versions
<1>3. v \in Versions BY ConstantsAssumption DEF TypeOK, Versions
<1>4. /\ got(v) \in JobType /\ got(v).kind = jobs[j].kind /\ got(v).at = jobs[j].at
      /\ got(v).ps = jobs[j].ps \ {p}
      /\ got(v).dumps = [jobs[j].dumps EXCEPT ![p] = v]
      /\ got(v).rows = [jobs[j].rows EXCEPT ![p] = Answered]
  BY <1>2, <1>3, JobAt DEF JobType, Got
<1>5. jobs[j].dumps \in [Profiles -> Versions] /\ jobs[j].rows \in [Profiles -> Rows] BY JobAt DEF JobType
<1> HIDE DEF got
<1>6. Typed /\ Others(j) /\ jobs'[j] = got(v) BY <1>1, <1>4, NewJob
<1>7. \A q \in Profiles : q # p => Keeps(j, q) BY <1>4, <1>5, <1>6 DEF Keeps
<1>8. jobs'[j].dumps[p] = v /\ jobs'[j].rows[p] = Answered BY <1>4, <1>5, <1>6
<1> QED BY <1>1, <1>2, <1>4, <1>6, <1>7, <1>8 DEF Fetches

Ats == {"new", "sum", "read", "commit", "write", "mark", "rows", "copied"}
SameBeside(j) ==
  /\ jobs'[j].kind = jobs[j].kind /\ jobs'[j].ps = jobs[j].ps
  /\ jobs'[j].dumps = jobs[j].dumps /\ jobs'[j].lost = jobs[j].lost
OnlyFile(p) == \A q \in Profiles : q # p => db'[q] = db[q]
OneFile(p) == db' \in [Profiles -> Files] /\ OnlyFile(p)

LEMMA JobTo ==
  ASSUME TypeOK, NEW j \in Slots, NEW at \in Ats, jobs' = [jobs EXCEPT ![j].at = at]
  PROVE  /\ Typed /\ Others(j) /\ SameBeside(j) /\ jobs'[j].rows = jobs[j].rows
         /\ jobs'[j].at = at
<1> DEFINE new == [jobs[j] EXCEPT !.at = at]
<1>1. /\ new \in JobType /\ new.kind = jobs[j].kind /\ new.ps = jobs[j].ps
      /\ new.dumps = jobs[j].dumps /\ new.lost = jobs[j].lost /\ new.rows = jobs[j].rows
      /\ new.at = at
  BY JobAt DEF JobType, Ats
<1>0. jobs \in [Slots -> JobType] BY DEF TypeOK
<1>2. jobs'[j] = new /\ Others(j) BY <1>0 DEF Others
<1> HIDE DEF new
<1>3. Typed BY <1>1, <1>2 DEF Typed, TypeOK
<1> QED BY <1>1, <1>2, <1>3 DEF SameBeside

LEMMA PastType ==
  ASSUME NEW job \in JobType, NEW p
  PROVE  /\ Past(job, p) \in JobType /\ Past(job, p).kind = job.kind /\ Past(job, p).ps = job.ps \ {p}
         /\ Past(job, p).dumps = job.dumps /\ Past(job, p).lost = job.lost /\ Past(job, p).rows = job.rows
         /\ Past(job, p).at = "sum"
BY DEF Past, JobType

LEMMA ReadsType ==
  ASSUME NEW job \in JobType, NEW p \in Profiles, db \in [Profiles -> Files]
  PROVE  /\ Reads(job, p) \in JobType /\ Reads(job, p).kind = job.kind /\ Reads(job, p).ps = job.ps \ {p}
         /\ Reads(job, p).dumps = job.dumps /\ Reads(job, p).lost = job.lost
         /\ Reads(job, p).rows[p] = Loaded(db[p].row)
         /\ \A q \in Profiles : q # p => Reads(job, p).rows[q] = job.rows[q]
         /\ Reads(job, p).at = job.at
<1> DEFINE row == Loaded(db[p].row)
<1>1. db[p].row \in Rows BY DEF Files
<1>2. row \in Rows BY <1>1, LoadedType
<1>4. /\ Reads(job, p) \in JobType /\ Reads(job, p).kind = job.kind /\ Reads(job, p).ps = job.ps \ {p}
      /\ Reads(job, p).dumps = job.dumps /\ Reads(job, p).lost = job.lost
      /\ Reads(job, p).rows = [job.rows EXCEPT ![p] = row]
      /\ Reads(job, p).at = job.at
  BY <1>2 DEF JobType, Reads
<1>5. job.rows \in [Profiles -> Rows] BY DEF JobType
<1> QED BY <1>4, <1>5 DEF row

LEMMA WritesDoes ==
  ASSUME TypeOK, NEW j \in Slots, NEW p \in Profiles, NEW file \in Files, db' = Writes(j, p, file)
  PROVE  /\ OneFile(p)
         /\ p \in jobs[j].lost => db' = db
         /\ p \notin jobs[j].lost => db'[p] = file
BY DEF Writes, TypeOK, OneFile, OnlyFile

LEMMA FileAt ==
  ASSUME TypeOK, NEW p \in Profiles
  PROVE  /\ db[p] \in Files /\ db[p].row \in Rows /\ db[p].sum \in Versions /\ bundle[p] \in Rows
         /\ db[p].row.v \in Versions
BY DEF TypeOK, Files, Rows

LEMMA AtIn ==
  ASSUME TypeOK, NEW j \in Slots, jobs[j].ps # {}
  PROVE  At(j) \in jobs[j].ps /\ At(j) \in Profiles
BY PickIn, JobAt DEF At, JobType

LEMMA LoadReadsDoes ==
  ASSUME TypeOK, NEW j \in Slots, NEW p \in Profiles, LoadReads(j, p)
  PROVE  /\ Typed /\ Others(j)
         /\ jobs[j].kind = "load" /\ jobs[j].at = "rows" /\ p \in jobs[j].ps
         /\ jobs'[j].kind = "load" /\ jobs'[j].at = "rows" /\ jobs'[j].ps = jobs[j].ps \ {p}
         /\ jobs'[j].dumps = jobs[j].dumps
         /\ jobs'[j].rows[p] = Loaded(db[p].row)
         /\ \A q \in Profiles : q # p => jobs'[j].rows[q] = jobs[j].rows[q]
         /\ UNCHANGED <<sources, known, db, handle, bundle, portal, ops>>
<1>1. jobs' = [jobs EXCEPT ![j] = Reads(jobs[j], p)] BY DEF LoadReads
<1>2. Reads(jobs[j], p) \in JobType BY JobAt, ReadsType DEF TypeOK
<1>3. Typed /\ Others(j) /\ jobs'[j] = Reads(jobs[j], p) BY <1>1, <1>2, NewJob
<1> QED BY <1>3, JobAt, ReadsType DEF LoadReads, TypeOK

LEMMA IngestStartsDoes ==
  ASSUME TypeOK, NEW j \in Slots, IngestStarts(j)
  PROVE  /\ Typed /\ Others(j)
         /\ jobs[j].kind = "fetch" /\ jobs[j].ps = {}
         /\ \/ jobs'[j] = Idle
            \/ /\ jobs'[j].kind = "ingest" /\ jobs'[j].at = "new" /\ jobs'[j].lost = {}
               /\ jobs'[j].ps = {p \in Fetched(j) : jobs[j].dumps[p] # 0}
               /\ jobs'[j].dumps = jobs[j].dumps /\ jobs'[j].rows = NoRows
         /\ Apart("ingests", {"ingest"}) /\ Apart("enrich", {"episodes"})
         /\ UNCHANGED <<sources, known, db, handle, bundle, portal, ops>>
<1> DEFINE got == {p \in Fetched(j) : jobs[j].dumps[p] # 0}
           base == Job("ingest", got)
           ingest == [base EXCEPT !.one = jobs[j].one, !.dumps = jobs[j].dumps]
           new == IF jobs[j].one /\ got = {} THEN Idle ELSE ingest
<1>1. jobs' = [jobs EXCEPT ![j] = new] BY DEF IngestStarts
<1>2. got \in SUBSET Profiles BY DEF Fetched
<1>3. /\ base \in JobType /\ base.kind = "ingest" /\ base.at = "new" /\ base.ps = got
      /\ base.rows = NoRows /\ base.lost = {}
  <2>1. "ingest" \in Kinds BY DEF Kinds
  <2> HIDE DEF got
  <2> QED BY <1>2, <2>1, JobTypes
<1> HIDE DEF base, got
<1>4. /\ ingest \in JobType /\ ingest.kind = "ingest" /\ ingest.at = "new" /\ ingest.ps = got
      /\ ingest.rows = NoRows /\ ingest.lost = {} /\ ingest.dumps = jobs[j].dumps
  BY <1>3, JobAt DEF JobType
<1> HIDE DEF ingest
<1>5. new \in JobType BY <1>4, IdleType
<1> HIDE DEF new
<1>6. Typed /\ Others(j) /\ jobs'[j] = new BY <1>1, <1>5, NewJob
<1> QED BY <1>4, <1>6 DEF new, got, IngestStarts, FetchEnded

LEMMA IngestOpensDoes ==
  ASSUME TypeOK, NEW j \in Slots, IngestOpens(j)
  PROVE  /\ Typed /\ Others(j) /\ SameBeside(j) /\ jobs'[j].rows = jobs[j].rows
         /\ Step(j, "new") /\ jobs'[j].at = "sum"
         /\ db' = Opened(db, jobs[j].ps)
         /\ UNCHANGED <<sources, known, handle, bundle, portal, ops>>
BY JobTo DEF IngestOpens, Ats

LEMMA IngestComparesDoes ==
  ASSUME TypeOK, NEW j \in Slots, IngestCompares(j)
  PROVE  /\ Typed /\ Others(j) /\ SameBeside(j) /\ jobs'[j].rows = jobs[j].rows
         /\ Step(j, "sum") /\ jobs[j].ps # {}
         /\ jobs'[j].at = IF db[At(j)].sum = jobs[j].dumps[At(j)] THEN "mark" ELSE "read"
         /\ UNCHANGED <<sources, known, db, handle, bundle, portal, ops>>
<1> DEFINE at == IF SumMatches(j, At(j)) THEN "mark" ELSE "read"
<1>1. at \in Ats /\ jobs' = [jobs EXCEPT ![j].at = at] BY DEF IngestCompares, Ats
<1> HIDE DEF at
<1>2. /\ Typed /\ Others(j) /\ SameBeside(j) /\ jobs'[j].rows = jobs[j].rows /\ jobs'[j].at = at
  BY <1>1, JobTo
<1> QED BY <1>2 DEF at, IngestCompares, SumMatches

LEMMA IngestReadsDoes ==
  ASSUME TypeOK, NEW j \in Slots, jobs[j].ps # {}, db[At(j)].row.meta => db[At(j)].row.ok, IngestReads(j)
  PROVE  /\ Typed /\ Others(j) /\ SameBeside(j)
         /\ Step(j, "read") /\ jobs'[j].at = "commit"
         /\ jobs'[j].rows[At(j)].meta = db[At(j)].row.meta
         /\ UNCHANGED <<sources, known, db, handle, bundle, portal, ops>>
<1> DEFINE p == At(j)
           row == Enriched(db[p].row)
           new == [jobs[j] EXCEPT !.rows[p] = row, !.at = "commit"]
<1>1. p \in Profiles BY AtIn
<1>2. row \in Rows /\ row.meta = db[p].row.meta BY <1>1, FileAt, EnrichedType
<1>3. jobs'[j] = new /\ Others(j) BY DEF IngestReads, TypeOK, Others
<1> HIDE DEF p, row
<1>4. /\ new \in JobType /\ new.kind = jobs[j].kind /\ new.ps = jobs[j].ps
      /\ new.dumps = jobs[j].dumps /\ new.lost = jobs[j].lost
      /\ new.rows = [jobs[j].rows EXCEPT ![p] = row] /\ new.at = "commit"
  BY <1>1, <1>2, JobAt DEF JobType
<1>5. jobs[j].rows \in [Profiles -> Rows] BY JobAt DEF JobType
<1>6. jobs' = [jobs EXCEPT ![j] = jobs'[j]] BY <1>3 DEF IngestReads, TypeOK, Others
<1> HIDE DEF new
<1>7. new.rows[p] = row BY <1>1, <1>4, <1>5
<1>8. Typed BY <1>3, <1>4, <1>6 DEF Typed, TypeOK
<1> QED BY <1>2, <1>3, <1>4, <1>7, <1>8 DEF SameBeside, IngestReads, p

LEMMA IngestCommitsDoes ==
  ASSUME TypeOK, NEW j \in Slots, jobs[j].ps # {}, IngestCommits(j)
  PROVE  /\ Typed /\ Others(j) /\ SameBeside(j) /\ jobs'[j].rows = jobs[j].rows
         /\ Step(j, "commit") /\ jobs'[j].at = "write"
         /\ OneFile(At(j))
         /\ At(j) \in jobs[j].lost => db' = db
         /\ At(j) \notin jobs[j].lost =>
              LET p == At(j) IN
              /\ db'[p].exists = db[p].exists /\ db'[p].sum = db[p].sum
              /\ db'[p].row \in Rows /\ db'[p].row.v = jobs[j].dumps[p]
              /\ db'[p].row.meta = jobs[j].rows[p].meta /\ db'[p].row.ok = jobs[j].rows[p].meta
         /\ UNCHANGED <<sources, known, handle, bundle, portal, ops>>
<1> DEFINE p == At(j)
           row == Merged(jobs[j].dumps[p], jobs[j].rows[p])
           file == [db[p] EXCEPT !.row = row]
<1>1. p \in Profiles BY AtIn
<1>2. jobs[j].dumps[p] \in Versions /\ jobs[j].rows[p] \in Rows BY <1>1, JobAt DEF JobType
<1>3. /\ row \in Rows /\ row.v = jobs[j].dumps[p] /\ row.meta = jobs[j].rows[p].meta
      /\ row.ok = jobs[j].rows[p].meta
  BY <1>2, MergedType
<1>4. db' = Writes(j, p, file) /\ jobs' = [jobs EXCEPT ![j].at = "write"] BY DEF IngestCommits
<1> HIDE DEF p, row
<1>5. file \in Files /\ file.row = row /\ file.exists = db[p].exists /\ file.sum = db[p].sum
  BY <1>1, <1>3, FileAt DEF Files
<1> HIDE DEF file
<1>6. /\ OneFile(p) /\ (p \in jobs[j].lost => db' = db) /\ (p \notin jobs[j].lost => db'[p] = file)
  BY <1>1, <1>4, <1>5, WritesDoes
<1>7. "write" \in Ats BY DEF Ats
<1>8. Typed /\ Others(j) /\ SameBeside(j) /\ jobs'[j].rows = jobs[j].rows /\ jobs'[j].at = "write"
  BY <1>4, <1>7, JobTo
<1> QED BY <1>3, <1>5, <1>6, <1>8 DEF IngestCommits, p

LEMMA IngestWritesSumDoes ==
  ASSUME TypeOK, NEW j \in Slots, jobs[j].ps # {}, IngestWritesSum(j)
  PROVE  /\ Typed /\ Others(j) /\ SameBeside(j) /\ jobs'[j].rows = jobs[j].rows
         /\ Step(j, "write") /\ jobs'[j].at = "mark"
         /\ OneFile(At(j))
         /\ At(j) \in jobs[j].lost => db' = db
         /\ At(j) \notin jobs[j].lost =>
              LET p == At(j) IN
              db'[p].exists = db[p].exists /\ db'[p].row = db[p].row /\ db'[p].sum = jobs[j].dumps[p]
         /\ UNCHANGED <<sources, known, handle, bundle, portal, ops>>
<1> DEFINE p == At(j)
           file == [db[p] EXCEPT !.sum = jobs[j].dumps[p]]
<1>1. p \in Profiles BY AtIn
<1>2. jobs[j].dumps[p] \in Versions BY <1>1, JobAt DEF JobType
<1>4. db' = Writes(j, p, file) /\ jobs' = [jobs EXCEPT ![j].at = "mark"] BY DEF IngestWritesSum
<1> HIDE DEF p
<1>5. file \in Files /\ file.row = db[p].row /\ file.exists = db[p].exists /\ file.sum = jobs[j].dumps[p]
  BY <1>1, <1>2, FileAt DEF Files
<1> HIDE DEF file
<1>6. /\ OneFile(p) /\ (p \in jobs[j].lost => db' = db) /\ (p \notin jobs[j].lost => db'[p] = file)
  BY <1>1, <1>4, <1>5, WritesDoes
<1>7. "mark" \in Ats BY DEF Ats
<1>8. Typed /\ Others(j) /\ SameBeside(j) /\ jobs'[j].rows = jobs[j].rows /\ jobs'[j].at = "mark"
  BY <1>4, <1>7, JobTo
<1> QED BY <1>5, <1>6, <1>8 DEF IngestWritesSum, p

LEMMA IngestMarksDoes ==
  ASSUME TypeOK, NEW j \in Slots, jobs[j].ps # {}, IngestMarks(j)
  PROVE  /\ Typed /\ Others(j) /\ jobs'[j] = Past(jobs[j], At(j)) /\ Step(j, "mark")
         /\ OneFile(At(j))
         /\ At(j) \in jobs[j].lost => db' = db
         /\ At(j) \notin jobs[j].lost =>
              LET p == At(j) IN
              db'[p].exists = db[p].exists /\ db'[p].row = db[p].row /\ db'[p].sum = db[p].sum
         /\ UNCHANGED <<sources, known, handle, bundle, portal, ops>>
<1> DEFINE p == At(j)
           file == [db[p] EXCEPT !.synced = TRUE]
<1>1. p \in Profiles BY AtIn
<1>4. db' = Writes(j, p, file) /\ jobs' = [jobs EXCEPT ![j] = Past(jobs[j], p)] BY DEF IngestMarks
<1> HIDE DEF p
<1>5. file \in Files /\ file.row = db[p].row /\ file.exists = db[p].exists /\ file.sum = db[p].sum
  BY <1>1, FileAt DEF Files
<1> HIDE DEF file
<1>6. /\ OneFile(p) /\ (p \in jobs[j].lost => db' = db) /\ (p \notin jobs[j].lost => db'[p] = file)
  BY <1>1, <1>4, <1>5, WritesDoes
<1>7. Past(jobs[j], p) \in JobType BY JobAt, PastType
<1>8. Typed /\ Others(j) /\ jobs'[j] = Past(jobs[j], p) BY <1>4, <1>7, NewJob
<1> QED BY <1>5, <1>6, <1>8 DEF IngestMarks, p

LEMMA IngestFailsDoes ==
  ASSUME TypeOK, NEW j \in Slots, IngestFails(j)
  PROVE  /\ Typed /\ Others(j) /\ "locked" \in Faults
         /\ Step(j, "read") \/ Step(j, "commit")
         /\ jobs'[j] = Idle \/ jobs'[j] = Past(jobs[j], At(j))
         /\ UNCHANGED <<sources, known, db, handle, bundle, portal, ops>>
<1> DEFINE new == IF jobs[j].one THEN Idle ELSE Past(jobs[j], At(j))
<1>1. jobs' = [jobs EXCEPT ![j] = new] BY DEF IngestFails
<1>2. new \in JobType BY JobAt, PastType, IdleType
<1> HIDE DEF new
<1>3. Typed /\ Others(j) /\ jobs'[j] = new BY <1>1, <1>2, NewJob
<1> QED BY <1>3 DEF IngestFails, new

Fresh(job, kind, ps) ==
  /\ job.kind = kind /\ job.at = "new" /\ job.ps = ps
  /\ job.dumps = NoDumps /\ job.rows = NoRows /\ job.lost = {}
SavedAs(p, v, meta) ==
  /\ db'[p].exists = db[p].exists /\ db'[p].sum = db[p].sum
  /\ IF p \in handle /\ db[p].row.v # 0
     THEN db'[p].row.v = v /\ (db'[p].row.meta <=> meta) /\ db'[p].row.ok
     ELSE db'[p] = db[p]

LEMMA FreshJob ==
  ASSUME TypeOK, NEW j \in Slots, NEW kind \in Kinds, NEW ps \in SUBSET Profiles,
         jobs' = [jobs EXCEPT ![j] = Job(kind, ps)]
  PROVE  Typed /\ Others(j) /\ Fresh(jobs'[j], kind, ps)
<1>1. Job(kind, ps) \in JobType /\ Fresh(Job(kind, ps), kind, ps) BY JobTypes DEF Fresh
<1> QED BY <1>1, NewJob

LEMMA IdleJob ==
  ASSUME TypeOK, NEW j \in Slots, jobs' = [jobs EXCEPT ![j] = Idle]
  PROVE  Typed /\ Others(j) /\ Fresh(jobs'[j], "idle", {})
<1>1. Idle \in JobType /\ Fresh(Idle, "idle", {}) BY IdleType DEF Fresh
<1> QED BY <1>1, NewJob

LEMMA FetchesAnew ==
  ASSUME TypeOK, NEW j \in Slots, NEW p \in Profiles,
         jobs' = [jobs EXCEPT ![j] = FetchJob({p}, TRUE)]
  PROVE  Typed /\ Others(j) /\ Fresh(jobs'[j], "fetch", {p})
<1>1. FetchJob({p}, TRUE) \in JobType /\ Fresh(FetchJob({p}, TRUE), "fetch", {p})
  <2> DEFINE job == FetchJob({p}, TRUE)
             ps == {p}
  <2>1. ps \in SUBSET Profiles /\ (job = FetchJob(ps, TRUE) \/ job = FetchJob(ps, FALSE)) OBVIOUS
  <2> HIDE DEF job, ps
  <2>2. job \in JobType /\ Fresh(job, "fetch", ps) BY ZenonT(40), <2>1, FetchJobType DEF Fresh
  <2> QED BY <2>2 DEF job, ps
<1> QED BY <1>1, NewJob

LEMMA KindsAre ==
  /\ "idle" \in Kinds /\ "fetch" \in Kinds /\ "ingest" \in Kinds
  /\ "load" \in Kinds /\ "enrich" \in Kinds /\ "episodes" \in Kinds
BY DEF Kinds

LEMMA IngestDoneDoes ==
  ASSUME TypeOK, NEW j \in Slots, IngestDone(j), sources \in SUBSET Profiles
  PROVE  /\ Typed /\ Others(j) /\ Fresh(jobs'[j], "load", sources)
         /\ Step(j, "sum") /\ jobs[j].ps = {} /\ Apart("loads", {"load"})
         /\ UNCHANGED <<sources, known, db, handle, bundle, portal, ops>>
<1>1. jobs' = [jobs EXCEPT ![j] = Job("load", sources)] BY DEF IngestDone, LoadIn
<1> QED BY <1>1, FreshJob, KindsAre DEF IngestDone

LEMMA LoadOpensDoes ==
  ASSUME TypeOK, NEW j \in Slots, LoadOpens(j)
  PROVE  /\ Typed /\ Others(j) /\ SameBeside(j) /\ jobs'[j].rows = jobs[j].rows
         /\ jobs[j].kind = "load" /\ jobs[j].at = "new" /\ jobs'[j].at = "rows"
         /\ db' = Opened(db, jobs[j].ps)
         /\ UNCHANGED <<sources, known, handle, bundle, portal, ops>>
BY JobTo DEF LoadOpens, Ats

LEMMA BundleCacheReadyDoes ==
  ASSUME TypeOK, NEW j \in Slots, BundleCacheReady(j)
  PROVE  /\ Typed /\ Others(j)
         /\ jobs[j].kind = "load" /\ jobs[j].at = "rows" /\ jobs[j].ps = {}
         /\ bundle' = jobs[j].rows
         /\ \/ Fresh(jobs'[j], "idle", {})
            \/ \E ps \in SUBSET {p \in Profiles : bundle'[p].v # 0} : Fresh(jobs'[j], "enrich", ps)
         /\ UNCHANGED <<sources, known, db, handle, portal, ops>>
<1>1. CASE jobs' = [jobs EXCEPT ![j] = Idle]
  BY <1>1, IdleJob DEF BundleCacheReady
<1>2. CASE jobs' # [jobs EXCEPT ![j] = Idle]
  <2>1. jobs' = [jobs EXCEPT ![j] = Job("enrich", Unenriched(bundle'))]
    BY <1>2 DEF BundleCacheReady
  <2>2. Unenriched(bundle') \in SUBSET {p \in Profiles : bundle'[p].v # 0} BY DEF Unenriched
  <2>3. Unenriched(bundle') \in SUBSET Profiles BY <2>2
  <2>4. Typed /\ Others(j) /\ Fresh(jobs'[j], "enrich", Unenriched(bundle'))
    BY <2>1, <2>3, FreshJob, KindsAre
  <2> QED BY <2>2, <2>4 DEF BundleCacheReady
<1> QED BY <1>1, <1>2

LEMMA LoadFailsDoes ==
  ASSUME TypeOK, NEW j \in Slots, LoadFails(j)
  PROVE  /\ Typed /\ Others(j) /\ Fresh(jobs'[j], "idle", {})
         /\ "locked" \in Faults /\ jobs[j].kind = "load"
         /\ UNCHANGED <<sources, known, db, handle, bundle, portal, ops>>
BY IdleJob DEF LoadFails

LEMMA MetaEnrichedDoes ==
  ASSUME TypeOK, NEW j \in Slots, MetaEnriched(j)
  PROVE  /\ Typed /\ Others(j) /\ Fresh(jobs'[j], "idle", {}) /\ jobs[j].kind = "enrich"
         /\ Apart("enrich", {"ingest", "load", "episodes"})
         /\ db' \in [Profiles -> Files] /\ bundle' \in [Profiles -> Rows]
         /\ \A p \in Profiles :
              \/ bundle'[p] = bundle[p] /\ db'[p] = db[p]
              \/ /\ bundle[p].v # 0 /\ bundle'[p].v = bundle[p].v /\ bundle'[p].meta
                 /\ SavedAs(p, bundle[p].v, TRUE)
         /\ UNCHANGED <<sources, known, handle, portal, ops>>
<1>1. PICK hit \in SUBSET jobs[j].ps :
        LET shown == {p \in hit : bundle[p].v # 0}
        IN /\ bundle' = [p \in Profiles |-> IF p \in shown THEN Patched(p) ELSE bundle[p]]
           /\ db' = [p \in Profiles |->
                      IF p \in shown THEN Persisted(db, p, Patched(p))[p] ELSE db[p]]
  BY DEF MetaEnriched
<1> DEFINE shown == {p \in hit : bundle[p].v # 0}
<1>2. \A p \in shown : bundle[p].v # 0 OBVIOUS
<1>3. /\ bundle' = [p \in Profiles |-> IF p \in shown THEN Patched(p) ELSE bundle[p]]
      /\ db' = [p \in Profiles |-> IF p \in shown THEN Persisted(db, p, Patched(p))[p] ELSE db[p]]
  BY <1>1
<1> HIDE DEF shown
<1>4. \A p \in Profiles : Patched(p) \in Rows /\ Patched(p).v = bundle[p].v /\ Patched(p).meta
  BY FileAt DEF Patched, Rows
<1>5. ASSUME NEW p \in Profiles
      PROVE
         LET saved == Persisted(db, p, Patched(p))[p] IN
         /\ saved \in Files /\ saved.exists = db[p].exists /\ saved.sum = db[p].sum
         /\ IF p \in handle /\ db[p].row.v # 0
            THEN saved.row.v = bundle[p].v /\ saved.row.meta /\ saved.row.ok
            ELSE saved = db[p]
  <2> DEFINE item == Patched(p)
  <2>1. item \in Rows /\ item.v = bundle[p].v /\ item.meta BY <1>4
  <2>2. db \in [Profiles -> Files] BY DEF TypeOK
  <2> HIDE DEF item
  <2> SUFFICES LET saved == Persisted(db, p, item)[p] IN
         /\ saved \in Files /\ saved.exists = db[p].exists /\ saved.sum = db[p].sum
         /\ IF p \in handle /\ db[p].row.v # 0
            THEN saved.row.v = bundle[p].v /\ saved.row.meta /\ saved.row.ok
            ELSE saved = db[p]
    BY DEF item
  <2> QED BY <2>1, <2>2, PersistedType
<1>6. \A p \in Profiles : bundle[p] \in Rows /\ db[p] \in Files BY DEF TypeOK
<1>7. bundle' \in [Profiles -> Rows] /\ db' \in [Profiles -> Files]
  BY <1>3, <1>4, <1>5, <1>6
<1>8. ASSUME NEW p \in Profiles
      PROVE  \/ bundle'[p] = bundle[p] /\ db'[p] = db[p]
             \/ /\ bundle[p].v # 0 /\ bundle'[p].v = bundle[p].v /\ bundle'[p].meta
                /\ SavedAs(p, bundle[p].v, TRUE)
  <2>1. CASE p \in shown
    <3>1. bundle'[p] = Patched(p) /\ db'[p] = Persisted(db, p, Patched(p))[p] BY <1>3, <2>1
    <3> QED BY <3>1, <2>1, <1>2, <1>4, <1>5 DEF SavedAs
  <2>2. CASE p \notin shown
    BY <1>3, <2>2
  <2> QED BY <2>1, <2>2
<1> QED BY <1>7, <1>8, IdleJob DEF MetaEnriched

LEMMA SeriesDetailLoadedDoes ==
  ASSUME TypeOK, NEW j \in Slots, jobs[j].kind = "episodes" => jobs[j].ps # {}, SeriesDetailLoaded(j)
  PROVE  /\ Typed /\ Others(j) /\ jobs[j].kind = "episodes" /\ jobs[j].at = "new"
         /\ Apart("enrich", {"load"})
         /\ bundle' \in [Profiles -> Rows]
         /\ \A p \in Profiles : bundle'[p].v = bundle[p].v /\ bundle'[p].meta = bundle[p].meta
         /\ \A p \in Profiles : bundle[p].v # 0 \/ bundle'[p] = bundle[p]
         /\ \/ Fresh(jobs'[j], "idle", {})
            \/ LET p == At(j) IN
               /\ bundle[p].v # 0
               /\ SameBeside(j) /\ jobs'[j].at = "copied"
               /\ jobs'[j].rows[p].v = bundle[p].v /\ jobs'[j].rows[p].meta = bundle[p].meta
               /\ \A q \in Profiles : q # p => jobs'[j].rows[q] = jobs[j].rows[q]
         /\ UNCHANGED <<sources, known, db, handle, portal, ops>>
<1> DEFINE p == At(j)
           row == [bundle[p] EXCEPT !.seasons = TRUE]
           new == [jobs[j] EXCEPT !.at = "copied", !.rows[p] = row]
<1>1. p \in Profiles BY AtIn DEF SeriesDetailLoaded
<1>2. row \in Rows /\ row.v = bundle[p].v /\ row.meta = bundle[p].meta BY <1>1, FileAt DEF Rows
<1>3. CASE bundle[p].v = 0
  BY <1>3, IdleJob DEF SeriesDetailLoaded, TypeOK
<1>4. CASE bundle[p].v # 0
  <2>1. bundle' = [bundle EXCEPT ![p] = row]
    BY <1>4, <1>1 DEF SeriesDetailLoaded, TypeOK
  <2>2. bundle'[p] = row /\ bundle' \in [Profiles -> Rows] /\ \A q \in Profiles : q # p => bundle'[q] = bundle[q]
    BY <1>1, <1>2, <2>1 DEF TypeOK
  <2>3. jobs'[j] = [jobs[j] EXCEPT !.at = "copied", !.rows[p] = bundle'[p]] /\ Others(j)
    BY <1>4 DEF SeriesDetailLoaded, TypeOK, Others
  <2>4. jobs'[j] = new BY <2>2, <2>3
  <2> HIDE DEF row
  <2>5. /\ new \in JobType /\ new.kind = jobs[j].kind /\ new.ps = jobs[j].ps
        /\ new.dumps = jobs[j].dumps /\ new.lost = jobs[j].lost
        /\ new.rows = [jobs[j].rows EXCEPT ![p] = row] /\ new.at = "copied"
    BY <1>1, <1>2, JobAt DEF JobType
  <2>6. jobs[j].rows \in [Profiles -> Rows] BY JobAt DEF JobType
  <2> HIDE DEF new, p
  <2>7. new.rows[p] = row /\ \A q \in Profiles : q # p => new.rows[q] = jobs[j].rows[q] BY <1>1, <2>5, <2>6
  <2>8. jobs' = [jobs EXCEPT ![j] = jobs'[j]] BY <1>4, <2>3 DEF SeriesDetailLoaded, TypeOK, Others, p
  <2>9. Typed BY <2>8, <2>4, <2>5 DEF Typed, TypeOK
  <2> QED BY <1>2, <1>4, <2>2, <2>3, <2>4, <2>5, <2>7, <2>9 DEF SeriesDetailLoaded, SameBeside, p
<1> QED BY <1>3, <1>4

LEMMA SeriesEpisodesEnrichedDoes ==
  ASSUME TypeOK, NEW j \in Slots, jobs[j].kind = "episodes" => jobs[j].ps # {}, SeriesEpisodesEnriched(j)
  PROVE  /\ Typed /\ Others(j) /\ Fresh(jobs'[j], "idle", {})
         /\ jobs[j].kind = "episodes" /\ jobs[j].at = "copied"
         /\ Apart("enrich", {"ingest", "load"})
         /\ bundle' \in [Profiles -> Rows]
         /\ \A p \in Profiles : bundle'[p].v = bundle[p].v /\ bundle'[p].meta = bundle[p].meta
         /\ \A p \in Profiles : bundle[p].v # 0 \/ bundle'[p] = bundle[p]
         /\ OneFile(At(j)) /\ SavedAs(At(j), jobs[j].rows[At(j)].v, jobs[j].rows[At(j)].meta)
         /\ UNCHANGED <<sources, known, handle, portal, ops>>
<1> DEFINE p == At(j)
           row == [bundle[p] EXCEPT !.seasons = TRUE]
           item == jobs[j].rows[p]
<1>1. p \in Profiles BY AtIn DEF SeriesEpisodesEnriched
<1>2. row \in Rows /\ row.v = bundle[p].v /\ row.meta = bundle[p].meta BY <1>1, FileAt DEF Rows
<1>3. bundle' = IF bundle[p].v = 0 THEN bundle ELSE [bundle EXCEPT ![p] = row]
  BY <1>1 DEF SeriesEpisodesEnriched, TypeOK
<1>4. db' = Persisted(db, p, item) BY DEF SeriesEpisodesEnriched
<1>5. item \in Rows BY <1>1, JobAt DEF JobType
<1> HIDE DEF p, row, item
<1>6. /\ bundle' \in [Profiles -> Rows]
      /\ \A q \in Profiles : bundle'[q].v = bundle[q].v /\ bundle'[q].meta = bundle[q].meta
      /\ \A q \in Profiles : bundle[q].v # 0 \/ bundle'[q] = bundle[q]
  BY <1>1, <1>2, <1>3 DEF TypeOK
<1>7. OneFile(p) /\ SavedAs(p, item.v, item.meta)
  BY <1>1, <1>4, <1>5, PersistedType DEF TypeOK, OneFile, OnlyFile, SavedAs
<1> QED BY <1>6, <1>7, IdleJob DEF SeriesEpisodesEnriched, p, item

LEMMA AddSourceDoes ==
  ASSUME TypeOK, NEW p \in Profiles, AddSource(p)
  PROVE  \E j \in Slots :
         /\ Typed /\ Others(j) /\ Fresh(jobs'[j], "fetch", {p}) /\ jobs[j].kind = "idle"
         /\ p \notin known
         /\ sources' = sources \cup {p} /\ known' = known \cup {p}
         /\ db' = Opened(db, sources') /\ handle' = OnDisk(db')
         /\ ops' = ops + 1 /\ ops < MaxOps
         /\ UNCHANGED <<bundle, portal>>
<1>1. PICK j \in Free : jobs' = [jobs EXCEPT ![j] = FetchJob({p}, TRUE)] BY DEF AddSource
<1>2. j \in Slots /\ jobs[j].kind = "idle" BY DEF Free
<1> QED BY <1>1, <1>2, FetchesAnew DEF AddSource, Asks

LEMMA ReloadSourceDoes ==
  ASSUME TypeOK, NEW p \in Profiles, ReloadSource(p)
  PROVE  \E j \in Slots :
         /\ Typed /\ Others(j) /\ Fresh(jobs'[j], "fetch", {p}) /\ jobs[j].kind = "idle"
         /\ p \in sources
         /\ "fetches" \in Faults \/ ~Fetching(p)
         /\ ops' = ops + 1 /\ ops < MaxOps
         /\ UNCHANGED <<sources, known, db, handle, bundle, portal>>
<1>1. PICK j \in Free : jobs' = [jobs EXCEPT ![j] = FetchJob({p}, TRUE)] BY DEF ReloadSource
<1>2. j \in Slots /\ jobs[j].kind = "idle" BY DEF Free
<1> QED BY <1>1, <1>2, FetchesAnew DEF ReloadSource, Asks

OrphanedOf(job, old, p) ==
  /\ job.kind = old.kind /\ job.at = old.at /\ job.dumps = old.dumps
  /\ \/ job = old /\ ~(old.kind = "ingest" /\ old.at # "new")
     \/ old.kind = "load" /\ old.at = "rows" /\ p \in old.ps /\ job = Reads(old, p)
     \/ /\ old.kind = "ingest" /\ old.at # "new" /\ job.lost = old.lost \cup {p}
        /\ job.ps = old.ps /\ job.rows = old.rows

LEMMA OrphanedType ==
  ASSUME NEW job \in JobType, NEW p \in Profiles, db \in [Profiles -> Files]
  PROVE  Orphaned(job, p) \in JobType /\ OrphanedOf(Orphaned(job, p), job, p)
<1>1. CASE job.kind = "load" /\ job.at = "rows" /\ p \in job.ps
  <2>1. Orphaned(job, p) = Reads(job, p) BY <1>1 DEF Orphaned
  <2> QED BY <1>1, <2>1, ReadsType DEF OrphanedOf
<1>2. CASE job.kind = "ingest" /\ job.at # "new"
  <2> DEFINE new == [job EXCEPT !.lost = job.lost \cup {p}]
  <2>1. Orphaned(job, p) = new BY <1>2 DEF Orphaned
  <2>2. /\ new \in JobType /\ new.kind = job.kind /\ new.at = job.at /\ new.ps = job.ps
        /\ new.dumps = job.dumps /\ new.rows = job.rows /\ new.lost = job.lost \cup {p}
    BY DEF JobType
  <2> HIDE DEF new
  <2> QED BY <1>2, <2>1, <2>2 DEF OrphanedOf
<1>3. CASE /\ ~(job.kind = "load" /\ job.at = "rows" /\ p \in job.ps)
           /\ ~(job.kind = "ingest" /\ job.at # "new")
  BY <1>3 DEF Orphaned, OrphanedOf
<1> QED BY <1>1, <1>2, <1>3

LEMMA RemoveSourceDoes ==
  ASSUME TypeOK, NEW p \in Profiles, RemoveSource(p)
  PROVE  \E j \in Slots :
         /\ Typed /\ Fresh(jobs'[j], "load", sources') /\ jobs[j].kind = "idle"
         /\ \A i \in Slots : i # j => OrphanedOf(jobs'[i], jobs[i], p)
         /\ p \in sources /\ Apart("loads", {"load"})
         /\ sources' = sources \ {p} /\ handle' = handle \ {p}
         /\ OneFile(p) /\ db'[p] = NoFile
         /\ ops' = ops + 1 /\ ops < MaxOps
         /\ UNCHANGED <<known, bundle, portal>>
<1> DEFINE js == [i \in Slots |-> Orphaned(jobs[i], p)]
<1>1. PICK j \in Free : jobs' = LoadIn(js, j, sources') BY DEF RemoveSource
<1>2. j \in Slots /\ jobs[j].kind = "idle" BY DEF Free
<1>3. sources' \in SUBSET Profiles /\ sources' = sources \ {p} BY DEF RemoveSource, TypeOK
<1>4. \A i \in Slots : js[i] \in JobType /\ OrphanedOf(js[i], jobs[i], p)
  BY JobAt, OrphanedType DEF TypeOK
<1>5. jobs' = [js EXCEPT ![j] = Job("load", sources')] BY <1>1 DEF LoadIn
<1>6. Job("load", sources') \in JobType /\ Fresh(Job("load", sources'), "load", sources')
  <2> DEFINE srcs == sources'
  <2>1. srcs \in SUBSET Profiles BY <1>3
  <2> HIDE DEF srcs
  <2>2. Job("load", srcs) \in JobType /\ Fresh(Job("load", srcs), "load", srcs)
    BY <2>1, JobTypes, KindsAre DEF Fresh
  <2> QED BY <2>2 DEF srcs
<1>7. js \in [Slots -> JobType] BY <1>4
<1> HIDE DEF js
<1>8. Typed /\ jobs'[j] = Job("load", sources') /\ \A i \in Slots : i # j => jobs'[i] = js[i]
  BY <1>2, <1>5, <1>6, <1>7 DEF Typed
<1>9. OneFile(p) /\ db'[p] = NoFile
  BY NoFileType DEF RemoveSource, TypeOK, OneFile, OnlyFile
<1> QED BY <1>2, <1>3, <1>4, <1>6, <1>8, <1>9 DEF RemoveSource, Asks

LEMMA ImportProfileDoes ==
  ASSUME TypeOK, NEW p \in Profiles, ImportProfile(p)
  PROVE  \E j \in Slots :
         /\ Typed /\ Others(j) /\ Fresh(jobs'[j], "load", sources') /\ jobs[j].kind = "idle"
         /\ p \notin known /\ Apart("loads", {"load"})
         /\ sources' = sources \cup {p} /\ known' = known \cup {p} /\ handle' = handle \cup {p}
         /\ OneFile(p) /\ db'[p].exists
         /\ db'[p].sum = db'[p].row.v /\ db'[p].sum <= portal[p]
         /\ db'[p].row.meta => db'[p].row.ok
         /\ db'[p].row.v # 0 \/ db'[p].row = NoRow
         /\ ops' = ops + 1 /\ ops < MaxOps
         /\ UNCHANGED <<bundle, portal>>
<1>1. PICK j \in Free : jobs' = LoadIn(jobs, j, sources') BY DEF ImportProfile
<1>2. j \in Slots /\ jobs[j].kind = "idle" BY DEF Free
<1>3. sources' \in SUBSET Profiles /\ sources' = sources \cup {p} BY DEF ImportProfile, TypeOK
<1>4. Typed /\ Others(j) /\ Fresh(jobs'[j], "load", sources')
  <2> DEFINE srcs == sources'
  <2>1. jobs' = [jobs EXCEPT ![j] = Job("load", srcs)] BY <1>1 DEF LoadIn
  <2>2. srcs \in SUBSET Profiles BY <1>3
  <2> HIDE DEF srcs
  <2>3. Typed /\ Others(j) /\ Fresh(jobs'[j], "load", srcs) BY <1>2, <2>1, <2>2, FreshJob, KindsAre
  <2> QED BY <2>3 DEF srcs
<1> DEFINE row(v, kept) == IF v = 0 THEN NoRow ELSE [v |-> v, meta |-> kept, seasons |-> kept, ok |-> kept]
           file(v, kept) == [exists |-> TRUE, sum |-> v, synced |-> TRUE, row |-> row(v, kept)]
<1>5. PICK v \in 0 .. portal[p], kept \in BOOLEAN : db' = [db EXCEPT ![p] = file(v, kept)]
  BY DEF ImportProfile
<1>6. v \in Versions /\ v <= portal[p] BY ConstantsAssumption DEF TypeOK, Versions
<1>7. /\ row(v, kept) \in Rows /\ row(v, kept).v = v /\ (row(v, kept).meta => row(v, kept).ok)
      /\ row(v, kept).v # 0 \/ row(v, kept) = NoRow
  BY <1>6, NoRowType DEF Rows
<1> HIDE DEF row
<1>8. /\ file(v, kept) \in Files /\ file(v, kept).exists /\ file(v, kept).sum = v
      /\ file(v, kept).row = row(v, kept)
  BY <1>6, <1>7 DEF Files
<1> HIDE DEF file
<1>9. OneFile(p) /\ db'[p] = file(v, kept) BY <1>5, <1>8 DEF TypeOK, OneFile, OnlyFile
<1> QED BY <1>2, <1>3, <1>4, <1>6, <1>7, <1>8, <1>9 DEF ImportProfile, Asks

LEMMA OpenSeriesDoes ==
  ASSUME TypeOK, NEW p \in Profiles, OpenSeries(p)
  PROVE  \E j \in Slots :
         /\ Typed /\ Others(j) /\ Fresh(jobs'[j], "episodes", {p}) /\ jobs[j].kind = "idle"
         /\ p \in sources /\ bundle[p].v # 0 /\ Apart("enrich", {"enrich", "ingest"})
         /\ ops' = ops + 1 /\ ops < MaxOps
         /\ UNCHANGED <<sources, known, db, handle, bundle, portal>>
<1>1. PICK j \in Free : jobs' = [jobs EXCEPT ![j] = Job("episodes", {p})] BY DEF OpenSeries
<1>2. j \in Slots /\ jobs[j].kind = "idle" BY DEF Free
<1>3. {p} \in SUBSET Profiles OBVIOUS
<1>4. Typed /\ Others(j) /\ Fresh(jobs'[j], "episodes", {p}) BY <1>1, <1>2, <1>3, FreshJob, KindsAre
<1> QED BY <1>2, <1>4 DEF OpenSeries, Asks

LEMMA RestartDoes ==
  ASSUME TypeOK, Restart
  PROVE  \E a, b \in Slots :
         /\ Typed /\ a # b /\ "kill" \in Faults
         /\ Fresh(jobs'[a], "load", sources)
         /\ Fresh(jobs'[b], "idle", {}) \/ Fresh(jobs'[b], "fetch", sources)
         /\ \A i \in Slots \ {a, b} : Fresh(jobs'[i], "idle", {})
         /\ db' = Opened(db, sources) /\ handle' = OnDisk(db') /\ bundle' = NoRows
         /\ ops' = ops + 1 /\ ops < MaxOps
         /\ UNCHANGED <<sources, known, portal>>
<1>1. PICK a \in Slots, b \in Slots :
        /\ a # b
        /\ LET boot == LoadIn([j \in Slots |-> Idle], a, sources)
           IN jobs' \in {[boot EXCEPT ![b] = FetchJob(sources, FALSE)]} \cup
                        {js \in {boot} : SyncFresh(db', handle')}
  BY DEF Restart
<1> DEFINE boot == LoadIn([j \in Slots |-> Idle], a, sources)
<1>2. jobs' = [boot EXCEPT ![b] = FetchJob(sources, FALSE)] \/ jobs' = boot BY <1>1
<1>3. sources \in SUBSET Profiles BY DEF TypeOK
<1>4. Job("load", sources) \in JobType /\ Fresh(Job("load", sources), "load", sources)
  BY <1>3, JobTypes, KindsAre DEF Fresh
<1>5. Idle \in JobType /\ Fresh(Idle, "idle", {}) BY IdleType DEF Fresh
<1>6. FetchJob(sources, FALSE) \in JobType /\ Fresh(FetchJob(sources, FALSE), "fetch", sources)
  <2> DEFINE job == FetchJob(sources, FALSE)
  <2>1. job = FetchJob(sources, TRUE) \/ job = FetchJob(sources, FALSE) OBVIOUS
  <2> HIDE DEF job
  <2>2. job \in JobType /\ Fresh(job, "fetch", sources) BY ZenonT(40), <1>3, <2>1, FetchJobType DEF Fresh
  <2> QED BY <2>2 DEF job
<1>7. /\ boot \in [Slots -> JobType] /\ boot[a] = Job("load", sources)
      /\ \A i \in Slots : i # a => boot[i] = Idle
  BY <1>4, <1>5 DEF LoadIn
<1> HIDE DEF boot
<1>8. /\ Typed /\ jobs'[a] = Job("load", sources)
      /\ jobs'[b] \in {Idle, FetchJob(sources, FALSE)}
      /\ \A i \in Slots \ {a, b} : jobs'[i] = Idle
  BY <1>1, <1>2, <1>6, <1>7 DEF Typed
<1>9. /\ "kill" \in Faults /\ ops' = ops + 1 /\ ops < MaxOps
      /\ db' = Opened(db, sources) /\ handle' = OnDisk(db') /\ bundle' = NoRows
      /\ UNCHANGED <<sources, known, portal>>
  BY DEF Restart, Asks
<1>10. /\ Fresh(jobs'[a], "load", sources)
       /\ Fresh(jobs'[b], "idle", {}) \/ Fresh(jobs'[b], "fetch", sources)
       /\ \A i \in Slots \ {a, b} : Fresh(jobs'[i], "idle", {})
  BY <1>4, <1>5, <1>6, <1>8
<1> QED BY <1>1, <1>8, <1>9, <1>10

-----------------------------------------------------------------------------
\* The shape of a state.

Handles(j, p) == jobs[j].kind = "ingest" /\ p \in jobs[j].ps /\ p \notin jobs[j].lost

\* An ingest at work has a profile at hand, whose dump it has and whose file is there
\* unless the profile was removed; a fetch that has a dump counts it as answered; the page
\* of a series has its profile; a row without a version is none.
JobsOK ==
  \A j \in Slots :
    /\ jobs[j].kind = "ingest" => jobs[j].at \in {"new", "sum", "read", "commit", "write", "mark"}
    /\ jobs[j].kind = "ingest" /\ jobs[j].at \in {"read", "commit", "write", "mark"} => jobs[j].ps # {}
    /\ jobs[j].kind = "load" => jobs[j].at \in {"new", "rows"}
    /\ jobs[j].kind = "episodes" => jobs[j].ps # {}
    /\ jobs[j].kind = "episodes" /\ jobs[j].at = "copied" => jobs[j].rows[At(j)].v # 0
    /\ \A p \in Profiles :
         /\ jobs[j].kind = "ingest" /\ p \in jobs[j].ps => jobs[j].dumps[p] # 0
         /\ Handles(j, p) /\ jobs[j].at # "new" => db[p].exists
         /\ jobs[j].kind = "fetch" /\ jobs[j].dumps[p] # 0 => jobs[j].rows[p].v # 0
         /\ jobs[j].kind = "load" => jobs[j].rows[p].v # 0 \/ jobs[j].rows[p] = NoRow
RowsOK == \A p \in Profiles : db[p].row.v # 0 \/ db[p].row = NoRow

\* Nobody has seen a profile whose identifier was not given.
KnownOK ==
  \A p \in Profiles \ known :
    /\ db[p] = NoFile /\ bundle[p] = NoRow
    /\ \A j \in Slots : p \notin jobs[j].ps /\ jobs[j].dumps[p] = 0 /\ jobs[j].rows[p] = NoRow

Shape == TypeOK /\ JobsOK /\ RowsOK /\ KnownOK

LEMMA InitShape == Init => Shape
<1> SUFFICES ASSUME Init PROVE Shape OBVIOUS
<1>1. sources \in SUBSET Profiles /\ known = sources /\ handle = sources BY DEF Init
<1>2. /\ db = Opened([p \in Profiles |-> NoFile], sources) /\ [p \in Profiles |-> NoFile] \in [Profiles -> Files]
  BY NoFileType DEF Init
<1>3. /\ db \in [Profiles -> Files] /\ \A p \in sources : db[p].exists
      /\ \A p \in Profiles : db[p] = NoFile \/ (p \in sources /\ db[p] = EmptyFile)
  BY <1>1, <1>2, OpenedType
<1>4. \A j \in Slots : jobs[j] = Idle BY DEF Init
<1>5. NoDumps \in [Profiles -> Versions] /\ \A p \in Profiles : NoDumps[p] = 0
  BY ConstantsAssumption DEF NoDumps, Versions
<1>6. TypeOK
  BY <1>1, <1>3, NoRowsType, IdleType, EmptyFileType, NoFileType, ConstantsAssumption
  DEF Init, TypeOK, OnDisk, Versions
<1>7. JobsOK BY <1>4, IdleType DEF JobsOK, Handles
<1>8. RowsOK BY <1>3, EmptyFileType, NoFileType DEF RowsOK
<1>9. KnownOK BY <1>1, <1>3, <1>4, <1>5, IdleType, NoRowsType DEF KnownOK, Init
<1> QED BY <1>6, <1>7, <1>8, <1>9 DEF Shape

LEMMA NoDumpsType == NoDumps \in [Profiles -> Versions] /\ \A p \in Profiles : NoDumps[p] = 0
BY ConstantsAssumption DEF NoDumps, Versions

LEMMA IngestReadsShape ==
  ASSUME TypeOK, JobsOK, NEW j \in Slots, IngestReads(j)
  PROVE  /\ Typed /\ Others(j) /\ SameBeside(j)
         /\ Step(j, "read") /\ jobs'[j].at = "commit"
         /\ \A q \in Profiles : q # At(j) => jobs'[j].rows[q] = jobs[j].rows[q]
         /\ UNCHANGED <<sources, known, db, handle, bundle, portal, ops>>
<1> DEFINE p == At(j)
           row == Enriched(db[p].row)
           new == [jobs[j] EXCEPT !.rows[p] = row, !.at = "commit"]
<1>1. p \in Profiles BY AtIn DEF JobsOK, IngestReads, Step
<1>2. row \in Rows BY <1>1, FileAt, NoRowType DEF Enriched
<1>3. jobs'[j] = new /\ Others(j) BY DEF IngestReads, TypeOK, Others
<1> HIDE DEF p, row
<1>4. /\ new \in JobType /\ new.kind = jobs[j].kind /\ new.ps = jobs[j].ps
      /\ new.dumps = jobs[j].dumps /\ new.lost = jobs[j].lost
      /\ new.rows = [jobs[j].rows EXCEPT ![p] = row] /\ new.at = "commit"
  BY <1>1, <1>2, JobAt DEF JobType
<1>5. jobs[j].rows \in [Profiles -> Rows] BY JobAt DEF JobType
<1>6. jobs' = [jobs EXCEPT ![j] = jobs'[j]] BY <1>3 DEF IngestReads, TypeOK, Others
<1> HIDE DEF new
<1>7. \A q \in Profiles : q # p => new.rows[q] = jobs[j].rows[q] BY <1>1, <1>4, <1>5
<1>8. Typed BY <1>3, <1>4, <1>6 DEF Typed, TypeOK
<1> QED BY <1>3, <1>4, <1>7, <1>8 DEF SameBeside, IngestReads, p

LEMMA ShapeStep ==
  ASSUME Shape, Next
  PROVE  Shape'
<1> USE DEF Shape
<1>t. /\ sources \subseteq known /\ known \subseteq Profiles /\ handle \subseteq Profiles
      /\ db \in [Profiles -> Files] /\ bundle \in [Profiles -> Rows] /\ portal \in [Profiles -> Versions]
      /\ jobs \in [Slots -> JobType] /\ ops \in 0 .. MaxOps
      /\ \A p \in handle : db[p].exists
      /\ \A p \in Profiles : db[p].exists \/ db[p] = NoFile
      /\ \A p \in Profiles : bundle[p].v # 0 \/ bundle[p] = NoRow
  BY DEF TypeOK, OnDisk
<1>f. \A j \in Slots : /\ jobs[j].dumps \in [Profiles -> Versions] /\ jobs[j].rows \in [Profiles -> Rows]
                       /\ jobs[j].ps \subseteq Profiles /\ jobs[j].lost \subseteq Profiles
  BY <1>t DEF JobType
<1> DEFINE Fits == /\ sources' \subseteq known' /\ known' \subseteq Profiles /\ handle' \subseteq Profiles
                   /\ db' \in [Profiles -> Files] /\ bundle' \in [Profiles -> Rows]
                   /\ portal' \in [Profiles -> Versions] /\ Typed /\ ops' \in 0 .. MaxOps
                   /\ \A p \in handle' : db'[p].exists
                   /\ \A p \in Profiles : db'[p].exists \/ db'[p] = NoFile
                   /\ \A p \in Profiles : bundle'[p].v # 0 \/ bundle'[p] = NoRow
<1>q. ASSUME Fits, JobsOK', RowsOK', KnownOK' PROVE Shape'
  BY <1>q DEF TypeOK, Typed, OnDisk
<1>1. ASSUME NEW j \in Slots, NEW p \in Profiles, Fetches(j, p) PROVE Shape'
  <2>1. Fits BY <1>1, <1>t, FetchesDoes
  <2>2. JobsOK' BY <1>1, <1>t, FetchesDoes DEF JobsOK, Handles, Others, Keeps, At
  <2>3. RowsOK' /\ KnownOK' BY <1>1, <1>t, FetchesDoes DEF RowsOK, KnownOK, Others, Keeps
  <2> QED BY <1>q, <2>1, <2>2, <2>3
<1>2. ASSUME NEW j \in Slots, NEW p \in Profiles, LoadReads(j, p) PROVE Shape'
  <2>1. Fits BY <1>2, <1>t, LoadReadsDoes
  <2>a. Loaded(db[p].row).v # 0 \/ Loaded(db[p].row) = NoRow BY FileAt, LoadedType DEF RowsOK
  <2>2. JobsOK' BY <1>2, <1>t, <2>a, LoadReadsDoes DEF JobsOK, Handles, Others, At
  <2>b. p \in known BY <1>2, LoadReadsDoes DEF KnownOK
  <2>3. RowsOK' /\ KnownOK' BY <1>2, <1>t, <2>b, LoadReadsDoes DEF RowsOK, KnownOK, Others
  <2> QED BY <1>q, <2>1, <2>2, <2>3
<1>3. ASSUME NEW j \in Slots, IngestStarts(j) PROVE Shape'
  <2>1. Fits BY <1>3, <1>t, IngestStartsDoes
  <2>2. JobsOK' BY <1>3, <1>t, IngestStartsDoes, IdleType DEF JobsOK, Handles, Others, At
  <2>3. RowsOK' /\ KnownOK'
    BY <1>3, <1>t, IngestStartsDoes, IdleType, NoRowsType, NoDumpsType DEF RowsOK, KnownOK, Others
  <2> QED BY <1>q, <2>1, <2>2, <2>3
<1>4. ASSUME NEW j \in Slots, IngestOpens(j) PROVE Shape'
  <2>a. /\ db' \in [Profiles -> Files] /\ \A p \in jobs[j].ps : db'[p].exists
        /\ \A p \in Profiles : \/ db'[p] = db[p]
                               \/ p \in jobs[j].ps /\ ~db[p].exists /\ db'[p] = EmptyFile
    BY <1>4, <1>t, <1>f, IngestOpensDoes, OpenedType
  <2>1. Fits BY <1>4, <1>t, <2>a, EmptyFileType, IngestOpensDoes
  <2>2. JobsOK' BY <1>4, <1>t, <2>a, EmptyFileType, IngestOpensDoes DEF JobsOK, Handles, Others, At, SameBeside, Step
  <2>3. RowsOK' /\ KnownOK'
    BY <1>4, <1>t, <2>a, IngestOpensDoes, EmptyFileType DEF RowsOK, KnownOK, Others, SameBeside
  <2> QED BY <1>q, <2>1, <2>2, <2>3
<1>5. ASSUME NEW j \in Slots, IngestCompares(j) PROVE Shape'
  <2>1. Fits BY <1>5, <1>t, IngestComparesDoes
  <2>2. JobsOK' BY <1>5, <1>t, IngestComparesDoes DEF JobsOK, Handles, Others, At, SameBeside, Step
  <2>3. RowsOK' /\ KnownOK' BY <1>5, <1>t, IngestComparesDoes DEF RowsOK, KnownOK, Others, SameBeside
  <2> QED BY <1>q, <2>1, <2>2, <2>3
<1>6. ASSUME NEW j \in Slots, IngestReads(j) PROVE Shape'
  <2>1. Fits BY <1>6, <1>t, IngestReadsShape
  <2>2. JobsOK' BY <1>6, <1>t, IngestReadsShape DEF JobsOK, Handles, Others, At, SameBeside, Step
  <2>p. jobs[j].ps # {} BY <1>6 DEF JobsOK, IngestReads, Step
  <2>a. At(j) \in jobs[j].ps BY <2>p, AtIn
  <2>3. RowsOK' /\ KnownOK'
    BY <1>6, <1>t, <2>a, IngestReadsShape DEF RowsOK, KnownOK, Others, SameBeside
  <2> QED BY <1>q, <2>1, <2>2, <2>3
<1>7. ASSUME NEW j \in Slots, IngestCommits(j) \/ IngestWritesSum(j) \/ IngestMarks(j) PROVE Shape'
  <2>p. jobs[j].ps # {} /\ jobs[j].kind = "ingest" /\ jobs[j].at \in {"commit", "write", "mark"}
    BY <1>7 DEF JobsOK, IngestCommits, IngestWritesSum, IngestMarks, Step
  <2> DEFINE p == At(j)
  <2>a. p \in jobs[j].ps /\ p \in Profiles BY <2>p, AtIn
  <2>b. jobs[j].dumps[p] # 0 BY <2>a, <2>p DEF JobsOK
  <2>c. /\ Typed /\ Others(j) /\ jobs'[j].kind = "ingest"
        /\ jobs'[j].ps \subseteq jobs[j].ps
        /\ jobs'[j].dumps = jobs[j].dumps /\ jobs'[j].lost = jobs[j].lost /\ jobs'[j].rows = jobs[j].rows
        /\ jobs'[j].at \in {"write", "mark", "sum"} /\ (jobs'[j].ps = {} => jobs'[j].at = "sum")
        /\ UNCHANGED <<sources, known, handle, bundle, portal, ops>>
    BY <1>7, <2>p, JobAt, IngestCommitsDoes, IngestWritesSumDoes, IngestMarksDoes, PastType DEF SameBeside
  <2>d. /\ OneFile(p) /\ (p \in jobs[j].lost => db' = db)
        /\ p \notin jobs[j].lost => /\ db'[p].exists = db[p].exists
                                    /\ db'[p].row = db[p].row \/ db'[p].row.v = jobs[j].dumps[p]
    BY <1>7, <2>p, IngestCommitsDoes, IngestWritesSumDoes, IngestMarksDoes
  <2> HIDE DEF p
  <2>e. p \in jobs[j].lost \/ db[p].exists BY <2>a, <2>p DEF JobsOK, Handles
  <2>f. \A q \in Profiles : db'[q].exists = db[q].exists
    <3>1. CASE p \in jobs[j].lost BY <2>d, <3>1
    <3>2. CASE p \notin jobs[j].lost
      <4>1. db'[p].exists = db[p].exists BY <2>d, <3>2
      <4>2. \A q \in Profiles : q # p => db'[q] = db[q] BY <2>d DEF OneFile, OnlyFile
      <4> QED BY <4>1, <4>2
    <3> QED BY <3>1, <3>2
  <2>1. Fits BY <1>t, <2>c, <2>d, <2>e, <2>f, <2>a DEF OneFile, OnlyFile
  <2>2. JobsOK' BY <1>t, <2>c, <2>f, <2>p DEF JobsOK, Handles, Others, At
  <2>3. RowsOK' BY <2>b, <2>d, <2>a DEF RowsOK, OneFile, OnlyFile
  <2>4. KnownOK' BY <1>t, <2>a, <2>c, <2>d DEF KnownOK, OneFile, OnlyFile, Others
  <2> QED BY <1>q, <2>1, <2>2, <2>3, <2>4
<1>8. ASSUME NEW j \in Slots, IngestFails(j) PROVE Shape'
  <2>1. Fits BY <1>8, <1>t, IngestFailsDoes
  <2>2. JobsOK' BY <1>8, <1>t, IngestFailsDoes, IdleType, PastType, JobAt DEF JobsOK, Handles, Others, At, Step
  <2>3. RowsOK' /\ KnownOK'
    BY <1>8, <1>t, IngestFailsDoes, IdleType, NoRowsType, NoDumpsType, PastType, JobAt DEF RowsOK, KnownOK, Others
  <2> QED BY <1>q, <2>1, <2>2, <2>3
<1>9. ASSUME NEW j \in Slots, IngestDone(j) PROVE Shape'
  <2>a. sources \in SUBSET Profiles BY <1>t
  <2>1. Fits BY <1>9, <1>t, <2>a, IngestDoneDoes
  <2>2. JobsOK' BY <1>9, <1>t, <2>a, IngestDoneDoes, NoRowsType DEF JobsOK, Handles, Others, At, Fresh
  <2>3. RowsOK' /\ KnownOK'
    BY <1>9, <1>t, <2>a, IngestDoneDoes, NoRowsType, NoDumpsType DEF RowsOK, KnownOK, Others, Fresh
  <2> QED BY <1>q, <2>1, <2>2, <2>3
<1>10. ASSUME NEW j \in Slots, LoadOpens(j) PROVE Shape'
  <2>a. /\ db' \in [Profiles -> Files] /\ \A p \in jobs[j].ps : db'[p].exists
        /\ \A p \in Profiles : \/ db'[p] = db[p]
                               \/ p \in jobs[j].ps /\ ~db[p].exists /\ db'[p] = EmptyFile
    BY <1>10, <1>t, <1>f, LoadOpensDoes, OpenedType
  <2>1. Fits BY <1>10, <1>t, <2>a, EmptyFileType, LoadOpensDoes
  <2>2. JobsOK' BY <1>10, <1>t, <2>a, EmptyFileType, LoadOpensDoes DEF JobsOK, Handles, Others, At, SameBeside
  <2>3. RowsOK' /\ KnownOK'
    BY <1>10, <1>t, <2>a, LoadOpensDoes, EmptyFileType DEF RowsOK, KnownOK, Others, SameBeside
  <2> QED BY <1>q, <2>1, <2>2, <2>3
<1>11. ASSUME NEW j \in Slots, BundleCacheReady(j) \/ LoadFails(j) PROVE Shape'
  <2>a. \A p \in Profiles \ known : jobs[j].rows[p] = NoRow BY DEF KnownOK
  <2>b. BundleCacheReady(j) => \A p \in Profiles : jobs[j].rows[p].v # 0 \/ jobs[j].rows[p] = NoRow
    BY BundleCacheReadyDoes DEF JobsOK
  <2>1. Fits BY <1>11, <1>t, <1>f, <2>b, BundleCacheReadyDoes, LoadFailsDoes
  <2>2. JobsOK' BY <1>11, <1>t, BundleCacheReadyDoes, LoadFailsDoes DEF JobsOK, Handles, Others, At, Fresh
  <2>c. \A p \in Profiles \ known : p \notin jobs'[j].ps
    BY <1>11, <2>a, NoRowType, BundleCacheReadyDoes, LoadFailsDoes DEF Fresh
  <2>d. jobs'[j].dumps = NoDumps /\ jobs'[j].rows = NoRows
    BY <1>11, BundleCacheReadyDoes, LoadFailsDoes DEF Fresh
  <2>3. RowsOK' /\ KnownOK'
    BY <1>11, <1>t, <2>a, <2>c, <2>d, BundleCacheReadyDoes, LoadFailsDoes, NoRowsType, NoDumpsType DEF RowsOK, KnownOK, Others
  <2> QED BY <1>q, <2>1, <2>2, <2>3
<1>12. ASSUME NEW j \in Slots, MetaEnriched(j) PROVE Shape'
  <2>a. \A p \in Profiles :
          /\ db'[p].exists = db[p].exists /\ (db'[p] = db[p] \/ (db'[p].row.v # 0 /\ db[p].exists))
          /\ bundle'[p].v = bundle[p].v /\ (bundle[p].v # 0 \/ bundle'[p] = bundle[p])
          /\ bundle[p].v = 0 => db'[p] = db[p]
    BY <1>12, <1>t, MetaEnrichedDoes, NoFileType, NoRowType DEF SavedAs
  <2>b. /\ Typed /\ Others(j) /\ jobs'[j].kind = "idle" /\ jobs'[j].ps = {}
        /\ jobs'[j].dumps = NoDumps /\ jobs'[j].rows = NoRows
        /\ db' \in [Profiles -> Files] /\ bundle' \in [Profiles -> Rows]
        /\ UNCHANGED <<sources, known, handle, portal, ops>>
    BY <1>12, MetaEnrichedDoes DEF Fresh
  <2>1. Fits BY <1>t, <2>a, <2>b
  <2>2. JobsOK' BY <2>a, <2>b DEF JobsOK, Handles, Others, At
  <2>3. RowsOK' BY <2>a DEF RowsOK
  <2>4. KnownOK' BY <1>t, <2>a, <2>b, NoRowsType, NoRowType, NoDumpsType DEF KnownOK, Others
  <2> QED BY <1>q, <2>1, <2>2, <2>3, <2>4
<1>13. ASSUME NEW j \in Slots, SeriesDetailLoaded(j) PROVE Shape'
  <2>p. jobs[j].kind = "episodes" => jobs[j].ps # {} BY DEF JobsOK
  <2>1. Fits BY <1>13, <1>t, <2>p, SeriesDetailLoadedDoes
  <2>2. JobsOK' BY <1>13, <1>t, <2>p, SeriesDetailLoadedDoes DEF JobsOK, Handles, Others, At, Fresh, SameBeside
  <2>a. jobs[j].ps # {} => At(j) \in jobs[j].ps /\ At(j) \in known
    BY AtIn DEF KnownOK
  <2>3. RowsOK' BY <1>13, <2>p, SeriesDetailLoadedDoes DEF RowsOK
  <2>4. KnownOK'
    BY <1>13, <1>t, <2>p, <2>a, SeriesDetailLoadedDoes, NoRowsType, NoRowType, NoDumpsType
    DEF KnownOK, Others, Fresh, SameBeside
  <2> QED BY <1>q, <2>1, <2>2, <2>3, <2>4
<1>14. ASSUME NEW j \in Slots, SeriesEpisodesEnriched(j) PROVE Shape'
  <2>p. jobs[j].kind = "episodes" => jobs[j].ps # {} BY DEF JobsOK
  <2>q. jobs[j].kind = "episodes" /\ jobs[j].at = "copied" BY <1>14, <2>p, SeriesEpisodesEnrichedDoes
  <2> DEFINE p == At(j)
  <2>a. p \in Profiles /\ p \in jobs[j].ps BY <2>p, <2>q, AtIn
  <2>b. jobs[j].rows[p].v # 0 BY <2>q DEF JobsOK
  <2>c. OneFile(p) /\ SavedAs(p, jobs[j].rows[p].v, jobs[j].rows[p].meta) BY <1>14, <2>p, SeriesEpisodesEnrichedDoes
  <2> HIDE DEF p
  <2>d. \A q \in Profiles : /\ db'[q].exists = db[q].exists
                            /\ db'[q] = db[q] \/ (q = p /\ db'[q].row.v # 0 /\ db[q].exists)
    BY <1>t, <2>a, <2>b, <2>c, NoFileType, NoRowType DEF OneFile, OnlyFile, SavedAs
  <2>1. Fits BY <1>14, <1>t, <2>d, <2>p, <2>c, SeriesEpisodesEnrichedDoes DEF OneFile
  <2>2. JobsOK' BY <1>14, <1>t, <2>d, <2>p, SeriesEpisodesEnrichedDoes DEF JobsOK, Handles, Others, At, Fresh
  <2>3. RowsOK' BY <2>d DEF RowsOK
  <2>e. p \in known BY <2>a DEF KnownOK
  <2>4. KnownOK'
    BY <1>14, <1>t, <2>p, <2>d, <2>e, SeriesEpisodesEnrichedDoes, NoRowsType, NoRowType, NoDumpsType DEF KnownOK, Others, Fresh
  <2> QED BY <1>q, <2>1, <2>2, <2>3, <2>4
<1>15. ASSUME NEW p \in Profiles, AddSource(p) PROVE Shape'
  <2>1. PICK j \in Slots :
         /\ Typed /\ Others(j) /\ Fresh(jobs'[j], "fetch", {p})
         /\ p \notin known
         /\ sources' = sources \cup {p} /\ known' = known \cup {p}
         /\ db' = Opened(db, sources') /\ handle' = OnDisk(db')
         /\ ops' = ops + 1 /\ ops < MaxOps
         /\ UNCHANGED <<bundle, portal>>
    BY <1>15, AddSourceDoes
  <2>a. sources' \in SUBSET Profiles BY <1>t, <2>1
  <2> DEFINE srcs == sources'
  <2> HIDE DEF srcs
  <2>b. srcs \in SUBSET Profiles /\ db' = Opened(db, srcs) BY <2>a, <2>1 DEF srcs
  <2>c. /\ db' \in [Profiles -> Files]
        /\ \A q \in Profiles : \/ db'[q] = db[q]
                               \/ q \in srcs /\ ~db[q].exists /\ db'[q] = EmptyFile
    BY <1>t, <2>b, OpenedType
  <2>d. srcs \subseteq known' /\ \A q \in handle' : q \in Profiles /\ db'[q].exists
    BY <1>t, <2>1 DEF srcs, OnDisk
  <2>e. /\ Typed /\ Others(j) /\ jobs'[j].kind = "fetch" /\ jobs'[j].at = "new"
        /\ \A q \in jobs'[j].ps : q \in known'
        /\ jobs'[j].dumps = NoDumps /\ jobs'[j].rows = NoRows
    BY <2>1 DEF Fresh
  <2>f. /\ sources' \subseteq known' /\ known' \subseteq Profiles /\ ops' \in 0 .. MaxOps
        /\ UNCHANGED <<bundle, portal>> /\ known \subseteq known'
    BY <1>t, <2>1, ConstantsAssumption
  <2>3. Fits BY <1>t, <2>c, <2>d, <2>e, <2>f, EmptyFileType
  <2>4. JobsOK' BY <2>c, <2>e, EmptyFileType, NoRowsType, NoDumpsType DEF JobsOK, Handles, Others, At
  <2>5. RowsOK' BY <2>c, EmptyFileType DEF RowsOK
  <2>6. KnownOK'
    BY <2>c, <2>d, <2>e, <2>f, NoRowsType, NoDumpsType DEF KnownOK, Others
  <2> QED BY <1>q, <2>3, <2>4, <2>5, <2>6
<1>16. ASSUME NEW p \in Profiles, ReloadSource(p) \/ OpenSeries(p) PROVE Shape'
  <2>1. PICK j \in Slots :
         /\ Typed /\ Others(j)
         /\ Fresh(jobs'[j], "fetch", {p}) \/ Fresh(jobs'[j], "episodes", {p})
         /\ p \in sources
         /\ ops' = ops + 1 /\ ops < MaxOps
         /\ UNCHANGED <<sources, known, db, handle, bundle, portal>>
    BY <1>16, ReloadSourceDoes, OpenSeriesDoes
  <2>2. Fits BY <1>t, <2>1, ConstantsAssumption
  <2>a. /\ jobs'[j].kind \in {"fetch", "episodes"} /\ jobs'[j].at = "new" /\ jobs'[j].ps # {}
        /\ jobs'[j].dumps = NoDumps /\ jobs'[j].rows = NoRows
        /\ \A q \in Profiles : q \in jobs'[j].ps => q \in known
    BY <1>t, <2>1 DEF Fresh
  <2>3. JobsOK' BY <2>1, <2>a, NoRowsType, NoDumpsType DEF JobsOK, Handles, Others, At
  <2>4. RowsOK' /\ KnownOK' BY <2>1, <2>a, NoRowsType, NoDumpsType DEF RowsOK, KnownOK, Others
  <2> QED BY <1>q, <2>2, <2>3, <2>4
<1>17. ASSUME NEW p \in Profiles, RemoveSource(p) PROVE Shape'
  <2>1. PICK j \in Slots :
         /\ Typed /\ Fresh(jobs'[j], "load", sources')
         /\ \A i \in Slots : i # j => OrphanedOf(jobs'[i], jobs[i], p)
         /\ p \in sources
         /\ sources' = sources \ {p} /\ handle' = handle \ {p}
         /\ OneFile(p) /\ db'[p] = NoFile
         /\ ops' = ops + 1 /\ ops < MaxOps
         /\ UNCHANGED <<known, bundle, portal>>
    BY <1>17, RemoveSourceDoes
  <2>a. Loaded(db[p].row) \in Rows /\ (Loaded(db[p].row).v # 0 \/ Loaded(db[p].row) = NoRow)
    BY FileAt, LoadedType DEF RowsOK
  <2>b. \A i \in Slots \ {j} :
          /\ jobs'[i].kind = jobs[i].kind /\ jobs'[i].at = jobs[i].at /\ jobs'[i].dumps = jobs[i].dumps
          /\ jobs'[i].ps \subseteq jobs[i].ps /\ jobs[i].lost \subseteq jobs'[i].lost
          /\ jobs[i].kind = "ingest" => jobs'[i].ps = jobs[i].ps
          /\ jobs[i].kind = "ingest" /\ jobs[i].at # "new" => p \in jobs'[i].lost
          /\ jobs'[i] = jobs[i] \/ jobs[i].kind # "episodes"
          /\ \A q \in Profiles : \/ jobs'[i].rows[q] = jobs[i].rows[q]
                                 \/ q = p /\ jobs[i].kind = "load" /\ jobs'[i].rows[q] = Loaded(db[p].row)
    BY <1>t, <2>1, ReadsType DEF OrphanedOf
  <2>2. Fits BY <1>t, <2>1, NoFileType, ConstantsAssumption DEF OneFile, OnlyFile
  <2>3. JobsOK' BY <1>t, <2>1, <2>a, <2>b, NoRowsType, NoDumpsType DEF JobsOK, Handles, At, Fresh, OneFile, OnlyFile
  <2>4. RowsOK' BY <2>1, NoFileType DEF RowsOK, OneFile, OnlyFile
  <2>5. KnownOK'
    BY <1>t, <2>1, <2>b, NoRowsType, NoDumpsType DEF KnownOK, Fresh, OneFile, OnlyFile
  <2> QED BY <1>q, <2>2, <2>3, <2>4, <2>5
<1>18. ASSUME NEW p \in Profiles, ImportProfile(p) PROVE Shape'
  <2>1. PICK j \in Slots :
         /\ Typed /\ Others(j) /\ Fresh(jobs'[j], "load", sources')
         /\ p \notin known
         /\ sources' = sources \cup {p} /\ known' = known \cup {p} /\ handle' = handle \cup {p}
         /\ OneFile(p) /\ db'[p].exists
         /\ db'[p].row.v # 0 \/ db'[p].row = NoRow
         /\ ops' = ops + 1 /\ ops < MaxOps
         /\ UNCHANGED <<bundle, portal>>
    BY <1>18, ImportProfileDoes
  <2>2. Fits BY <1>t, <2>1, ConstantsAssumption DEF OneFile, OnlyFile
  <2>3. JobsOK' BY <1>t, <2>1, NoRowsType, NoDumpsType DEF JobsOK, Handles, Others, At, Fresh, OneFile, OnlyFile
  <2>4. RowsOK' BY <2>1 DEF RowsOK, OneFile, OnlyFile
  <2>5. KnownOK'
    BY <1>t, <2>1, NoRowsType, NoDumpsType DEF KnownOK, Others, Fresh, OneFile, OnlyFile
  <2> QED BY <1>q, <2>2, <2>3, <2>4, <2>5
<1>19. ASSUME NEW p \in Profiles, PortalChanges(p) PROVE Shape'
  <2>1. Fits /\ UNCHANGED <<sources, known, db, handle, bundle, jobs, ops>>
    BY <1>19, <1>t, ConstantsAssumption DEF PortalChanges, Typed, Versions
  <2> QED BY <1>q, <2>1 DEF JobsOK, Handles, At, RowsOK, KnownOK
<1>20. ASSUME Restart PROVE Shape'
  <2>1. PICK a, b \in Slots :
         /\ Typed /\ a # b
         /\ Fresh(jobs'[a], "load", sources)
         /\ Fresh(jobs'[b], "idle", {}) \/ Fresh(jobs'[b], "fetch", sources)
         /\ \A i \in Slots \ {a, b} : Fresh(jobs'[i], "idle", {})
         /\ db' = Opened(db, sources) /\ handle' = OnDisk(db') /\ bundle' = NoRows
         /\ ops' = ops + 1 /\ ops < MaxOps
         /\ UNCHANGED <<sources, known, portal>>
    BY <1>20, RestartDoes
  <2>a. sources \in SUBSET Profiles BY <1>t
  <2>b. /\ db' \in [Profiles -> Files]
        /\ \A q \in Profiles : \/ db'[q] = db[q]
                               \/ q \in sources /\ ~db[q].exists /\ db'[q] = EmptyFile
    BY <1>t, <2>a, <2>1, OpenedType
  <2>2. Fits BY <1>t, <2>1, <2>b, EmptyFileType, NoRowsType, ConstantsAssumption DEF OnDisk
  <2>c. \A i \in Slots : /\ jobs'[i].kind \in {"idle", "load", "fetch"} /\ jobs'[i].at = "new"
                         /\ jobs'[i].ps \subseteq sources
                         /\ jobs'[i].dumps = NoDumps /\ jobs'[i].rows = NoRows
    BY <2>1 DEF Fresh
  <2>3. JobsOK' BY <2>c, NoRowsType, NoDumpsType DEF JobsOK, Handles
  <2>4. RowsOK' BY <2>b, EmptyFileType DEF RowsOK
  <2>5. KnownOK' BY <1>t, <2>1, <2>b, <2>c, NoRowsType, NoDumpsType DEF KnownOK
  <2> QED BY <1>q, <2>2, <2>3, <2>4, <2>5
<1> QED
  BY <1>1, <1>2, <1>3, <1>4, <1>5, <1>6, <1>7, <1>8, <1>9, <1>10, <1>11, <1>12, <1>13, <1>14,
     <1>15, <1>16, <1>17, <1>18, <1>19, <1>20 DEF Next

-----------------------------------------------------------------------------
\* What an enrichment found.

\* A copy of a row, if there is one, says of the metadata what the file says.
AsKept(row, p) == row.v # 0 => db[p].row.v # 0 /\ (row.meta <=> db[p].row.meta)
Commits(j, p) == Handles(j, p) /\ p = At(j) /\ jobs[j].at = "commit"

OpenHere == sources \subseteq handle
PagesAlone == \A i, j \in Slots : ~(jobs[i].kind = "ingest" /\ jobs[j].kind = "episodes")
MetaMarked == \A p \in Profiles : db[p].row.meta => db[p].row.ok
ShownAsKept == \A p \in sources : AsKept(bundle[p], p)
LoadsAsKept == \A j \in Slots, p \in sources : jobs[j].kind = "load" => AsKept(jobs[j].rows[p], p)

\* The page of a series of a profile that was removed has no row to go to.
CopiesAsKept ==
  \A j \in Slots : jobs[j].kind = "episodes" =>
    /\ At(j) \in sources /\ jobs[j].at = "copied" => AsKept(jobs[j].rows[At(j)], At(j))
    /\ At(j) \notin sources => db[At(j)].row.v = 0
IngestsAsKept ==
  \A j \in Slots, p \in Profiles : Commits(j, p) => (jobs[j].rows[p].meta <=> db[p].row.meta)

KeptInv ==
  /\ OpenHere /\ PagesAlone /\ MetaMarked
  /\ ShownAsKept /\ LoadsAsKept /\ CopiesAsKept /\ IngestsAsKept

LEMMA InitKept == Init => KeptInv
<1> SUFFICES ASSUME Init PROVE KeptInv OBVIOUS
<1>1. sources \in SUBSET Profiles /\ handle = sources BY DEF Init
<1>2. db = Opened([p \in Profiles |-> NoFile], sources) /\ [p \in Profiles |-> NoFile] \in [Profiles -> Files]
  BY NoFileType DEF Init
<1>3. \A p \in Profiles : db[p] = NoFile \/ (p \in sources /\ db[p] = EmptyFile)
  BY <1>1, <1>2, OpenedType
<1>4. \A j \in Slots : jobs[j] = Idle BY DEF Init
<1>5. \A p \in Profiles : bundle[p] = NoRow BY NoRowsType DEF Init
<1> QED
  BY <1>1, <1>3, <1>4, <1>5, NoRowType, IdleType, EmptyFileType, NoFileType
  DEF KeptInv, OpenHere, PagesAlone, MetaMarked, ShownAsKept, LoadsAsKept, CopiesAsKept, IngestsAsKept,
      AsKept, Commits, Handles

LEMMA KeptStep ==
  ASSUME "enrich" \notin Faults, Shape, KeptInv, Next
  PROVE  KeptInv' /\ KeepsEnrichment
<1> USE DEF Shape
<1> DEFINE Goal == KeptInv' /\ KeepsEnrichment
<1>t. /\ sources \subseteq known /\ known \subseteq Profiles
      /\ db \in [Profiles -> Files] /\ bundle \in [Profiles -> Rows] /\ jobs \in [Slots -> JobType]
  BY DEF TypeOK
<1>f. \A j \in Slots : jobs[j].ps \subseteq Profiles /\ jobs[j].rows \in [Profiles -> Rows]
  BY <1>t DEF JobType
<1>a. \A j \in Slots : jobs[j].kind = "episodes" => jobs[j].ps # {} /\ At(j) \in Profiles
  BY AtIn DEF JobsOK
<1>1. ASSUME NEW j \in Slots, NEW p \in Profiles, Fetches(j, p) PROVE Goal
  BY SMTT(30), <1>1, <1>t, FetchesDoes
  DEF KeptInv, OpenHere, PagesAlone, MetaMarked, ShownAsKept, LoadsAsKept, CopiesAsKept, IngestsAsKept,
      AsKept, Commits, Handles, KeepsEnrichment, Others, At
<1>2. ASSUME NEW j \in Slots, NEW p \in Profiles, LoadReads(j, p) PROVE Goal
  <2>1. AsKept(jobs'[j].rows[p], p) BY <1>2, FileAt, LoadedType, LoadReadsDoes DEF AsKept
  <2> QED
    BY <1>2, <1>t, <2>1, LoadReadsDoes
    DEF KeptInv, OpenHere, PagesAlone, MetaMarked, ShownAsKept, LoadsAsKept, CopiesAsKept, IngestsAsKept,
        AsKept, Commits, Handles, KeepsEnrichment, Others, At
<1>3. ASSUME NEW j \in Slots, IngestStarts(j) PROVE Goal
  <2>1. \A i \in Slots : jobs[i].kind # "episodes" BY <1>3, IngestStartsDoes DEF Apart, Running
  <2> QED
    BY <1>3, <1>t, <2>1, IngestStartsDoes, IdleType
    DEF KeptInv, OpenHere, PagesAlone, MetaMarked, ShownAsKept, LoadsAsKept, CopiesAsKept, IngestsAsKept,
        AsKept, Commits, Handles, KeepsEnrichment, Others, At
<1>4. ASSUME NEW j \in Slots, IngestOpens(j) \/ LoadOpens(j) PROVE Goal
  <2>1. /\ db' \in [Profiles -> Files]
        /\ \A p \in Profiles : db'[p] = db[p] \/ (~db[p].exists /\ db'[p] = EmptyFile)
    BY <1>4, <1>t, <1>f, IngestOpensDoes, LoadOpensDoes, OpenedType
  <2>2. \A p \in Profiles : db'[p].row = db[p].row
    BY <2>1, <1>t, EmptyFileType, NoFileType DEF TypeOK
  <2>3. /\ Others(j) /\ SameBeside(j) /\ jobs'[j].rows = jobs[j].rows
        /\ jobs[j].kind \in {"ingest", "load"} /\ jobs'[j].at \in {"sum", "rows"}
        /\ UNCHANGED <<sources, handle, bundle>>
    BY <1>4, IngestOpensDoes, LoadOpensDoes DEF Step
  <2>4. OpenHere' /\ PagesAlone' /\ MetaMarked'
    BY <1>t, <2>2, <2>3 DEF KeptInv, OpenHere, PagesAlone, MetaMarked, Others, SameBeside
  <2>5. ShownAsKept' /\ KeepsEnrichment
    BY <1>t, <2>2, <2>3 DEF KeptInv, ShownAsKept, AsKept, KeepsEnrichment
  <2>6. LoadsAsKept'
    BY <1>t, <2>2, <2>3 DEF KeptInv, LoadsAsKept, AsKept, Others, SameBeside
  <2>7. CopiesAsKept'
    <3>1. \A i \in Slots : jobs'[i].kind = "episodes" => i # j /\ jobs'[i] = jobs[i]
      BY <2>3 DEF Others, SameBeside
    <3> QED BY <1>a, <2>2, <2>3, <3>1 DEF KeptInv, CopiesAsKept, AsKept, At
  <2>8. IngestsAsKept'
    BY <2>2, <2>3 DEF KeptInv, IngestsAsKept, Commits, Handles, Others, SameBeside, At
  <2> QED BY <2>4, <2>5, <2>6, <2>7, <2>8 DEF KeptInv
<1>5. ASSUME NEW j \in Slots, IngestCompares(j) PROVE Goal
  BY <1>5, <1>t, IngestComparesDoes
  DEF KeptInv, OpenHere, PagesAlone, MetaMarked, ShownAsKept, LoadsAsKept, CopiesAsKept, IngestsAsKept,
      AsKept, Commits, Handles, KeepsEnrichment, Others, SameBeside, At, Step
<1>6. ASSUME NEW j \in Slots, IngestReads(j) PROVE Goal
  <2>p. jobs[j].ps # {} BY <1>6 DEF JobsOK, IngestReads, Step
  <2>a. At(j) \in Profiles BY <2>p, AtIn
  <2>1. jobs'[j].rows[At(j)].meta = db[At(j)].row.meta
    BY <1>6, <2>p, <2>a, IngestReadsDoes DEF KeptInv, MetaMarked
  <2>2. /\ Others(j) /\ SameBeside(j) /\ jobs[j].kind = "ingest" /\ At(j)' = At(j)
        /\ UNCHANGED <<sources, db, handle, bundle>>
    BY <1>6, IngestReadsShape DEF Step, SameBeside, At
  <2>3. \A p \in Profiles : Commits(j, p)' => p = At(j) BY <2>2 DEF Commits
  <2>4. OpenHere' /\ PagesAlone' /\ MetaMarked' /\ ShownAsKept' /\ LoadsAsKept' /\ CopiesAsKept' /\ KeepsEnrichment
    BY <2>2 DEF KeptInv, OpenHere, PagesAlone, MetaMarked, ShownAsKept, LoadsAsKept, CopiesAsKept,
                AsKept, KeepsEnrichment, Others, SameBeside, At
  <2>5. IngestsAsKept'
    BY <2>1, <2>2, <2>3 DEF KeptInv, IngestsAsKept, Commits, Handles, Others, At
  <2> QED BY <2>4, <2>5 DEF KeptInv
<1>7. ASSUME NEW j \in Slots, IngestCommits(j) \/ IngestWritesSum(j) \/ IngestMarks(j) PROVE Goal
  <2>p. jobs[j].ps # {} /\ jobs[j].kind = "ingest" /\ (IngestCommits(j) => jobs[j].at = "commit")
    BY <1>7 DEF JobsOK, IngestCommits, IngestWritesSum, IngestMarks, Step
  <2> DEFINE p == At(j)
  <2>a. p \in jobs[j].ps /\ p \in Profiles BY <2>p, AtIn
  <2>b. jobs[j].dumps[p] # 0 BY <2>a, <2>p DEF JobsOK
  <2>c. /\ Others(j) /\ jobs'[j].kind = "ingest" /\ jobs'[j].at # "commit"
        /\ UNCHANGED <<sources, handle, bundle>>
    BY <1>7, <2>p, JobAt, IngestCommitsDoes, IngestWritesSumDoes, IngestMarksDoes, PastType DEF SameBeside
  <2>d. IngestCommits(j) /\ p \notin jobs[j].lost => (jobs[j].rows[p].meta <=> db[p].row.meta)
    BY <2>a, <2>p DEF KeptInv, IngestsAsKept, Commits, Handles
  <2>e. /\ OneFile(p) /\ (p \in jobs[j].lost => db' = db)
        /\ p \notin jobs[j].lost =>
             \/ db'[p].row = db[p].row
             \/ /\ IngestCommits(j) /\ db'[p].row.v = jobs[j].dumps[p]
                /\ db'[p].row.meta = jobs[j].rows[p].meta /\ db'[p].row.ok = jobs[j].rows[p].meta
    BY <1>7, <2>p, IngestCommitsDoes, IngestWritesSumDoes, IngestMarksDoes
  <2> HIDE DEF p
  <2>f. \A q \in Profiles : /\ db[q].row.v # 0 => db'[q].row.v # 0
                            /\ db'[q].row.meta <=> db[q].row.meta
                            /\ db'[q].row.meta => db'[q].row.ok
    BY <2>a, <2>b, <2>d, <2>e DEF OneFile, OnlyFile, KeptInv, MetaMarked
  <2>g. \A i \in Slots : jobs[i].kind # "episodes" BY <2>p DEF KeptInv, PagesAlone
  <2>1. OpenHere' /\ PagesAlone' /\ MetaMarked' /\ ShownAsKept' /\ KeepsEnrichment
    BY <1>t, <2>c, <2>f, <2>g
    DEF KeptInv, OpenHere, PagesAlone, MetaMarked, ShownAsKept, AsKept, KeepsEnrichment, Others
  <2>2. LoadsAsKept' BY <1>t, <2>c, <2>f DEF KeptInv, LoadsAsKept, AsKept, Others
  <2>3. CopiesAsKept' BY <2>c, <2>g DEF CopiesAsKept, Others
  <2>4. IngestsAsKept' BY <2>c, <2>f DEF KeptInv, IngestsAsKept, Commits, Handles, Others, At
  <2> QED BY <2>1, <2>2, <2>3, <2>4 DEF KeptInv
<1>8. ASSUME NEW j \in Slots, IngestFails(j) PROVE Goal
  <2>1. /\ Others(j) /\ jobs[j].kind = "ingest" /\ jobs'[j].kind \in {"idle", "ingest"} /\ jobs'[j].at # "commit"
        /\ UNCHANGED <<sources, handle, bundle, db>>
    BY <1>8, JobAt, IngestFailsDoes, IdleType, PastType DEF Step
  <2> QED
    BY <1>t, <2>1
    DEF KeptInv, OpenHere, PagesAlone, MetaMarked, ShownAsKept, LoadsAsKept, CopiesAsKept, IngestsAsKept,
        AsKept, Commits, Handles, KeepsEnrichment, Others, At
<1>9. ASSUME NEW j \in Slots, IngestDone(j) \/ LoadFails(j) PROVE Goal
  <2>0. sources \in SUBSET Profiles BY <1>t
  <2>1. /\ Others(j) /\ jobs'[j].kind \in {"idle", "load"} /\ jobs'[j].rows = NoRows
        /\ UNCHANGED <<sources, handle, bundle, db>>
    BY <1>9, <2>0, IngestDoneDoes, LoadFailsDoes DEF Fresh
  <2> QED
    BY <1>t, <2>1, NoRowsType, NoRowType
    DEF KeptInv, OpenHere, PagesAlone, MetaMarked, ShownAsKept, LoadsAsKept, CopiesAsKept, IngestsAsKept,
        AsKept, Commits, Handles, KeepsEnrichment, Others, At
<1>10. ASSUME NEW j \in Slots, BundleCacheReady(j) PROVE Goal
  <2>1. /\ Others(j) /\ jobs[j].kind = "load" /\ jobs'[j].kind \in {"idle", "enrich"}
        /\ bundle' = jobs[j].rows
        /\ UNCHANGED <<sources, handle, db>>
    BY <1>10, BundleCacheReadyDoes DEF Fresh
  <2> QED
    BY <1>t, <2>1
    DEF KeptInv, OpenHere, PagesAlone, MetaMarked, ShownAsKept, LoadsAsKept, CopiesAsKept, IngestsAsKept,
        AsKept, Commits, Handles, KeepsEnrichment, Others, At
<1>11. ASSUME NEW j \in Slots, MetaEnriched(j) PROVE Goal
  <2>1. /\ Others(j) /\ jobs'[j].kind = "idle" /\ jobs[j].kind = "enrich" /\ UNCHANGED <<sources, handle>>
    BY <1>11, MetaEnrichedDoes DEF Fresh
  <2>2. \A i \in Slots : jobs[i].kind \notin {"ingest", "load", "episodes"}
    BY <1>11, MetaEnrichedDoes DEF Apart, Running
  <2>3. \A i \in Slots : jobs'[i].kind \notin {"ingest", "load", "episodes"}
    BY <2>1, <2>2 DEF Others
  <2>4. \A p \in Profiles :
          \/ bundle'[p] = bundle[p] /\ db'[p] = db[p]
          \/ /\ bundle[p].v # 0 /\ bundle'[p].meta
             /\ IF p \in handle /\ db[p].row.v # 0
                THEN db'[p].row.v # 0 /\ db'[p].row.meta /\ db'[p].row.ok
                ELSE db'[p] = db[p]
    BY <1>11, MetaEnrichedDoes DEF SavedAs
  <2>5. OpenHere' /\ PagesAlone' /\ LoadsAsKept' /\ CopiesAsKept' /\ IngestsAsKept'
    BY <2>1, <2>3 DEF KeptInv, OpenHere, PagesAlone, LoadsAsKept, CopiesAsKept, IngestsAsKept, Commits, Handles
  <2>6. MetaMarked' /\ KeepsEnrichment BY <2>4 DEF KeptInv, MetaMarked, KeepsEnrichment
  <2>7. ShownAsKept' BY <1>t, <2>1, <2>4 DEF KeptInv, OpenHere, ShownAsKept, AsKept
  <2> QED BY <2>5, <2>6, <2>7 DEF KeptInv
<1>12. ASSUME NEW j \in Slots, SeriesDetailLoaded(j) PROVE Goal
  <2>1. /\ Others(j) /\ jobs[j].kind = "episodes" /\ UNCHANGED <<sources, handle, db>>
        /\ \A p \in Profiles : bundle'[p].v = bundle[p].v /\ bundle'[p].meta = bundle[p].meta
        /\ \/ jobs'[j].kind = "idle"
           \/ /\ jobs'[j].kind = "episodes" /\ jobs'[j].ps = jobs[j].ps
              /\ jobs'[j].rows[At(j)].v = bundle[At(j)].v /\ jobs'[j].rows[At(j)].meta = bundle[At(j)].meta
    BY <1>12, <1>a, SeriesDetailLoadedDoes DEF Fresh, SameBeside
  <2>2. jobs'[j].kind = "episodes" => At(j)' = At(j) BY <2>1 DEF At
  <2>3. OpenHere' /\ PagesAlone' /\ MetaMarked' /\ ShownAsKept' /\ LoadsAsKept' /\ KeepsEnrichment
    BY <1>t, <2>1 DEF KeptInv, OpenHere, PagesAlone, MetaMarked, ShownAsKept, LoadsAsKept,
                      AsKept, KeepsEnrichment, Others
  <2>4. CopiesAsKept'
    <3>1. ASSUME jobs'[j].kind = "episodes", At(j) \in sources, jobs'[j].rows[At(j)].v # 0
          PROVE  db'[At(j)].row.v # 0 /\ (jobs'[j].rows[At(j)].meta <=> db'[At(j)].row.meta)
      BY <2>1, <3>1 DEF KeptInv, ShownAsKept, AsKept
    <3>2. ASSUME jobs'[j].kind = "episodes", At(j) \notin sources PROVE db'[At(j)].row.v = 0
      BY <2>1, <3>2 DEF KeptInv, CopiesAsKept
    <3>3. ASSUME NEW i \in Slots, i # j PROVE jobs'[i] = jobs[i]
      BY <2>1, <3>3 DEF Others
    <3>4. \A i \in Slots : i # j => At(i)' = At(i)
      BY <3>3 DEF At
    <3>5. UNCHANGED <<sources, db>>
      BY <2>1
    <3> QED BY <2>2, <3>1, <3>2, <3>3, <3>4, <3>5 DEF KeptInv, CopiesAsKept, AsKept
  <2>5. IngestsAsKept' BY <2>1 DEF KeptInv, IngestsAsKept, Commits, Handles, Others, At
  <2> QED BY <2>3, <2>4, <2>5 DEF KeptInv
<1>13. ASSUME NEW j \in Slots, SeriesEpisodesEnriched(j) PROVE Goal
  <2> DEFINE p == At(j)
  <2>1. /\ Others(j) /\ jobs'[j].kind = "idle" /\ UNCHANGED <<sources, handle>>
        /\ jobs[j].kind = "episodes" /\ jobs[j].at = "copied"
        /\ \A q \in Profiles : bundle'[q].v = bundle[q].v /\ bundle'[q].meta = bundle[q].meta
        /\ OneFile(p) /\ SavedAs(p, jobs[j].rows[p].v, jobs[j].rows[p].meta)
    BY <1>13, <1>a, SeriesEpisodesEnrichedDoes DEF Fresh
  <2>2. \A i \in Slots : jobs[i].kind \notin {"ingest", "load"}
    BY <1>13, <1>a, SeriesEpisodesEnrichedDoes DEF Apart, Running
  <2>3. p \in Profiles BY <1>a, <2>1
  <2>4. jobs[j].rows[p].v # 0 BY <2>1 DEF JobsOK
  <2>5. db[p].row.v # 0 => (jobs[j].rows[p].meta <=> db[p].row.meta)
    BY <2>1, <2>4 DEF KeptInv, CopiesAsKept, AsKept
  <2> HIDE DEF p
  <2>6. \A q \in Profiles : /\ db[q].row.v # 0 <=> db'[q].row.v # 0
                            /\ db'[q].row.meta <=> db[q].row.meta
                            /\ db'[q].row.meta => db'[q].row.ok
    BY <2>1, <2>3, <2>4, <2>5 DEF OneFile, OnlyFile, SavedAs, KeptInv, MetaMarked
  <2>7. OpenHere' /\ PagesAlone' /\ MetaMarked' /\ ShownAsKept' /\ KeepsEnrichment
    BY <1>t, <2>1, <2>6 DEF KeptInv, OpenHere, PagesAlone, MetaMarked, ShownAsKept, AsKept, KeepsEnrichment, Others
  <2>8. LoadsAsKept' /\ IngestsAsKept'
    BY <2>1, <2>2 DEF LoadsAsKept, IngestsAsKept, Commits, Handles, Others
  <2>9. CopiesAsKept'
    BY <1>t, <1>a, <2>1, <2>6 DEF KeptInv, CopiesAsKept, AsKept, Others, At
  <2> QED BY <2>7, <2>8, <2>9 DEF KeptInv
<1>14. ASSUME NEW p \in Profiles, AddSource(p) PROVE Goal
  <2>1. PICK j \in Slots :
         /\ Others(j) /\ Fresh(jobs'[j], "fetch", {p})
         /\ p \notin known
         /\ sources' = sources \cup {p}
         /\ db' = Opened(db, sources') /\ handle' = OnDisk(db')
         /\ bundle' = bundle
    BY <1>14, AddSourceDoes
  <2>a. sources' \in SUBSET Profiles BY <1>t, <2>1
  <2> DEFINE srcs == sources'
  <2> HIDE DEF srcs
  <2>b. srcs \in SUBSET Profiles /\ db' = Opened(db, srcs) BY <2>a, <2>1 DEF srcs
  <2>c. /\ \A q \in srcs : db'[q].exists
        /\ \A q \in Profiles : db'[q] = db[q] \/ (~db[q].exists /\ db'[q] = EmptyFile)
    BY <1>t, <2>b, OpenedType
  <2>d. \A q \in Profiles : db'[q].row = db[q].row
    BY <2>c, <1>t, EmptyFileType, NoFileType DEF TypeOK
  <2>e. OpenHere' BY <2>a, <2>c, <2>1 DEF OpenHere, OnDisk, srcs
  <2>f. /\ jobs'[j].kind = "fetch" /\ bundle' = bundle /\ Others(j)
        /\ \A q \in sources' : q \in sources \/ q = p
    BY <2>1 DEF Fresh
  <2>g. bundle[p].v = 0 /\ db[p].row.v = 0 /\ \A i \in Slots : jobs[i].rows[p].v = 0 /\ p \notin jobs[i].ps
    BY <2>1, NoRowType, NoFileType DEF KnownOK
  <2>2. PagesAlone' /\ MetaMarked' /\ ShownAsKept' /\ LoadsAsKept' /\ KeepsEnrichment
    BY SMTT(30), <1>t, <2>d, <2>f, <2>g DEF KeptInv, PagesAlone, MetaMarked, ShownAsKept, LoadsAsKept,
                                 AsKept, KeepsEnrichment, Others
  <2>h. \A i \in Slots : jobs[i].kind = "episodes" => At(i) # p /\ At(i) \in Profiles BY <1>a, <2>g, AtIn
  <2>3. CopiesAsKept'
    BY ZenonT(40), <2>1, <2>d, <2>f, <2>h DEF KeptInv, CopiesAsKept, AsKept, Others, At
  <2>4. IngestsAsKept' BY <2>d, <2>f DEF KeptInv, IngestsAsKept, Commits, Handles, Others, At
  <2> QED BY <2>e, <2>2, <2>3, <2>4 DEF KeptInv
<1>15. ASSUME NEW p \in Profiles, ReloadSource(p) \/ OpenSeries(p) PROVE Goal
  <2>1. PICK j \in Slots :
         /\ Others(j)
         /\ \/ Fresh(jobs'[j], "fetch", {p})
            \/ Fresh(jobs'[j], "episodes", {p}) /\ p \in sources /\ Apart("enrich", {"enrich", "ingest"})
         /\ UNCHANGED <<sources, db, handle, bundle>>
    BY <1>15, ReloadSourceDoes, OpenSeriesDoes
  <2>2. \/ jobs'[j].kind = "fetch"
        \/ /\ jobs'[j].kind = "episodes" /\ jobs'[j].at = "new" /\ jobs'[j].ps = {p} /\ p \in sources
           /\ \A i \in Slots : jobs[i].kind # "ingest"
    BY <2>1 DEF Fresh, Apart, Running
  <2>3. jobs'[j].kind = "episodes" => At(j)' = p
    <3>1. jobs'[j].kind = "episodes" => jobs'[j].ps = {p} BY <2>2
    <3>2. {p} # {} /\ \A q \in {p} : q = p OBVIOUS
    <3> DEFINE P == {p}
    <3> HIDE DEF P
    <3>3. Pick(P) \in P BY <3>2, PickIn DEF P
    <3>4. Pick({p}) = p BY <3>2, <3>3 DEF P
    <3> QED BY <3>1, <3>4 DEF At
  <2>4. OpenHere' /\ PagesAlone' /\ MetaMarked' /\ ShownAsKept' /\ LoadsAsKept' /\ IngestsAsKept' /\ KeepsEnrichment
    BY <1>t, <2>1, <2>2 DEF KeptInv, OpenHere, PagesAlone, MetaMarked, ShownAsKept, LoadsAsKept, IngestsAsKept,
                           AsKept, Commits, Handles, KeepsEnrichment, Others, At
  <2>5. CopiesAsKept' BY <1>t, <1>a, <2>1, <2>2, <2>3 DEF KeptInv, CopiesAsKept, AsKept, Others, At
  <2> QED BY <2>4, <2>5 DEF KeptInv
<1>16. ASSUME NEW p \in Profiles, RemoveSource(p) PROVE Goal
  <2>1. PICK j \in Slots :
         /\ Fresh(jobs'[j], "load", sources')
         /\ \A i \in Slots : i # j => OrphanedOf(jobs'[i], jobs[i], p)
         /\ sources' = sources \ {p} /\ handle' = handle \ {p}
         /\ OneFile(p) /\ db'[p] = NoFile /\ bundle' = bundle /\ jobs[j].kind = "idle"
    BY <1>16, RemoveSourceDoes
  <2>2. \A i \in Slots \ {j} :
          /\ jobs'[i].kind = jobs[i].kind /\ jobs'[i].at = jobs[i].at
          /\ jobs[i].kind = "ingest" => jobs'[i].ps = jobs[i].ps /\ jobs'[i].rows = jobs[i].rows
          /\ jobs[i].kind = "ingest" /\ jobs[i].at # "new" =>
               p \in jobs'[i].lost /\ jobs'[i].lost = jobs[i].lost \cup {p}
          /\ jobs'[i] = jobs[i] \/ jobs[i].kind # "episodes"
          /\ \A q \in Profiles : q # p => jobs'[i].rows[q] = jobs[i].rows[q]
    BY <1>t, <2>1, ReadsType DEF OrphanedOf
  <2>3. /\ jobs'[j].kind = "load" /\ jobs'[j].rows = NoRows BY <2>1 DEF Fresh
  <2>4. /\ \A q \in Profiles : q # p => db'[q] = db[q]
        /\ db'[p].row.v = 0 /\ ~db'[p].row.meta /\ ~db'[p].exists
    BY <2>1, NoFileType, NoRowType DEF OneFile, OnlyFile
  <2>5. OpenHere' BY <2>1 DEF KeptInv, OpenHere
  <2>6. PagesAlone' BY <2>2, <2>3 DEF KeptInv, PagesAlone
  <2>7. MetaMarked' /\ ShownAsKept' /\ KeepsEnrichment
    BY <1>t, <2>1, <2>4 DEF KeptInv, MetaMarked, ShownAsKept, AsKept, KeepsEnrichment
  <2>8. LoadsAsKept'
    BY <1>t, <2>1, <2>2, <2>3, <2>4, NoRowsType, NoRowType DEF KeptInv, LoadsAsKept, AsKept
  <2>9. CopiesAsKept'
    <3> SUFFICES ASSUME NEW i \in Slots, jobs'[i].kind = "episodes"
                 PROVE  /\ At(i)' \in sources' /\ jobs'[i].at = "copied" => AsKept(jobs[i].rows[At(i)], At(i))'
                        /\ At(i)' \notin sources' => db'[At(i)'].row.v = 0
      BY DEF CopiesAsKept
    <3>1. i # j /\ jobs'[i] = jobs[i] BY <2>2, <2>3
    <3>2. At(i)' = At(i) /\ At(i) \in Profiles BY <3>1, <1>a DEF At
    <3> QED BY <2>1, <2>4, <3>1, <3>2 DEF KeptInv, CopiesAsKept, AsKept
  <2>10. IngestsAsKept'
    <3> SUFFICES ASSUME NEW i \in Slots, NEW q \in Profiles, Commits(i, q)'
                 PROVE  jobs'[i].rows[q].meta <=> db'[q].row.meta
      BY DEF IngestsAsKept
    <3>1. /\ jobs'[i].kind = "ingest" /\ q \in jobs'[i].ps /\ q \notin jobs'[i].lost
          /\ q = Pick(jobs'[i].ps) /\ jobs'[i].at = "commit"
      BY DEF Commits, Handles, At
    <3>2. /\ i # j /\ jobs[i].kind = "ingest" /\ jobs[i].at = "commit"
          /\ jobs'[i].ps = jobs[i].ps /\ jobs'[i].rows = jobs[i].rows
          /\ jobs'[i].lost = jobs[i].lost \cup {p}
      BY <2>2, <2>3, <3>1
    <3>3. q # p /\ q \notin jobs[i].lost BY <3>1, <3>2
    <3>4. Commits(i, q) BY <3>1, <3>2, <3>3 DEF Commits, Handles, At
    <3> QED BY <2>4, <3>2, <3>3, <3>4 DEF KeptInv, IngestsAsKept
  <2> QED BY <2>5, <2>6, <2>7, <2>8, <2>9, <2>10 DEF KeptInv
<1>17. ASSUME NEW p \in Profiles, ImportProfile(p) PROVE Goal
  <2>1. PICK j \in Slots :
         /\ Others(j) /\ Fresh(jobs'[j], "load", sources')
         /\ p \notin known
         /\ sources' = sources \cup {p} /\ handle' = handle \cup {p}
         /\ bundle' = bundle
    BY <1>17, ImportProfileDoes
  <2>a. OneFile(p) /\ (db'[p].row.meta => db'[p].row.ok) BY <1>17, ImportProfileDoes
  <2>2. jobs'[j].kind = "load" /\ jobs'[j].rows = NoRows BY <2>1 DEF Fresh
  <2>g. /\ bundle[p].v = 0 /\ db[p].row.v = 0 /\ ~db[p].row.meta
        /\ \A i \in Slots : jobs[i].rows[p].v = 0 /\ p \notin jobs[i].ps
    BY <2>1, NoRowType, NoFileType DEF KnownOK
  <2>3. \A q \in Profiles : q # p => db'[q] = db[q] BY <2>a DEF OneFile, OnlyFile
  <2>4. OpenHere' /\ PagesAlone' BY <2>1, <2>2 DEF KeptInv, OpenHere, PagesAlone, Others
  <2>5. MetaMarked' /\ ShownAsKept' /\ KeepsEnrichment
    BY <1>t, <2>1, <2>a, <2>3, <2>g DEF KeptInv, MetaMarked, ShownAsKept, AsKept, KeepsEnrichment
  <2>6. LoadsAsKept'
    BY <1>t, <2>1, <2>2, <2>3, <2>g, NoRowsType, NoRowType DEF KeptInv, LoadsAsKept, AsKept, Others
  <2>h. \A i \in Slots : jobs[i].kind = "episodes" => At(i) # p /\ At(i) \in Profiles BY <1>a, <2>g, AtIn
  <2>7. CopiesAsKept' BY <2>1, <2>2, <2>3, <2>h DEF KeptInv, CopiesAsKept, AsKept, Others, At
  <2>8. IngestsAsKept' BY <2>1, <2>2, <2>3, <2>g DEF KeptInv, IngestsAsKept, Commits, Handles, Others, At
  <2> QED BY <2>4, <2>5, <2>6, <2>7, <2>8 DEF KeptInv
<1>18. ASSUME NEW p \in Profiles, PortalChanges(p) PROVE Goal
  BY <1>18
  DEF PortalChanges, KeptInv, OpenHere, PagesAlone, MetaMarked, ShownAsKept, LoadsAsKept, CopiesAsKept,
      IngestsAsKept, AsKept, Commits, Handles, KeepsEnrichment, At
<1>19. ASSUME Restart PROVE Goal
  <2>1. PICK a, b \in Slots :
         /\ Fresh(jobs'[a], "load", sources)
         /\ Fresh(jobs'[b], "idle", {}) \/ Fresh(jobs'[b], "fetch", sources)
         /\ \A i \in Slots \ {a, b} : Fresh(jobs'[i], "idle", {})
         /\ db' = Opened(db, sources) /\ handle' = OnDisk(db') /\ bundle' = NoRows
         /\ sources' = sources
    BY <1>19, RestartDoes
  <2>a. sources \in SUBSET Profiles BY <1>t
  <2>b. /\ \A q \in sources : db'[q].exists
        /\ \A q \in Profiles : db'[q] = db[q] \/ (~db[q].exists /\ db'[q] = EmptyFile)
    BY <1>t, <2>a, <2>1, OpenedType
  <2>2. \A q \in Profiles : db'[q].row = db[q].row
    BY <2>b, <1>t, EmptyFileType, NoFileType DEF TypeOK
  <2>3. \A i \in Slots : jobs'[i].kind \in {"idle", "load", "fetch"} /\ jobs'[i].rows = NoRows
    BY <2>1 DEF Fresh
  <2>4. OpenHere' BY <2>a, <2>b, <2>1 DEF OpenHere, OnDisk
  <2>5. MetaMarked' /\ KeepsEnrichment BY <2>2 DEF KeptInv, MetaMarked, KeepsEnrichment
  <2>6. PagesAlone' /\ ShownAsKept' /\ LoadsAsKept' /\ CopiesAsKept' /\ IngestsAsKept'
    BY <1>t, <2>1, <2>3, NoRowsType, NoRowType
    DEF PagesAlone, ShownAsKept, LoadsAsKept, CopiesAsKept, IngestsAsKept, AsKept, Commits, Handles
  <2> QED BY <2>4, <2>5, <2>6 DEF KeptInv
<1> QED
  BY <1>1, <1>2, <1>3, <1>4, <1>5, <1>6, <1>7, <1>8, <1>9, <1>10, <1>11, <1>12, <1>13, <1>14,
     <1>15, <1>16, <1>17, <1>18, <1>19 DEF Next

\* What an enrichment found of a title is in the file of the profile until the profile is
\* removed: no ingest of a new dump, no save of a page and no restart loses it.
THEOREM EnrichmentIsKept ==
  ASSUME "enrich" \notin Faults
  PROVE  Spec => EnrichmentKept
<1> DEFINE Inv == Shape /\ KeptInv
<1>1. Init => Inv BY InitShape, InitKept
<1>2. Inv /\ [Next]_vars => Inv' /\ [KeepsEnrichment]_vars
  <2> SUFFICES ASSUME Inv, [Next]_vars PROVE Inv' /\ [KeepsEnrichment]_vars OBVIOUS
  <2>1. CASE Next BY <2>1, ShapeStep, KeptStep
  <2>2. CASE UNCHANGED vars
    BY <2>2 DEF vars, Shape, KeptInv, TypeOK, JobsOK, RowsOK, KnownOK, OnDisk, OpenHere, PagesAlone, MetaMarked,
      ShownAsKept, LoadsAsKept, CopiesAsKept, IngestsAsKept, AsKept, Commits, Handles, At
  <2> QED BY <2>1, <2>2
<1> QED BY <1>1, <1>2, PTL DEF Spec, EnrichmentKept

-----------------------------------------------------------------------------
\* What the bundle shows.

Calm(kinds) == \A i \in Slots : jobs[i].kind \notin kinds
Same(row, p) == row.v = db[p].row.v

OneLoad == \A i, j \in Slots : jobs[i].kind = "load" /\ jobs[j].kind = "load" => i = j
LoadsHere ==
  \A j \in Slots, p \in Profiles \ sources : jobs[j].kind = "load" =>
    p \notin jobs[j].ps /\ jobs[j].rows[p].v = 0

\* A removed profile is shown only until the load its removal started is there.
ShownHere == Calm({"load"}) => \A p \in Profiles \ sources : bundle[p].v = 0
ShownCurrent == Calm({"ingest", "load"}) => \A p \in sources : Same(bundle[p], p)
LoadsCurrent ==
  Calm({"ingest"}) => \A j \in Slots, p \in sources :
    jobs[j].kind = "load" => p \in jobs[j].ps \/ Same(jobs[j].rows[p], p)
CopiesCurrent ==
  \A j \in Slots : jobs[j].kind = "episodes" /\ jobs[j].at = "copied" =>
    db[At(j)].row.v = 0 \/ Same(jobs[j].rows[At(j)], At(j))

ViewInv == OneLoad /\ LoadsHere /\ ShownHere /\ ShownCurrent /\ LoadsCurrent /\ CopiesCurrent

LEMMA InitView == Init => ViewInv
<1> SUFFICES ASSUME Init PROVE ViewInv OBVIOUS
<1>1. sources \in SUBSET Profiles BY DEF Init
<1>2. db = Opened([p \in Profiles |-> NoFile], sources) /\ [p \in Profiles |-> NoFile] \in [Profiles -> Files]
  BY NoFileType DEF Init
<1>3. \A p \in Profiles : db[p] = NoFile \/ (p \in sources /\ db[p] = EmptyFile)
  BY <1>1, <1>2, OpenedType
<1>4. \A j \in Slots : jobs[j] = Idle BY DEF Init
<1>5. \A p \in Profiles : bundle[p] = NoRow BY NoRowsType DEF Init
<1> QED
  BY <1>1, <1>3, <1>4, <1>5, NoRowType, IdleType, EmptyFileType, NoFileType
  DEF ViewInv, OneLoad, LoadsHere, ShownHere, ShownCurrent, LoadsCurrent, CopiesCurrent, Same

\* An item saved whole over a row is of the row's own version.
LEMMA SavesKeepVersions ==
  ASSUME "enrich" \notin Faults, Shape, KeptInv, ViewInv,
         NEW j \in Slots, MetaEnriched(j) \/ SeriesEpisodesEnriched(j)
  PROVE  \A p \in Profiles : /\ db'[p].row.v = db[p].row.v /\ db'[p].sum = db[p].sum
                             /\ bundle'[p].v = bundle[p].v
<1> USE DEF Shape
<1>a. \A i \in Slots : jobs[i].kind = "episodes" => jobs[i].ps # {} /\ At(i) \in Profiles
  BY AtIn DEF JobsOK
<1>1. CASE MetaEnriched(j)
  <2>1. Calm({"ingest", "load", "episodes"}) BY <1>1, MetaEnrichedDoes DEF Apart, Running, Calm
  <2>2. \A p \in Profiles : bundle[p].v # 0 => Same(bundle[p], p)
    BY <2>1 DEF ViewInv, ShownHere, ShownCurrent, Calm
  <2> QED BY <1>1, <2>2, MetaEnrichedDoes DEF SavedAs, Same
<1>2. CASE SeriesEpisodesEnriched(j)
  <2> DEFINE p == At(j)
  <2>1. /\ jobs[j].kind = "episodes" /\ jobs[j].at = "copied"
        /\ \A q \in Profiles : bundle'[q].v = bundle[q].v
        /\ OneFile(p) /\ SavedAs(p, jobs[j].rows[p].v, jobs[j].rows[p].meta)
    BY <1>2, <1>a, SeriesEpisodesEnrichedDoes
  <2>2. db[p].row.v = 0 \/ jobs[j].rows[p].v = db[p].row.v
    BY <2>1 DEF ViewInv, CopiesCurrent, Same
  <2> HIDE DEF p
  <2> QED BY <2>1, <2>2 DEF OneFile, OnlyFile, SavedAs
<1> QED BY <1>1, <1>2

LEMMA ViewStep ==
  ASSUME Faults \cap {"enrich", "loads", "locked"} = {}, Shape, KeptInv, ViewInv, Next
  PROVE  ViewInv'
<1> USE DEF Shape
<1>t. /\ sources \subseteq known /\ known \subseteq Profiles
      /\ db \in [Profiles -> Files] /\ bundle \in [Profiles -> Rows] /\ jobs \in [Slots -> JobType]
  BY DEF TypeOK
<1>f. \A j \in Slots : jobs[j].ps \subseteq Profiles /\ jobs[j].rows \in [Profiles -> Rows]
  BY <1>t DEF JobType
<1>a. \A j \in Slots : jobs[j].kind = "episodes" => jobs[j].ps # {} /\ At(j) \in Profiles
  BY AtIn DEF JobsOK
<1>1. ASSUME NEW j \in Slots, NEW p \in Profiles, Fetches(j, p) PROVE ViewInv'
  BY <1>1, <1>t, FetchesDoes
  DEF ViewInv, OneLoad, LoadsHere, ShownHere, ShownCurrent, LoadsCurrent, CopiesCurrent, Calm, Same, Others, At
<1>2. ASSUME NEW j \in Slots, NEW p \in Profiles, LoadReads(j, p) PROVE ViewInv'
  <2>1. Same(jobs'[j].rows[p], p) BY <1>2, FileAt, LoadedType, LoadReadsDoes DEF Same
  <2>2. /\ Others(j) /\ jobs[j].kind = "load" /\ p \in jobs[j].ps /\ jobs'[j].kind = "load"
        /\ jobs'[j].ps = jobs[j].ps \ {p}
        /\ \A q \in Profiles : q # p => jobs'[j].rows[q] = jobs[j].rows[q]
        /\ UNCHANGED <<sources, db, bundle>>
    BY <1>2, LoadReadsDoes
  <2>3. p \in sources BY <2>2 DEF ViewInv, LoadsHere
  <2>4. OneLoad' /\ ShownHere' /\ ShownCurrent'
    BY <2>2 DEF ViewInv, OneLoad, ShownHere, ShownCurrent, Calm, Same, Others
  <2>5. LoadsHere' BY <2>2, <2>3 DEF ViewInv, LoadsHere, Others
  <2>6. LoadsCurrent' BY <1>t, <2>1, <2>2 DEF ViewInv, LoadsCurrent, Calm, Same, Others
  <2>7. CopiesCurrent' BY <2>2 DEF ViewInv, CopiesCurrent, Same, Others, At
  <2> QED BY <2>4, <2>5, <2>6, <2>7 DEF ViewInv
<1>3. ASSUME NEW j \in Slots, IngestStarts(j) PROVE ViewInv'
  <2>1. /\ Others(j) /\ jobs[j].kind = "fetch" /\ jobs'[j].kind \in {"idle", "ingest"}
        /\ UNCHANGED <<sources, db, bundle>>
    BY <1>3, IngestStartsDoes, IdleType
  <2> QED
    BY <1>t, <2>1
    DEF ViewInv, OneLoad, LoadsHere, ShownHere, ShownCurrent, LoadsCurrent, CopiesCurrent, Calm, Same, Others, At
<1>4. ASSUME NEW j \in Slots, IngestOpens(j) \/ LoadOpens(j) PROVE ViewInv'
  <2>1. /\ db' \in [Profiles -> Files]
        /\ \A p \in Profiles : db'[p] = db[p] \/ (~db[p].exists /\ db'[p] = EmptyFile)
    BY <1>4, <1>t, <1>f, IngestOpensDoes, LoadOpensDoes, OpenedType
  <2>2. \A p \in Profiles : db'[p].row = db[p].row
    BY <2>1, <1>t, EmptyFileType, NoFileType DEF TypeOK
  <2>3. /\ Others(j) /\ SameBeside(j) /\ jobs'[j].rows = jobs[j].rows
        /\ jobs[j].kind \in {"ingest", "load"} /\ jobs'[j].at \in {"sum", "rows"}
        /\ UNCHANGED <<sources, bundle>>
    BY <1>4, IngestOpensDoes, LoadOpensDoes DEF Step
  <2> QED
    BY <1>t, <1>a, <2>2, <2>3
    DEF ViewInv, OneLoad, LoadsHere, ShownHere, ShownCurrent, LoadsCurrent, CopiesCurrent, Calm, Same, Others,
        SameBeside, At
<1>5. ASSUME NEW j \in Slots, IngestCompares(j) \/ IngestReads(j) \/ IngestCommits(j)
                                \/ IngestWritesSum(j) \/ IngestMarks(j)
      PROVE ViewInv'
  <2>p. /\ jobs[j].ps # {} /\ jobs[j].kind = "ingest"
    BY <1>5 DEF JobsOK, IngestCompares, IngestReads, IngestCommits, IngestWritesSum, IngestMarks, Step
  <2>1. /\ Others(j) /\ jobs'[j].kind = "ingest" /\ UNCHANGED <<sources, bundle>>
    BY <1>5, <2>p, JobAt, IngestComparesDoes, IngestReadsShape, IngestCommitsDoes, IngestWritesSumDoes,
       IngestMarksDoes, PastType DEF SameBeside
  <2>2. \A i \in Slots : jobs'[i].kind # "episodes"
    BY <2>p, <2>1 DEF KeptInv, PagesAlone, Others
  <2>3. OneLoad' /\ LoadsHere' /\ ShownHere' /\ CopiesCurrent'
    BY <2>p, <2>1, <2>2 DEF ViewInv, OneLoad, LoadsHere, ShownHere, CopiesCurrent, Calm, Others
  <2>4. ShownCurrent' /\ LoadsCurrent' BY <2>1 DEF ShownCurrent, LoadsCurrent, Calm
  <2> QED BY <2>3, <2>4 DEF ViewInv
<1>6. ASSUME NEW j \in Slots, IngestFails(j) \/ LoadFails(j) PROVE ViewInv'
  BY <1>6 DEF IngestFails, LoadFails
<1>7. ASSUME NEW j \in Slots, IngestDone(j) PROVE ViewInv'
  <2>0. sources \in SUBSET Profiles BY <1>t
  <2>1. /\ Others(j) /\ jobs'[j].kind = "load" /\ jobs'[j].ps = sources /\ jobs'[j].rows = NoRows
        /\ Calm({"load"})
        /\ UNCHANGED <<sources, bundle, db>>
    BY <1>7, <2>0, IngestDoneDoes DEF Fresh, Apart, Running, Calm
  <2>2. OneLoad' /\ LoadsHere' BY <2>1, NoRowsType, NoRowType DEF OneLoad, LoadsHere, Calm, Others
  <2>3. ShownHere' /\ ShownCurrent' BY <2>1 DEF ShownHere, ShownCurrent, Calm
  <2>4. LoadsCurrent' BY <2>1 DEF LoadsCurrent, Calm, Others
  <2>5. CopiesCurrent' BY <2>1 DEF ViewInv, CopiesCurrent, Same, Others, At
  <2> QED BY <2>2, <2>3, <2>4, <2>5 DEF ViewInv
<1>8. ASSUME NEW j \in Slots, BundleCacheReady(j) PROVE ViewInv'
  <2>1. /\ Others(j) /\ jobs[j].kind = "load" /\ jobs[j].ps = {} /\ jobs'[j].kind \in {"idle", "enrich"}
        /\ bundle' = jobs[j].rows
        /\ UNCHANGED <<sources, db>>
    BY <1>8, BundleCacheReadyDoes DEF Fresh
  <2>2. \A i \in Slots : jobs'[i].kind # "load" BY <2>1 DEF ViewInv, OneLoad, Others
  <2>3. OneLoad' /\ LoadsHere' /\ LoadsCurrent' BY <2>2 DEF OneLoad, LoadsHere, LoadsCurrent
  <2>4. ShownHere' BY <2>1 DEF ViewInv, LoadsHere, ShownHere
  <2>5. Calm({"ingest"})' => Calm({"ingest"}) BY <2>1 DEF Calm, Others
  <2>6. ShownCurrent' BY <2>1, <2>5 DEF ViewInv, ShownCurrent, LoadsCurrent, Calm, Same
  <2>7. CopiesCurrent' BY <2>1 DEF ViewInv, CopiesCurrent, Same, Others, At
  <2> QED BY <2>3, <2>4, <2>6, <2>7 DEF ViewInv
<1>9. ASSUME NEW j \in Slots, MetaEnriched(j) \/ SeriesEpisodesEnriched(j) PROVE ViewInv'
  <2>1. /\ Others(j) /\ jobs'[j].kind = "idle" /\ jobs[j].kind \in {"enrich", "episodes"} /\ sources' = sources
    BY <1>9, <1>a, MetaEnrichedDoes, SeriesEpisodesEnrichedDoes DEF Fresh
  <2>2. \A p \in Profiles : db'[p].row.v = db[p].row.v /\ bundle'[p].v = bundle[p].v
    BY <1>9, SavesKeepVersions
  <2> QED
    BY <1>t, <1>a, <2>1, <2>2
    DEF ViewInv, OneLoad, LoadsHere, ShownHere, ShownCurrent, LoadsCurrent, CopiesCurrent, Calm, Same, Others, At
<1>10. ASSUME NEW j \in Slots, SeriesDetailLoaded(j) PROVE ViewInv'
  <2>1. /\ Others(j) /\ jobs[j].kind = "episodes" /\ UNCHANGED <<sources, db>>
        /\ \A p \in Profiles : bundle'[p].v = bundle[p].v
        /\ \/ jobs'[j].kind = "idle"
           \/ /\ jobs'[j].kind = "episodes" /\ jobs'[j].ps = jobs[j].ps
              /\ jobs'[j].rows[At(j)].v = bundle[At(j)].v
    BY <1>10, <1>a, SeriesDetailLoadedDoes DEF Fresh, SameBeside
  <2>2. jobs'[j].kind = "episodes" => At(j)' = At(j) BY <2>1 DEF At
  <2>3. Calm({"ingest", "load"})
    BY <1>10, <1>a, <2>1, SeriesDetailLoadedDoes DEF Apart, Running, Calm, KeptInv, PagesAlone
  <2>4. OneLoad' /\ LoadsHere' /\ ShownHere' /\ ShownCurrent' /\ LoadsCurrent'
    BY <1>t, <2>1 DEF ViewInv, OneLoad, LoadsHere, ShownHere, ShownCurrent, LoadsCurrent, Calm, Same, Others
  <2>5. db[At(j)].row.v = 0 \/ bundle[At(j)].v = db[At(j)].row.v
    BY <1>a, <2>1, <2>3 DEF ViewInv, ShownCurrent, Same, KeptInv, CopiesAsKept
  <2>6. CopiesCurrent' BY <2>1, <2>2, <2>5 DEF ViewInv, CopiesCurrent, Same, Others, At
  <2> QED BY <2>4, <2>6 DEF ViewInv
<1>11. ASSUME NEW p \in Profiles, AddSource(p) PROVE ViewInv'
  <2>1. PICK j \in Slots :
         /\ Others(j) /\ Fresh(jobs'[j], "fetch", {p}) /\ jobs[j].kind = "idle"
         /\ p \notin known
         /\ sources' = sources \cup {p}
         /\ db' = Opened(db, sources')
         /\ bundle' = bundle
    BY <1>11, AddSourceDoes
  <2>a. sources' \in SUBSET Profiles BY <1>t, <2>1
  <2> DEFINE srcs == sources'
  <2> HIDE DEF srcs
  <2>b. srcs \in SUBSET Profiles /\ db' = Opened(db, srcs) BY <2>a, <2>1 DEF srcs
  <2>c. \A q \in Profiles : db'[q] = db[q] \/ (~db[q].exists /\ db'[q] = EmptyFile)
    BY <1>t, <2>b, OpenedType
  <2>d. \A q \in Profiles : db'[q].row = db[q].row
    BY <2>c, <1>t, EmptyFileType, NoFileType DEF TypeOK
  <2>f. /\ jobs'[j].kind = "fetch" /\ jobs[j].kind = "idle" /\ bundle' = bundle /\ Others(j)
        /\ \A q \in sources' : q \in sources \/ q = p
        /\ \A q \in Profiles : q \notin sources' => q \notin sources
    BY <2>1 DEF Fresh
  <2>g. bundle[p].v = 0 /\ db[p].row.v = 0 /\ \A i \in Slots : jobs[i].rows[p].v = 0 /\ p \notin jobs[i].ps
    BY <2>1, NoRowType, NoFileType DEF KnownOK
  <2>2. OneLoad' /\ LoadsHere' /\ ShownHere'
    BY <2>f DEF ViewInv, OneLoad, LoadsHere, ShownHere, Calm, Others
  <2>3. ShownCurrent' /\ LoadsCurrent'
    BY <1>t, <2>d, <2>f, <2>g DEF ViewInv, ShownCurrent, LoadsCurrent, Calm, Same, Others
  <2>4. CopiesCurrent' BY <1>a, <2>d, <2>f DEF ViewInv, CopiesCurrent, Same, Others, At
  <2> QED BY <2>2, <2>3, <2>4 DEF ViewInv
<1>12. ASSUME NEW p \in Profiles, ReloadSource(p) \/ OpenSeries(p) PROVE ViewInv'
  <2>1. PICK j \in Slots :
         /\ Others(j) /\ jobs[j].kind = "idle"
         /\ Fresh(jobs'[j], "fetch", {p}) \/ Fresh(jobs'[j], "episodes", {p})
         /\ UNCHANGED <<sources, db, bundle>>
    BY <1>12, ReloadSourceDoes, OpenSeriesDoes
  <2>2. jobs'[j].kind \in {"fetch", "episodes"} /\ jobs'[j].at = "new" BY <2>1 DEF Fresh
  <2> QED
    BY <1>t, <2>1, <2>2
    DEF ViewInv, OneLoad, LoadsHere, ShownHere, ShownCurrent, LoadsCurrent, CopiesCurrent, Calm, Same, Others, At
<1>13. ASSUME NEW p \in Profiles, RemoveSource(p) PROVE ViewInv'
  <2>1. PICK j \in Slots :
         /\ Fresh(jobs'[j], "load", sources') /\ jobs[j].kind = "idle"
         /\ \A i \in Slots : i # j => OrphanedOf(jobs'[i], jobs[i], p)
         /\ Apart("loads", {"load"})
         /\ sources' = sources \ {p}
         /\ OneFile(p) /\ db'[p] = NoFile /\ bundle' = bundle
    BY <1>13, RemoveSourceDoes
  <2>2. \A i \in Slots \ {j} : /\ jobs'[i].kind = jobs[i].kind /\ jobs[i].kind # "load"
                               /\ jobs'[i] = jobs[i] \/ jobs[i].kind # "episodes"
    BY <2>1 DEF OrphanedOf, Apart, Running
  <2>3. jobs'[j].kind = "load" /\ jobs'[j].ps = sources' /\ jobs'[j].rows = NoRows BY <2>1 DEF Fresh
  <2>4. OneLoad' BY <2>2, <2>3 DEF OneLoad
  <2>5. LoadsHere' BY <2>2, <2>3, NoRowsType, NoRowType DEF LoadsHere
  <2>6. ShownHere' /\ ShownCurrent' BY <2>3 DEF ShownHere, ShownCurrent, Calm
  <2>7. LoadsCurrent' BY <2>2, <2>3 DEF LoadsCurrent
  <2>8. (\A q \in Profiles : q # p => db'[q] = db[q]) /\ db'[p].row.v = 0
    BY <2>1, NoFileType, NoRowType DEF OneFile, OnlyFile
  <2>9. CopiesCurrent'
    <3> SUFFICES ASSUME NEW i \in Slots, jobs'[i].kind = "episodes", jobs'[i].at = "copied"
                 PROVE  db'[At(i)'].row.v = 0 \/ jobs'[i].rows[At(i)'].v = db'[At(i)'].row.v
      BY DEF CopiesCurrent, Same
    <3>1. i # j /\ jobs'[i] = jobs[i] BY <2>2, <2>3
    <3>2. At(i)' = At(i) /\ At(i) \in Profiles BY <3>1, <1>a DEF At
    <3> QED BY <2>8, <3>1, <3>2 DEF ViewInv, CopiesCurrent, Same
  <2> QED BY <2>4, <2>5, <2>6, <2>7, <2>9 DEF ViewInv
<1>14. ASSUME NEW p \in Profiles, ImportProfile(p) PROVE ViewInv'
  <2>1. PICK j \in Slots :
         /\ Others(j) /\ Fresh(jobs'[j], "load", sources') /\ jobs[j].kind = "idle"
         /\ p \notin known /\ Apart("loads", {"load"})
         /\ sources' = sources \cup {p}
         /\ OneFile(p)
         /\ bundle' = bundle
    BY <1>14, ImportProfileDoes
  <2>2. \A i \in Slots \ {j} : jobs'[i] = jobs[i] /\ jobs[i].kind # "load"
    BY <2>1 DEF Others, Apart, Running
  <2>3. jobs'[j].kind = "load" /\ jobs'[j].ps = sources' /\ jobs'[j].rows = NoRows BY <2>1 DEF Fresh
  <2>4. OneLoad' BY <2>2, <2>3 DEF OneLoad
  <2>5. LoadsHere' BY <2>2, <2>3, NoRowsType, NoRowType DEF LoadsHere
  <2>6. ShownHere' /\ ShownCurrent' BY <2>3 DEF ShownHere, ShownCurrent, Calm
  <2>7. LoadsCurrent' BY <2>2, <2>3 DEF LoadsCurrent
  <2>8. \A q \in Profiles : q # p => db'[q] = db[q] BY <2>1 DEF OneFile, OnlyFile
  <2>h. \A i \in Slots : jobs[i].kind = "episodes" => At(i) # p /\ At(i) \in Profiles
    BY <1>a, <2>1, AtIn DEF KnownOK
  <2>9. CopiesCurrent' BY <2>2, <2>3, <2>8, <2>h DEF ViewInv, CopiesCurrent, Same, At
  <2> QED BY <2>4, <2>5, <2>6, <2>7, <2>9 DEF ViewInv
<1>15. ASSUME NEW p \in Profiles, PortalChanges(p) PROVE ViewInv'
  BY <1>15
  DEF PortalChanges, ViewInv, OneLoad, LoadsHere, ShownHere, ShownCurrent, LoadsCurrent, CopiesCurrent, Calm, Same, At
<1>16. ASSUME Restart PROVE ViewInv'
  <2>1. PICK a, b \in Slots :
         /\ Fresh(jobs'[a], "load", sources)
         /\ Fresh(jobs'[b], "idle", {}) \/ Fresh(jobs'[b], "fetch", sources)
         /\ \A i \in Slots \ {a, b} : Fresh(jobs'[i], "idle", {})
         /\ bundle' = NoRows /\ sources' = sources
    BY <1>16, RestartDoes
  <2>2. /\ jobs'[a].kind = "load" /\ jobs'[a].ps = sources /\ jobs'[a].rows = NoRows
        /\ \A i \in Slots \ {a} : jobs'[i].kind \in {"idle", "fetch"}
    BY <2>1 DEF Fresh
  <2> QED
    BY <1>t, <2>1, <2>2, NoRowsType, NoRowType
    DEF ViewInv, OneLoad, LoadsHere, ShownHere, ShownCurrent, LoadsCurrent, CopiesCurrent, Calm
<1> QED
  BY <1>1, <1>2, <1>3, <1>4, <1>5, <1>6, <1>7, <1>8, <1>9, <1>10, <1>11, <1>12, <1>13, <1>14, <1>15, <1>16 DEF Next

\* With no job left, the bundle is what the files hold.
LEMMA ViewShowsDisk ==
  ASSUME Shape, KeptInv, ViewInv
  PROVE  RestShowsDisk
<1> USE DEF Shape
<1> SUFFICES ASSUME \A j \in Slots : jobs[j].kind = "idle", NEW p \in Profiles
             PROVE  IF p \in sources THEN bundle[p].v = db[p].row.v /\ bundle[p].meta = db[p].row.meta
                    ELSE bundle[p] = NoRow
  BY DEF RestShowsDisk
<1>1. Calm({"ingest"}) /\ Calm({"load"}) /\ Calm({"ingest", "load"}) BY DEF Calm
<1>2. bundle[p].v # 0 \/ bundle[p] = NoRow BY DEF TypeOK
<1>3. CASE p \notin sources BY <1>1, <1>2, <1>3 DEF ViewInv, ShownHere
<1>4. CASE p \in sources
  <2>1. bundle[p].v = db[p].row.v BY <1>1, <1>4 DEF ViewInv, ShownCurrent, Same
  <2>2. CASE bundle[p].v = 0 BY <1>2, <1>4, <2>1, <2>2 DEF RowsOK
  <2>3. CASE bundle[p].v # 0
    <3>1. bundle[p].meta <=> db[p].row.meta BY <1>4, <2>3 DEF KeptInv, ShownAsKept, AsKept
    <3>2. bundle[p].meta \in BOOLEAN /\ db[p].row.meta \in BOOLEAN BY FileAt DEF Rows
    <3>3. bundle[p].meta = db[p].row.meta BY <3>1, <3>2
    <3> QED BY <1>4, <2>1, <3>3
  <2> QED BY <2>2, <2>3
<1> QED BY <1>3, <1>4

\* At rest the views show what the files hold: of the profiles that are there, and of no other.
THEOREM RestIsShown ==
  ASSUME Faults \cap {"enrich", "loads", "locked"} = {}
  PROVE  Spec => []RestShowsDisk
<1> DEFINE Inv == Shape /\ KeptInv /\ ViewInv
<1>1. Init => Inv BY InitShape, InitKept, InitView
<1>2. Inv /\ [Next]_vars => Inv'
  <2> SUFFICES ASSUME Inv, [Next]_vars PROVE Inv' OBVIOUS
  <2>1. CASE Next BY <2>1, ShapeStep, KeptStep, ViewStep
  <2>2. CASE UNCHANGED vars
    BY <2>2 DEF vars, Shape, KeptInv, TypeOK, JobsOK, RowsOK, KnownOK, OnDisk, OpenHere, PagesAlone, MetaMarked,
      ShownAsKept, LoadsAsKept, CopiesAsKept, IngestsAsKept, AsKept, Commits, Handles, At,
      ViewInv, OneLoad, LoadsHere, ShownHere, ShownCurrent, LoadsCurrent, CopiesCurrent, Calm, Same
  <2> QED BY <2>1, <2>2
<1>3. Inv => RestShowsDisk BY ViewShowsDisk
<1> QED BY <1>1, <1>2, <1>3, PTL DEF Spec

-----------------------------------------------------------------------------
\* What the checksum of the last dump says.  Handles p at one of these stages; fetches p, or has
\* fetched it; has a dump of p.

Holds(j, p, at) == Handles(j, p) /\ p = At(j) /\ jobs[j].at \in at
Gets(j, p) == jobs[j].kind = "fetch" /\ p \in jobs[j].ps \cup Fetched(j)
Have(j, p) == jobs[j].kind = "fetch" /\ jobs[j].dumps[p] # 0

OneIngest == \A i, j \in Slots : jobs[i].kind = "ingest" /\ jobs[j].kind = "ingest" => i = j

\* The dump at hand differs from the last one until its rows are in the file.
DumpsOK ==
  \A j \in Slots, p \in Profiles :
    /\ Holds(j, p, {"read", "commit", "write"}) => jobs[j].dumps[p] # db[p].sum
    /\ Holds(j, p, {"write", "mark"}) => db[p].row.v = jobs[j].dumps[p]

\* The rows are newer than the checksum of p says: an ingest was cut short by a kill.  Whatever
\* is ingested next is newer than the checksum, too.
Overtaken(p) ==
  /\ "kill" \in Faults /\ portal[p] > db[p].sum
  /\ \A j \in Slots : Have(j, p) \/ Handles(j, p) => jobs[j].dumps[p] > db[p].sum
SumsOK ==
  \A p \in Profiles :
    \/ db[p].sum = db[p].row.v
    \/ \E j \in Slots : Holds(j, p, {"write"})
    \/ Overtaken(p)

\* No profile is fetched twice at a time, and dumps come in the order of their versions.
OneFetch == \A p \in Profiles, i, j \in Slots : Gets(i, p) /\ Gets(j, p) => i = j
DumpsOrdered ==
  \A p \in Profiles :
    /\ db[p].sum <= portal[p]
    /\ \A j \in Slots : jobs[j].dumps[p] <= portal[p]
    /\ \A j \in Slots : Have(j, p) \/ Handles(j, p) => db[p].sum <= jobs[j].dumps[p]
    /\ \A i, j \in Slots : Have(i, p) /\ Handles(j, p) => jobs[j].dumps[p] <= jobs[i].dumps[p]
Ordered == OneFetch /\ DumpsOrdered

SumInv == OneIngest /\ DumpsOK /\ SumsOK /\ ("kill" \in Faults => Ordered)

LEMMA InitSum == Init => SumInv
<1> SUFFICES ASSUME Init PROVE SumInv OBVIOUS
<1>1. sources \in SUBSET Profiles BY DEF Init
<1>2. db = Opened([p \in Profiles |-> NoFile], sources) /\ [p \in Profiles |-> NoFile] \in [Profiles -> Files]
  BY NoFileType DEF Init
<1>3. \A p \in Profiles : db[p] = NoFile \/ (p \in sources /\ db[p] = EmptyFile)
  BY <1>1, <1>2, OpenedType
<1>4. \A p \in Profiles : db[p].sum = 0 /\ db[p].row.v = 0 BY <1>3, NoFileType, EmptyFileType, NoRowType
<1>5. \A j \in Slots : jobs[j].kind = "idle" /\ jobs[j].dumps = NoDumps BY IdleType DEF Init
<1>6. \A p \in Profiles : portal[p] = 1 BY DEF Init
<1> QED
  BY <1>4, <1>5, <1>6, NoDumpsType
  DEF SumInv, OneIngest, DumpsOK, SumsOK, Ordered, OneFetch, DumpsOrdered, Holds, Handles, Gets, Have

LEMMA SumStep ==
  ASSUME Faults \cap {"enrich", "loads", "locked", "ingests"} = {}, ~({"kill", "fetches"} \subseteq Faults),
         Shape, KeptInv, ViewInv, SumInv, Next
  PROVE  SumInv'
<1> USE DEF Shape
<1>t. /\ sources \subseteq known /\ known \subseteq Profiles
      /\ db \in [Profiles -> Files] /\ bundle \in [Profiles -> Rows] /\ jobs \in [Slots -> JobType]
      /\ portal \in [Profiles -> Versions]
  BY DEF TypeOK
<1>f. \A j \in Slots : /\ jobs[j].ps \subseteq Profiles /\ jobs[j].dumps \in [Profiles -> Versions]
                       /\ jobs[j].rows \in [Profiles -> Rows]
  BY <1>t DEF JobType
<1>v. Versions \subseteq Nat BY DEF Versions
<1>n. \A p \in Profiles : /\ db[p].sum \in Nat /\ db[p].row.v \in Nat /\ portal[p] \in Nat
                          /\ \A j \in Slots : jobs[j].dumps[p] \in Nat
  BY <1>t, <1>f, <1>v, FileAt
<1>i. \A j \in Slots, p \in Profiles : Have(j, p) => Gets(j, p)
  BY DEF Have, Gets, Fetched, JobsOK
<1> DEFINE Still == /\ \A p \in Profiles : db'[p].sum = db[p].sum /\ db'[p].row.v = db[p].row.v
                    /\ portal' = portal
\* A job ends, or starts what neither fetches nor ingests.
<1>s. ASSUME NEW j \in Slots, Others(j), Still,
             jobs'[j].kind \notin {"ingest", "fetch"}, jobs[j].kind # "ingest" \/ jobs[j].at # "write",
             jobs'[j].dumps = NoDumps \/ jobs'[j].dumps = jobs[j].dumps
      PROVE  SumInv'
  <2>1. \A i \in Slots, p \in Profiles :
          /\ (i # j => jobs'[i] = jobs[i]) /\ ~Handles(j, p)' /\ ~Have(j, p)' /\ ~Gets(j, p)' /\ ~Holds(j, p, {"write"})
    BY <1>s DEF Others, Handles, Have, Gets, Holds
  <2>2. \A i \in Slots, p \in Profiles : i # j =>
          /\ (Handles(i, p)' <=> Handles(i, p)) /\ (Have(i, p)' <=> Have(i, p)) /\ (Gets(i, p)' <=> Gets(i, p))
          /\ At(i)' = At(i)
    BY <2>1 DEF Handles, Have, Gets, Fetched, At
  <2>3. OneIngest' BY <1>s DEF SumInv, OneIngest, Others
  <2>4. DumpsOK' BY <1>s, <2>1, <2>2 DEF SumInv, DumpsOK, Holds
  <2>5. SumsOK' BY <1>s, <2>1, <2>2 DEF SumInv, SumsOK, Holds, Overtaken
  <2>6. Ordered => OneFetch' BY <2>1, <2>2 DEF Ordered, OneFetch
  <2>7. Ordered => DumpsOrdered' BY <1>s, <1>n, <2>1, <2>2, NoDumpsType DEF Ordered, DumpsOrdered
  <2> QED BY <2>3, <2>4, <2>5, <2>6, <2>7 DEF SumInv, Ordered
\* An ingest goes on.
<1>u. ASSUME NEW j \in Slots, Others(j), Still,
             jobs[j].kind = "ingest", jobs'[j].kind = "ingest", jobs[j].at # "write", jobs'[j].at # "write",
             jobs'[j].dumps = jobs[j].dumps, jobs'[j].lost = jobs[j].lost, jobs'[j].ps \subseteq jobs[j].ps,
             \A p \in Profiles :
               /\ Holds(j, p, {"read", "commit"})' => jobs[j].dumps[p] # db[p].sum
               /\ Holds(j, p, {"mark"})' => db[p].row.v = jobs[j].dumps[p]
      PROVE  SumInv'
  <2>1. \A i \in Slots, p \in Profiles :
          /\ (i # j => jobs'[i] = jobs[i]) /\ (Handles(j, p)' => Handles(j, p))
          /\ ~Have(j, p)' /\ ~Gets(j, p)' /\ ~Holds(j, p, {"write"}) /\ ~Holds(j, p, {"write"})'
    BY <1>u DEF Others, Handles, Have, Gets, Holds
  <2>2. \A i \in Slots, p \in Profiles : i # j =>
          /\ (Handles(i, p)' <=> Handles(i, p)) /\ (Have(i, p)' <=> Have(i, p)) /\ (Gets(i, p)' <=> Gets(i, p))
          /\ At(i)' = At(i)
    BY <2>1 DEF Handles, Have, Gets, Fetched, At
  <2>3. OneIngest' BY <1>u DEF SumInv, OneIngest, Others
  <2>4. DumpsOK'
    <3> SUFFICES ASSUME NEW i \in Slots, NEW p \in Profiles
                 PROVE  /\ Holds(i, p, {"read", "commit", "write"})' => jobs'[i].dumps[p] # db'[p].sum
                        /\ Holds(i, p, {"write", "mark"})' => db'[p].row.v = jobs'[i].dumps[p]
      BY DEF DumpsOK
    <3>1. CASE i # j BY <1>u, <2>1, <2>2, <3>1 DEF SumInv, DumpsOK, Holds
    <3>2. CASE i = j BY <1>u, <3>2 DEF Holds
    <3> QED BY <3>1, <3>2
  <2>5. SumsOK' BY <1>u, <2>1, <2>2 DEF SumInv, SumsOK, Holds, Overtaken
  <2>6. Ordered => OneFetch' BY <2>1, <2>2 DEF Ordered, OneFetch
  <2>7. Ordered => DumpsOrdered' BY <1>u, <1>n, <2>1, <2>2 DEF Ordered, DumpsOrdered
  <2> QED BY <2>3, <2>4, <2>5, <2>6, <2>7 DEF SumInv, Ordered
\* A fetch of one profile starts.
<1>w. ASSUME NEW j \in Slots, NEW p \in Profiles, Others(j), Still, jobs[j].kind = "idle",
             Fresh(jobs'[j], "fetch", {p}), "kill" \in Faults => \A i \in Slots : ~Gets(i, p)
      PROVE  SumInv'
  <2>0. /\ jobs'[j].kind = "fetch" /\ jobs'[j].dumps = NoDumps /\ jobs'[j].rows = NoRows
        /\ \A q \in Profiles : q \in jobs'[j].ps => q = p
    BY <1>w DEF Fresh
  <2>1. \A i \in Slots, q \in Profiles :
          /\ (i # j => jobs'[i] = jobs[i]) /\ ~Handles(j, q)' /\ ~Have(j, q)' /\ (Gets(j, q)' => q = p)
          /\ ~Holds(j, q, {"write"})
    BY <1>w, <2>0, NoDumpsType, NoRowsType, NoRowType DEF Others, Handles, Have, Gets, Holds, Fetched
  <2>2. \A i \in Slots, q \in Profiles : i # j =>
          /\ (Handles(i, q)' <=> Handles(i, q)) /\ (Have(i, q)' <=> Have(i, q)) /\ (Gets(i, q)' <=> Gets(i, q))
          /\ At(i)' = At(i)
    BY <2>1 DEF Handles, Have, Gets, Fetched, At
  <2>3. OneIngest' BY <1>w, <2>0 DEF SumInv, OneIngest, Others
  <2>4. DumpsOK' BY <1>w, <2>1, <2>2 DEF SumInv, DumpsOK, Holds
  <2>5. SumsOK' BY <1>w, <2>1, <2>2 DEF SumInv, SumsOK, Holds, Overtaken
  <2>6. ("kill" \in Faults /\ Ordered) => OneFetch' BY <1>w, <2>1, <2>2 DEF Ordered, OneFetch
  <2>7. Ordered => DumpsOrdered' BY <1>w, <1>n, <2>0, <2>1, <2>2, NoDumpsType DEF Ordered, DumpsOrdered
  <2> QED BY <2>3, <2>4, <2>5, <2>6, <2>7 DEF SumInv, Ordered
<1>1. ASSUME NEW j \in Slots, NEW p \in Profiles, Fetches(j, p) PROVE SumInv'
  <2>1. /\ Others(j) /\ jobs[j].kind = "fetch" /\ jobs'[j].kind = "fetch" /\ p \in jobs[j].ps
        /\ jobs'[j].ps = jobs[j].ps \ {p} /\ jobs'[j].dumps[p] \in {0, portal[p]}
        /\ \A q \in Profiles : q # p => jobs'[j].dumps[q] = jobs[j].dumps[q] /\ jobs'[j].rows[q] = jobs[j].rows[q]
        /\ UNCHANGED <<db, portal>>
    BY <1>1, FetchesDoes DEF Keeps
  <2>2. \A q \in Profiles :
          /\ ~Handles(j, q)' /\ ~Handles(j, q) /\ (Gets(j, q)' => Gets(j, q))
          /\ (Have(j, q)' => (q = p /\ jobs'[j].dumps[q] = portal[q])
                             \/ (Have(j, q) /\ jobs'[j].dumps[q] = jobs[j].dumps[q]))
    BY <2>1 DEF Handles, Gets, Have, Fetched
  <2>3. \A i \in Slots, q \in Profiles : i # j =>
          /\ jobs'[i] = jobs[i] /\ At(i)' = At(i)
          /\ (Handles(i, q)' <=> Handles(i, q)) /\ (Have(i, q)' <=> Have(i, q)) /\ (Gets(i, q)' <=> Gets(i, q))
    BY <2>1 DEF Others, Handles, Have, Gets, Fetched, At
  <2>4. OneIngest' BY <2>1 DEF SumInv, OneIngest, Others
  <2>5. DumpsOK' BY <2>1, <2>2, <2>3 DEF SumInv, DumpsOK, Holds
  <2>a. \A i \in Slots, q \in Profiles : Holds(i, q, {"write"}) => Holds(i, q, {"write"})'
    BY <2>2, <2>3 DEF Holds
  <2>b. \A q \in Profiles : Overtaken(q) => Overtaken(q)' BY <1>n, <2>1, <2>2, <2>3 DEF Overtaken
  <2>6. SumsOK' BY <2>1, <2>a, <2>b DEF SumInv, SumsOK
  <2>7. Ordered => OneFetch' BY <2>2, <2>3 DEF Ordered, OneFetch
  <2>8. Ordered => DumpsOrdered'
    <3> SUFFICES ASSUME DumpsOrdered PROVE DumpsOrdered' BY DEF Ordered
    <3>1. \A i \in Slots, q \in Profiles : jobs'[i].dumps[q] <= portal[q]
      BY <1>n, <2>1, <2>3 DEF DumpsOrdered
    <3>2. \A i \in Slots, q \in Profiles : Have(i, q)' \/ Handles(i, q)' => db[q].sum <= jobs'[i].dumps[q]
      BY <1>n, <2>1, <2>2, <2>3 DEF DumpsOrdered
    <3>3. \A i, k \in Slots, q \in Profiles : Have(i, q)' /\ Handles(k, q)' => jobs'[k].dumps[q] <= jobs'[i].dumps[q]
      BY <1>n, <2>1, <2>2, <2>3 DEF DumpsOrdered
    <3> QED BY <2>1, <3>1, <3>2, <3>3 DEF DumpsOrdered
  <2> QED BY <2>4, <2>5, <2>6, <2>7, <2>8 DEF SumInv, Ordered
<1>2. ASSUME NEW j \in Slots, IngestStarts(j) PROVE SumInv'
  <2>1. /\ Others(j) /\ jobs[j].kind = "fetch" /\ UNCHANGED <<db, portal>>
        /\ \A i \in Slots : jobs[i].kind # "ingest"
        /\ \/ jobs'[j] = Idle
           \/ /\ jobs'[j].kind = "ingest" /\ jobs'[j].at = "new"
              /\ jobs'[j].ps = {p \in Fetched(j) : jobs[j].dumps[p] # 0} /\ jobs'[j].dumps = jobs[j].dumps
    BY <1>2, IngestStartsDoes DEF Apart, Running
  <2>2. CASE jobs'[j] = Idle BY <1>s, <2>1, <2>2, IdleType
  <2>3. CASE jobs'[j] # Idle
    <3>1. \A q \in Profiles :
            /\ (Handles(j, q)' => Have(j, q)) /\ ~Have(j, q)' /\ ~Gets(j, q)' /\ jobs'[j].dumps[q] = jobs[j].dumps[q]
      BY <2>1, <2>3 DEF Handles, Gets, Have
    <3>2. \A i \in Slots, q \in Profiles : i # j =>
            /\ jobs'[i] = jobs[i] /\ ~Handles(i, q)'
            /\ (Have(i, q)' <=> Have(i, q)) /\ (Gets(i, q)' <=> Gets(i, q))
      BY <2>1 DEF Others, Handles, Have, Gets, Fetched
    <3>3. OneIngest' BY <2>1 DEF OneIngest, Others
    <3>4. DumpsOK' BY <2>1, <2>3, <3>2 DEF DumpsOK, Holds, Handles
    <3>a. \A i \in Slots, q \in Profiles : ~Holds(i, q, {"write"}) BY <2>1 DEF Holds, Handles
    <3>b. \A q \in Profiles : Overtaken(q) => Overtaken(q)' BY <2>1, <3>1, <3>2 DEF Overtaken
    <3>5. SumsOK' BY <2>1, <3>a, <3>b DEF SumInv, SumsOK
    <3>6. Ordered => OneFetch' BY <3>1, <3>2 DEF Ordered, OneFetch
    <3>7. Ordered => DumpsOrdered'
      <4> SUFFICES ASSUME Ordered PROVE DumpsOrdered' OBVIOUS
      <4>1. \A i \in Slots, q \in Profiles : jobs'[i].dumps[q] <= portal[q]
        BY <3>1, <3>2 DEF Ordered, DumpsOrdered
      <4>2. \A i \in Slots, q \in Profiles : Have(i, q)' \/ Handles(i, q)' => db[q].sum <= jobs'[i].dumps[q]
        BY <3>1, <3>2 DEF Ordered, DumpsOrdered
      <4>3. \A i, k \in Slots, q \in Profiles : ~(Have(i, q)' /\ Handles(k, q)')
        BY <1>i, <3>1, <3>2 DEF Ordered, OneFetch
      <4> QED BY <2>1, <4>1, <4>2, <4>3 DEF Ordered, DumpsOrdered
    <3> QED BY <3>3, <3>4, <3>5, <3>6, <3>7 DEF SumInv, Ordered
  <2> QED BY <2>2, <2>3
<1>3. ASSUME NEW j \in Slots, IngestOpens(j) \/ LoadOpens(j) PROVE SumInv'
  <2>1. /\ db' \in [Profiles -> Files]
        /\ \A p \in Profiles : db'[p] = db[p] \/ (~db[p].exists /\ db'[p] = EmptyFile)
    BY <1>3, <1>t, <1>f, IngestOpensDoes, LoadOpensDoes, OpenedType
  <2>2. \A p \in Profiles : db'[p].row = db[p].row /\ db'[p].sum = db[p].sum
    BY <2>1, <1>t, EmptyFileType, NoFileType DEF TypeOK
  <2>3. /\ Others(j) /\ SameBeside(j)
        /\ \/ jobs[j].kind = "ingest" /\ jobs[j].at = "new" /\ jobs'[j].at = "sum"
           \/ jobs[j].kind = "load"
        /\ portal' = portal
    BY <1>3, IngestOpensDoes, LoadOpensDoes DEF Step
  <2>4. Still BY <2>2, <2>3
  <2>5. CASE jobs[j].kind = "load" BY <1>s, <2>3, <2>4, <2>5 DEF SameBeside
  <2>6. CASE jobs[j].kind = "ingest" BY <1>u, <2>3, <2>4, <2>6 DEF SameBeside, Holds
  <2> QED BY <2>3, <2>5, <2>6
<1>4. ASSUME NEW j \in Slots, IngestCompares(j) PROVE SumInv'
  <2> DEFINE p == At(j)
  <2>1. /\ Others(j) /\ SameBeside(j) /\ Still
        /\ jobs[j].kind = "ingest" /\ jobs[j].at = "sum" /\ jobs[j].ps # {}
        /\ jobs'[j].at = IF db[p].sum = jobs[j].dumps[p] THEN "mark" ELSE "read"
    BY <1>4, IngestComparesDoes DEF Step
  <2>2. At(j)' = p /\ p \in Profiles /\ p \in jobs[j].ps BY <2>1, AtIn DEF SameBeside, At
  <2>3. \A q \in Profiles : ~Holds(j, q, {"write"}) BY <2>1 DEF Holds
  <2>4. \A i \in Slots, q \in Profiles : ~Holds(i, q, {"write"})
    BY <2>1, <2>3 DEF SumInv, OneIngest, Holds, Handles
  <2>5. p \notin jobs[j].lost /\ db[p].sum = jobs[j].dumps[p] => db[p].row.v = jobs[j].dumps[p]
    BY <1>n, <2>1, <2>2, <2>4 DEF SumInv, SumsOK, Overtaken, Handles
  <2> HIDE DEF p
  <2>6. \A q \in Profiles :
          /\ Holds(j, q, {"read", "commit"})' => jobs[j].dumps[q] # db[q].sum
          /\ Holds(j, q, {"mark"})' => db[q].row.v = jobs[j].dumps[q]
    BY <2>1, <2>2, <2>5 DEF Holds, Handles, SameBeside
  <2> QED BY <1>u, <2>1, <2>6 DEF SameBeside
<1>5. ASSUME NEW j \in Slots, IngestReads(j) PROVE SumInv'
  <2>1. /\ Others(j) /\ SameBeside(j) /\ Still /\ db' = db
        /\ jobs[j].kind = "ingest" /\ jobs[j].at = "read" /\ jobs'[j].at = "commit" /\ At(j)' = At(j)
    BY <1>5, IngestReadsShape DEF Step, SameBeside, At
  <2>2. \A q \in Profiles :
          /\ Holds(j, q, {"read", "commit"})' => jobs[j].dumps[q] # db[q].sum
          /\ Holds(j, q, {"mark"})' => db[q].row.v = jobs[j].dumps[q]
    BY <2>1 DEF Holds, Handles, SameBeside, SumInv, DumpsOK
  <2> QED BY <1>u, <2>1, <2>2 DEF SameBeside
<1>6. ASSUME NEW j \in Slots, IngestCommits(j) \/ IngestWritesSum(j) PROVE SumInv'
  <2> DEFINE p == At(j)
  <2>p. /\ jobs[j].ps # {} /\ jobs[j].kind = "ingest"
        /\ IF IngestCommits(j) THEN jobs[j].at = "commit" ELSE jobs[j].at = "write"
    BY <1>6 DEF JobsOK, IngestCommits, IngestWritesSum, Step
  <2>1. /\ Others(j) /\ SameBeside(j) /\ portal' = portal
        /\ jobs'[j].at = IF IngestCommits(j) THEN "write" ELSE "mark"
        /\ OneFile(p) /\ (p \in jobs[j].lost => db' = db)
        /\ p \notin jobs[j].lost =>
             IF IngestCommits(j) THEN db'[p].sum = db[p].sum /\ db'[p].row.v = jobs[j].dumps[p]
             ELSE db'[p].sum = jobs[j].dumps[p] /\ db'[p].row = db[p].row
    BY <1>6, <2>p, IngestCommitsDoes, IngestWritesSumDoes DEF IngestCommits, IngestWritesSum, Step
  <2>2. At(j)' = p /\ p \in Profiles /\ p \in jobs[j].ps BY <2>p, <2>1, AtIn DEF SameBeside, At
  <2>3. \A i \in Slots, q \in Profiles : i # j => ~Handles(i, q) /\ ~Handles(i, q)'
    BY <2>p, <2>1 DEF SumInv, OneIngest, Handles, Others
  <2>4. \A q \in Profiles : Holds(j, q, {"commit"}) \/ Holds(j, q, {"write"}) => q = p BY DEF Holds
  <2>5. p \notin jobs[j].lost => /\ jobs[j].dumps[p] # db[p].sum
                                 /\ ~IngestCommits(j) => db[p].row.v = jobs[j].dumps[p]
    BY <2>p, <2>2 DEF SumInv, DumpsOK, Holds, Handles
  <2> HIDE DEF p
  <2>6. \A q \in Profiles : q # p => db'[q] = db[q] BY <2>1 DEF OneFile, OnlyFile
  <2>7. \A i \in Slots, q \in Profiles :
          /\ jobs'[i].dumps = jobs[i].dumps
          /\ (Handles(i, q)' <=> Handles(i, q)) /\ (Have(i, q)' <=> Have(i, q)) /\ (Gets(i, q)' <=> Gets(i, q))
    BY <2>1, <2>p DEF Others, SameBeside, Handles, Have, Gets, Fetched
  <2>8. OneIngest' BY <2>1 DEF SumInv, OneIngest, Others, SameBeside
  <2>9. DumpsOK'
    <3> SUFFICES ASSUME NEW i \in Slots, NEW q \in Profiles, Handles(i, q)', q = At(i)'
                 PROVE  /\ jobs'[i].at \in {"read", "commit", "write"} => jobs'[i].dumps[q] # db'[q].sum
                        /\ jobs'[i].at \in {"write", "mark"} => db'[q].row.v = jobs'[i].dumps[q]
      BY DEF DumpsOK, Holds
    <3>1. i = j /\ q = p /\ p \notin jobs[j].lost BY <2>2, <2>3, <2>7 DEF Handles
    <3> QED BY <2>1, <2>5, <2>7, <3>1
  <2>10. SumsOK'
    <3> SUFFICES ASSUME NEW q \in Profiles
                 PROVE  \/ db'[q].sum = db'[q].row.v
                        \/ Holds(j, q, {"write"})'
                        \/ Overtaken(q)'
      BY DEF SumsOK
    <3>1. CASE q = p /\ p \notin jobs[j].lost
      <4>1. CASE IngestCommits(j) BY <2>p, <2>1, <2>2, <3>1, <4>1 DEF Holds, Handles, SameBeside
      <4>2. CASE ~IngestCommits(j) BY <2>1, <2>5, <3>1, <4>2
      <4> QED BY <4>1, <4>2
    <3>2. CASE q # p \/ p \in jobs[j].lost
      <4>1. db'[q] = db[q] BY <2>1, <2>6, <3>2
      <4>2. \A i \in Slots : ~Holds(i, q, {"write"})
        <5>1. \A i \in Slots : i # j => ~Holds(i, q, {"write"}) BY <2>3 DEF Holds
        <5>2. ~Holds(j, q, {"write"}) BY <2>4, <3>2 DEF Holds, Handles
        <5> QED BY <5>1, <5>2
      <4>3. Overtaken(q) => Overtaken(q)' BY <2>1, <2>7, <4>1 DEF Overtaken
      <4> QED BY <4>1, <4>2, <4>3 DEF SumInv, SumsOK
    <3> QED BY <3>1, <3>2
  <2>11. Ordered => OneFetch' BY <2>7 DEF Ordered, OneFetch
  <2>12. Ordered => DumpsOrdered'
    <3> SUFFICES ASSUME DumpsOrdered PROVE DumpsOrdered' BY DEF Ordered
    <3>1. \A q \in Profiles : db'[q].sum = db[q].sum \/ (q = p /\ Handles(j, p) /\ db'[q].sum = jobs[j].dumps[q])
      BY <2>p, <2>1, <2>2, <2>6 DEF Handles
    <3>2. \A q \in Profiles : db'[q].sum <= portal[q] BY <3>1, <2>2 DEF DumpsOrdered
    <3>3. \A i \in Slots, q \in Profiles : Have(i, q)' \/ Handles(i, q)' => db'[q].sum <= jobs'[i].dumps[q]
      <4> SUFFICES ASSUME NEW i \in Slots, NEW q \in Profiles, Have(i, q)' \/ Handles(i, q)'
                   PROVE  db'[q].sum <= jobs[i].dumps[q]
        BY <2>7
      <4>1. CASE db'[q].sum = db[q].sum BY <4>1, <2>7 DEF DumpsOrdered
      <4>2. CASE q = p /\ Handles(j, p) /\ db'[q].sum = jobs[j].dumps[q]
        <5>1. CASE Have(i, q)' BY <4>2, <5>1, <2>7 DEF DumpsOrdered
        <5>2. CASE Handles(i, q)'
          <6>1. i = j BY <5>2, <2>3
          <6> QED BY <1>n, <4>2, <6>1
        <5> QED BY <5>1, <5>2
      <4> QED BY <3>1, <4>1, <4>2
    <3> QED BY <2>1, <2>7, <3>2, <3>3 DEF DumpsOrdered
  <2> QED BY <2>8, <2>9, <2>10, <2>11, <2>12 DEF SumInv, Ordered
<1>7. ASSUME NEW j \in Slots, IngestMarks(j) PROVE SumInv'
  <2>p. jobs[j].ps # {} /\ jobs[j].kind = "ingest" /\ jobs[j].at = "mark" BY <1>7 DEF JobsOK, IngestMarks, Step
  <2> DEFINE p == At(j)
  <2>1. /\ Others(j) /\ portal' = portal
        /\ jobs'[j].kind = "ingest" /\ jobs'[j].ps \subseteq jobs[j].ps /\ jobs'[j].at = "sum"
        /\ jobs'[j].dumps = jobs[j].dumps /\ jobs'[j].lost = jobs[j].lost
        /\ OneFile(p) /\ (p \in jobs[j].lost => db' = db)
        /\ p \notin jobs[j].lost => db'[p].row = db[p].row /\ db'[p].sum = db[p].sum
    BY <1>7, <2>p, JobAt, IngestMarksDoes, PastType
  <2> HIDE DEF p
  <2>2. Still BY <2>1 DEF OneFile, OnlyFile
  <2> QED BY <1>u, <2>p, <2>1, <2>2 DEF Holds
<1>8. ASSUME NEW j \in Slots, IngestFails(j) \/ LoadFails(j) PROVE SumInv'
  BY <1>8 DEF IngestFails, LoadFails
<1>9. ASSUME NEW j \in Slots, NEW p \in Profiles, LoadReads(j, p) PROVE SumInv'
  <2>1. /\ Others(j) /\ Still /\ jobs[j].kind = "load" /\ jobs'[j].kind = "load" /\ jobs'[j].dumps = jobs[j].dumps
    BY <1>9, LoadReadsDoes
  <2> QED BY <1>s, <2>1
<1>10. ASSUME NEW j \in Slots, IngestDone(j) \/ BundleCacheReady(j) PROVE SumInv'
  <2>0. sources \in SUBSET Profiles BY <1>t
  <2>1. /\ Others(j) /\ Still
        /\ jobs[j].kind = "load" \/ jobs[j].at = "sum"
        /\ jobs'[j].kind \in {"idle", "load", "enrich"} /\ jobs'[j].dumps = NoDumps
    BY <1>10, <2>0, IngestDoneDoes, BundleCacheReadyDoes DEF Fresh, Step
  <2> QED BY <1>s, <2>1
<1>11. ASSUME NEW j \in Slots, MetaEnriched(j) \/ SeriesEpisodesEnriched(j) PROVE SumInv'
  <2>a. jobs[j].kind = "episodes" => jobs[j].ps # {} BY DEF JobsOK
  <2>1. Still BY <1>11, <2>a, SavesKeepVersions, MetaEnrichedDoes, SeriesEpisodesEnrichedDoes
  <2>2. /\ Others(j) /\ jobs[j].kind \in {"enrich", "episodes"}
        /\ jobs'[j].kind = "idle" /\ jobs'[j].dumps = NoDumps
    BY <1>11, <2>a, MetaEnrichedDoes, SeriesEpisodesEnrichedDoes DEF Fresh
  <2> QED BY <1>s, <2>1, <2>2
<1>12. ASSUME NEW j \in Slots, SeriesDetailLoaded(j) PROVE SumInv'
  <2>a. jobs[j].kind = "episodes" => jobs[j].ps # {} BY DEF JobsOK
  <2>1. /\ Others(j) /\ Still /\ jobs[j].kind = "episodes" /\ jobs'[j].kind \in {"idle", "episodes"}
        /\ jobs'[j].dumps = NoDumps \/ jobs'[j].dumps = jobs[j].dumps
    BY <1>12, <2>a, SeriesDetailLoadedDoes DEF Fresh, SameBeside
  <2> QED BY <1>s, <2>1
<1>13. ASSUME NEW p \in Profiles, OpenSeries(p) PROVE SumInv'
  <2>1. PICK j \in Slots :
         /\ Others(j) /\ Fresh(jobs'[j], "episodes", {p}) /\ jobs[j].kind = "idle"
         /\ UNCHANGED <<db, portal>>
    BY <1>13, OpenSeriesDoes
  <2> QED BY <1>s, <2>1 DEF Fresh
<1>14. ASSUME NEW p \in Profiles, ReloadSource(p) PROVE SumInv'
  <2>1. PICK j \in Slots :
         /\ Others(j) /\ Fresh(jobs'[j], "fetch", {p}) /\ jobs[j].kind = "idle"
         /\ "fetches" \in Faults \/ ~Fetching(p)
         /\ UNCHANGED <<db, portal>>
    BY <1>14, ReloadSourceDoes
  <2>2. "kill" \in Faults => \A i \in Slots : ~Gets(i, p) BY <2>1 DEF Fetching, Gets
  <2> QED BY <1>w, <2>1, <2>2
<1>15. ASSUME NEW p \in Profiles, AddSource(p) PROVE SumInv'
  <2>1. PICK j \in Slots :
         /\ Others(j) /\ Fresh(jobs'[j], "fetch", {p}) /\ jobs[j].kind = "idle"
         /\ p \notin known
         /\ sources' = sources \cup {p}
         /\ db' = Opened(db, sources')
         /\ portal' = portal
    BY <1>15, AddSourceDoes
  <2>a. sources' \in SUBSET Profiles BY <1>t, <2>1
  <2> DEFINE srcs == sources'
  <2> HIDE DEF srcs
  <2>b. srcs \in SUBSET Profiles /\ db' = Opened(db, srcs) BY <2>a, <2>1 DEF srcs
  <2>c. \A q \in Profiles : db'[q] = db[q] \/ (~db[q].exists /\ db'[q] = EmptyFile)
    BY <1>t, <2>b, OpenedType
  <2>d. \A q \in Profiles : db'[q].row = db[q].row /\ db'[q].sum = db[q].sum
    BY <2>c, <1>t, EmptyFileType, NoFileType DEF TypeOK
  <2>2. Still BY <2>1, <2>d
  <2>3. \A i \in Slots : ~Gets(i, p) BY <2>1, NoRowType DEF KnownOK, Gets, Fetched
  <2> QED BY <1>w, <2>1, <2>2, <2>3
<1>16. ASSUME NEW p \in Profiles, RemoveSource(p) PROVE SumInv'
  <2>1. PICK j \in Slots :
         /\ Fresh(jobs'[j], "load", sources') /\ jobs[j].kind = "idle"
         /\ \A i \in Slots : i # j => OrphanedOf(jobs'[i], jobs[i], p)
         /\ OneFile(p) /\ db'[p] = NoFile /\ portal' = portal
    BY <1>16, RemoveSourceDoes
  <2>2. jobs'[j].kind = "load" /\ jobs'[j].dumps = NoDumps BY <2>1 DEF Fresh
  <2>3. \A i \in Slots \ {j} :
          /\ jobs'[i].kind = jobs[i].kind /\ jobs'[i].at = jobs[i].at /\ jobs'[i].dumps = jobs[i].dumps
          /\ jobs[i].kind = "ingest" => jobs'[i].ps = jobs[i].ps /\ jobs[i].lost \subseteq jobs'[i].lost
          /\ jobs[i].kind = "ingest" => \A q \in Profiles : q # p /\ q \in jobs'[i].lost => q \in jobs[i].lost
          /\ jobs[i].kind = "ingest" /\ jobs[i].at # "new" => p \in jobs'[i].lost
          /\ jobs[i].kind = "fetch" => jobs'[i] = jobs[i]
    BY <1>t, <2>1, ReadsType DEF OrphanedOf
  <2>4. \A i \in Slots, q \in Profiles :
          /\ (Handles(i, q)' => Handles(i, q)) /\ (Have(i, q)' => Have(i, q)) /\ (Gets(i, q)' => Gets(i, q))
          /\ jobs'[i].dumps[q] \in {0, jobs[i].dumps[q]}
          /\ jobs'[i].kind \in {"ingest", "fetch"} => i # j
    BY <2>2, <2>3, NoDumpsType DEF Handles, Have, Gets, Fetched
  <2>5. \A i \in Slots, q \in Profiles, ats \in SUBSET {"read", "commit", "write", "mark"} :
          Holds(i, q, ats)' => Holds(i, q, ats) /\ i # j /\ q # p
    BY <2>2, <2>3 DEF Holds, Handles, At
  <2>6. \A i \in Slots, q \in Profiles : q # p /\ Holds(i, q, {"write"}) => Holds(i, q, {"write"})'
    BY <2>1, <2>3 DEF Holds, Handles, At
  <2>7. (\A q \in Profiles : q # p => db'[q] = db[q]) /\ db'[p].sum = 0 /\ db'[p].row.v = 0
    BY <2>1, NoFileType, NoRowType DEF OneFile, OnlyFile
  <2>8. OneIngest' BY <2>2, <2>3 DEF SumInv, OneIngest
  <2>9. DumpsOK'
    <3> SUFFICES ASSUME NEW i \in Slots, NEW q \in Profiles
                 PROVE  /\ Holds(i, q, {"read", "commit", "write"})' => jobs'[i].dumps[q] # db'[q].sum
                        /\ Holds(i, q, {"write", "mark"})' => db'[q].row.v = jobs'[i].dumps[q]
      BY DEF DumpsOK
    <3>1. Holds(i, q, {"read", "commit", "write"})' =>
            Holds(i, q, {"read", "commit", "write"}) /\ i # j /\ q # p
      BY <2>5
    <3>2. Holds(i, q, {"write", "mark"})' => Holds(i, q, {"write", "mark"}) /\ i # j /\ q # p
      BY <2>5
    <3> QED BY <2>3, <2>7, <3>1, <3>2 DEF SumInv, DumpsOK
  <2>a. \A q \in Profiles : q # p /\ Overtaken(q) => Overtaken(q)'
    <3> SUFFICES ASSUME NEW q \in Profiles, q # p, Overtaken(q) PROVE Overtaken(q)' OBVIOUS
    <3>1. \A i \in Slots : Have(i, q)' \/ Handles(i, q)' => jobs'[i].dumps[q] > db[q].sum
      <4> SUFFICES ASSUME NEW i \in Slots, Have(i, q)' \/ Handles(i, q)' PROVE jobs'[i].dumps[q] > db[q].sum
        OBVIOUS
      <4>1. jobs'[i].kind \in {"ingest", "fetch"} BY DEF Have, Handles
      <4>2. jobs'[i].dumps = jobs[i].dumps BY <2>3, <2>4, <4>1
      <4> QED BY <2>4, <4>2 DEF Overtaken
    <3> QED BY <2>1, <2>7, <3>1 DEF Overtaken
  <2>10. SumsOK' BY <2>6, <2>7, <2>a DEF SumInv, SumsOK
  <2>11. Ordered => OneFetch' BY <2>4 DEF Ordered, OneFetch
  <2>12. Ordered => DumpsOrdered'
    <3> SUFFICES ASSUME DumpsOrdered PROVE DumpsOrdered' BY DEF Ordered
    <3>1. \A i \in Slots, q \in Profiles : Have(i, q)' \/ Handles(i, q)' => jobs'[i].dumps = jobs[i].dumps
      <4> SUFFICES ASSUME NEW i \in Slots, NEW q \in Profiles, Have(i, q)' \/ Handles(i, q)'
                   PROVE  jobs'[i].dumps = jobs[i].dumps
        OBVIOUS
      <4>1. jobs'[i].kind \in {"ingest", "fetch"} BY DEF Have, Handles
      <4> QED BY <2>3, <2>4, <4>1
    <3>2. \A q \in Profiles : db'[q].sum <= db[q].sum /\ db'[q].sum <= portal[q]
      BY <1>n, <2>7 DEF DumpsOrdered
    <3>3. \A i \in Slots, q \in Profiles : jobs'[i].dumps[q] <= portal[q] BY <1>n, <2>4 DEF DumpsOrdered
    <3>4. \A i \in Slots, q \in Profiles : Have(i, q)' \/ Handles(i, q)' => db'[q].sum <= jobs'[i].dumps[q]
      BY <1>n, <2>4, <2>7, <3>1 DEF DumpsOrdered
    <3>5. \A i, k \in Slots, q \in Profiles : Have(i, q)' /\ Handles(k, q)' => jobs'[k].dumps[q] <= jobs'[i].dumps[q]
      BY <2>4, <3>1 DEF DumpsOrdered
    <3> QED BY <2>1, <3>2, <3>3, <3>4, <3>5 DEF DumpsOrdered
  <2> QED BY <2>8, <2>9, <2>10, <2>11, <2>12 DEF SumInv, Ordered
<1>17. ASSUME NEW p \in Profiles, ImportProfile(p) PROVE SumInv'
  <2>1. PICK j \in Slots :
         /\ Others(j) /\ Fresh(jobs'[j], "load", sources') /\ jobs[j].kind = "idle"
         /\ p \notin known
         /\ OneFile(p) /\ db'[p].sum = db'[p].row.v /\ db'[p].sum <= portal[p]
         /\ portal' = portal
    BY <1>17, ImportProfileDoes
  <2>2. jobs'[j].kind = "load" /\ jobs'[j].dumps = NoDumps BY <2>1 DEF Fresh
  <2>3. \A q \in Profiles : q # p => db'[q] = db[q] BY <2>1 DEF OneFile, OnlyFile
  <2>4. \A i \in Slots : ~Handles(i, p) /\ ~Have(i, p) /\ ~Gets(i, p)
    BY <2>1, NoRowType DEF KnownOK, Handles, Have, Gets, Fetched
  <2>5. \A i \in Slots, q \in Profiles :
          /\ (Handles(i, q)' <=> Handles(i, q)) /\ (Have(i, q)' <=> Have(i, q)) /\ (Gets(i, q)' <=> Gets(i, q))
    BY <2>1, <2>2 DEF Others, Handles, Have, Gets, Fetched
  <2>6. \A i \in Slots, q \in Profiles, ats \in SUBSET {"read", "commit", "write", "mark"} :
          /\ (Holds(i, q, ats)' <=> Holds(i, q, ats)) /\ (Holds(i, q, ats) => q # p)
    BY <2>1, <2>2, <2>4 DEF Holds, Handles, At, Others
  <2>w. {"write"} \in SUBSET {"read", "commit", "write", "mark"} OBVIOUS
  <2>7. \A i \in Slots, q \in Profiles : /\ jobs'[i].dumps[q] \in {0, jobs[i].dumps[q]}
                                         /\ Handles(i, q) \/ Have(i, q) => jobs'[i].dumps[q] = jobs[i].dumps[q]
    BY <2>1, <2>2, NoDumpsType DEF Others, Handles, Have
  <2>8. OneIngest' BY <2>1, <2>2 DEF SumInv, OneIngest, Others
  <2>9. DumpsOK'
    <3> SUFFICES ASSUME NEW i \in Slots, NEW q \in Profiles
                 PROVE  /\ Holds(i, q, {"read", "commit", "write"})' => jobs'[i].dumps[q] # db'[q].sum
                        /\ Holds(i, q, {"write", "mark"})' => db'[q].row.v = jobs'[i].dumps[q]
      BY DEF DumpsOK
    <3>1. Holds(i, q, {"read", "commit", "write"})' => Holds(i, q, {"read", "commit", "write"}) /\ q # p
      BY <2>6
    <3>2. Holds(i, q, {"write", "mark"})' => Holds(i, q, {"write", "mark"}) /\ q # p
      BY <2>6
    <3>3. Holds(i, q, {"read", "commit", "write"}) \/ Holds(i, q, {"write", "mark"}) => Handles(i, q)
      BY DEF Holds
    <3> QED BY <2>3, <2>7, <3>1, <3>2, <3>3 DEF SumInv, DumpsOK
  <2>a. \A q \in Profiles : q # p /\ Overtaken(q) => Overtaken(q)'
    BY <2>1, <2>3, <2>5, <2>7 DEF Overtaken
  <2>10. SumsOK'
    <3> SUFFICES ASSUME NEW q \in Profiles
                 PROVE  \/ db'[q].sum = db'[q].row.v
                        \/ \E i \in Slots : Holds(i, q, {"write"})'
                        \/ Overtaken(q)'
      BY DEF SumsOK
    <3>1. CASE q = p BY <2>1, <3>1
    <3>2. CASE q # p
      <4>1. \A i \in Slots : Holds(i, q, {"write"}) => Holds(i, q, {"write"})' BY <2>6, <2>w
      <4> QED BY <2>3, <2>a, <3>2, <4>1 DEF SumInv, SumsOK
    <3> QED BY <3>1, <3>2
  <2>11. Ordered => OneFetch' BY <2>5 DEF Ordered, OneFetch
  <2>12. Ordered => DumpsOrdered'
    <3> SUFFICES ASSUME DumpsOrdered PROVE DumpsOrdered' BY DEF Ordered
    <3>1. \A q \in Profiles : db'[q].sum <= portal[q] BY <2>1, <2>3 DEF DumpsOrdered
    <3>2. \A i \in Slots, q \in Profiles : jobs'[i].dumps[q] <= portal[q] BY <1>n, <2>7 DEF DumpsOrdered
    <3>3. \A i \in Slots, q \in Profiles : Have(i, q)' \/ Handles(i, q)' => db'[q].sum <= jobs'[i].dumps[q]
      BY <2>3, <2>4, <2>5, <2>7 DEF DumpsOrdered
    <3>4. \A i, k \in Slots, q \in Profiles : Have(i, q)' /\ Handles(k, q)' => jobs'[k].dumps[q] <= jobs'[i].dumps[q]
      BY <2>5, <2>7 DEF DumpsOrdered
    <3> QED BY <2>1, <3>1, <3>2, <3>3, <3>4 DEF DumpsOrdered
  <2> QED BY <2>8, <2>9, <2>10, <2>11, <2>12 DEF SumInv, Ordered
<1>18. ASSUME NEW p \in Profiles, PortalChanges(p) PROVE SumInv'
  <2>1. /\ db' = db /\ jobs' = jobs /\ \A q \in Profiles : portal[q] <= portal'[q] /\ portal'[q] \in Nat
    BY <1>18, <1>n, <1>t DEF PortalChanges
  <2>2. OneIngest' /\ DumpsOK' BY <2>1 DEF SumInv, OneIngest, DumpsOK, Holds, Handles, At
  <2>3. \A q \in Profiles : Overtaken(q) => Overtaken(q)'
    BY <1>n, <2>1 DEF Overtaken, Have, Handles
  <2>4. SumsOK' BY <2>1, <2>3 DEF SumInv, SumsOK, Holds, Handles, At
  <2>5. Ordered => OneFetch' BY <2>1 DEF Ordered, OneFetch, Gets, Fetched
  <2>6. Ordered => DumpsOrdered' BY <1>n, <2>1 DEF Ordered, DumpsOrdered, Have, Handles
  <2> QED BY <2>2, <2>4, <2>5, <2>6 DEF SumInv, Ordered
<1>19. ASSUME Restart PROVE SumInv'
  <2>1. PICK a, b \in Slots :
         /\ a # b /\ "kill" \in Faults
         /\ Fresh(jobs'[a], "load", sources)
         /\ Fresh(jobs'[b], "idle", {}) \/ Fresh(jobs'[b], "fetch", sources)
         /\ \A i \in Slots \ {a, b} : Fresh(jobs'[i], "idle", {})
         /\ db' = Opened(db, sources)
         /\ portal' = portal
    BY <1>19, RestartDoes
  <2>a. sources \in SUBSET Profiles BY <1>t
  <2>b. \A q \in Profiles : db'[q] = db[q] \/ (~db[q].exists /\ db'[q] = EmptyFile)
    BY <1>t, <2>a, <2>1, OpenedType
  <2>2. \A q \in Profiles : db'[q].row = db[q].row /\ db'[q].sum = db[q].sum
    BY <2>b, <1>t, EmptyFileType, NoFileType DEF TypeOK
  <2>3. \A i \in Slots : /\ jobs'[i].kind # "ingest" /\ jobs'[i].dumps = NoDumps
                         /\ i # b => jobs'[i].kind # "fetch"
    BY <2>1 DEF Fresh
  <2>4. \A i \in Slots, q \in Profiles : /\ ~Handles(i, q)' /\ ~Have(i, q)' /\ jobs'[i].dumps[q] = 0
                                         /\ Gets(i, q)' => i = b
    BY <2>3, NoDumpsType DEF Handles, Have, Gets
  <2>5. OneIngest' BY <2>3 DEF OneIngest
  <2>6. DumpsOK' BY <2>4 DEF DumpsOK, Holds
  <2>7. OneFetch' BY <2>4 DEF OneFetch
  <2>8. DumpsOrdered' BY <1>n, <2>1, <2>2, <2>4 DEF SumInv, Ordered, DumpsOrdered
  <2>9. SumsOK'
    <3> SUFFICES ASSUME NEW q \in Profiles, db[q].sum # db[q].row.v PROVE Overtaken(q)'
      BY <2>2 DEF SumsOK
    <3>1. portal[q] > db[q].sum
      <4>1. CASE Overtaken(q) BY <4>1 DEF Overtaken
      <4>2. CASE ~Overtaken(q)
        <5>1. PICK i \in Slots : Holds(i, q, {"write"}) BY <4>2 DEF SumInv, SumsOK
        <5>2. Handles(i, q) /\ Holds(i, q, {"read", "commit", "write"}) BY <5>1 DEF Holds
        <5>3. jobs[i].dumps[q] # db[q].sum BY <5>2 DEF SumInv, DumpsOK
        <5>4. db[q].sum <= jobs[i].dumps[q] /\ jobs[i].dumps[q] <= portal[q]
          BY <2>1, <5>2 DEF SumInv, Ordered, DumpsOrdered
        <5> QED BY <1>n, <5>3, <5>4
      <4> QED BY <4>1, <4>2
    <3> QED BY <2>1, <2>2, <2>4, <3>1 DEF Overtaken
  <2> QED BY <2>5, <2>6, <2>7, <2>8, <2>9 DEF SumInv, Ordered
<1> HIDE DEF Still
<1> QED
  BY <1>1, <1>2, <1>3, <1>4, <1>5, <1>6, <1>7, <1>8, <1>9, <1>10, <1>11, <1>12, <1>13, <1>14, <1>15, <1>16,
     <1>17, <1>18, <1>19 DEF Next

\* An ingest that finds the checksum of the last dump unchanged is right that the rows are that
\* dump's, after ingests cut short by kills, removals and enrichments; and at rest the views
\* show what the files hold.
THEOREM CatalogueStaysCurrent ==
  ASSUME Faults \cap {"enrich", "loads", "locked", "ingests"} = {}, ~({"kill", "fetches"} \subseteq Faults)
  PROVE  Spec => []CatalogueIsCurrent
<1> DEFINE Inv == Shape /\ KeptInv /\ ViewInv /\ SumInv
<1>1. Init => Inv BY InitShape, InitKept, InitView, InitSum
<1>2. Inv /\ [Next]_vars => Inv'
  <2> SUFFICES ASSUME Inv, [Next]_vars PROVE Inv' OBVIOUS
  <2>1. CASE Next BY <2>1, ShapeStep, KeptStep, ViewStep, SumStep
  <2>2. CASE UNCHANGED vars
    <3>1. Shape' BY <2>2 DEF vars, Shape, TypeOK, JobsOK, RowsOK, KnownOK, OnDisk, Handles, At
    <3>2. KeptInv' BY <2>2 DEF vars, KeptInv, OpenHere, PagesAlone, MetaMarked,
      ShownAsKept, LoadsAsKept, CopiesAsKept, IngestsAsKept, AsKept, Commits, Handles, At
    <3>3. ViewInv'
      BY <2>2 DEF vars, ViewInv, OneLoad, LoadsHere, ShownHere, ShownCurrent, LoadsCurrent, CopiesCurrent, Calm, Same, At
    <3>4. SumInv'
      BY <2>2 DEF vars, SumInv, OneIngest, DumpsOK, SumsOK, Ordered, OneFetch, DumpsOrdered, Overtaken,
        Holds, Handles, Gets, Have, Fetched, At
    <3> QED BY <3>1, <3>2, <3>3, <3>4
  <2> QED BY <2>1, <2>2
<1>3. Inv => CatalogueIsCurrent
  <2> SUFFICES ASSUME Inv PROVE CatalogueIsCurrent OBVIOUS
  <2>1. RestShowsDisk BY ViewShowsDisk
  <2>2. SkippedIsCurrent
    <3> SUFFICES ASSUME NEW j \in Slots, Step(j, "mark"), At(j) \notin jobs[j].lost
                 PROVE  db[At(j)].row.v = jobs[j].dumps[At(j)]
      BY DEF SkippedIsCurrent
    <3>1. jobs[j].ps # {} BY DEF Shape, JobsOK, Step
    <3>2. At(j) \in Profiles /\ At(j) \in jobs[j].ps BY <3>1, AtIn DEF Shape
    <3>3. Holds(j, At(j), {"write", "mark"}) BY <3>2 DEF Holds, Handles, Step
    <3> QED BY <3>2, <3>3 DEF SumInv, DumpsOK
  <2> QED BY <2>1, <2>2 DEF CatalogueIsCurrent
<1> QED BY <1>1, <1>2, <1>3, PTL DEF Spec
=============================================================================
