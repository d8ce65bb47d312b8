------------------------------- MODULE PartFile -------------------------------
(***************************************************************************)
(* The life of a `.part` file: found or created, locked, appended to or    *)
(* filled in segments, renamed once complete                               *)
(* (src/crates/fluxplay/src/downloads.rs).                                 *)
(*                                                                         *)
(* Several windows of the application may download the same title into the *)
(* same folder.  A window works on the file it holds the lock of, keeps    *)
(* the sidecar (Meta) in memory and on disk, and asks one server after the *)
(* other for the bytes it does not have.  The title's content changes on   *)
(* the servers, which shows in its validator (ETag) and its size.          *)
(*                                                                         *)
(* A byte is the version of the content it belongs to, 0 where the file    *)
(* was only extended.  The segmented phase is SegmentedFetch seen from     *)
(* outside: it writes missing bytes, checkpoints and ends.  An Option of   *)
(* the code is a set of at most one element.                               *)
(***************************************************************************)
EXTENDS Naturals, Sequences, FiniteSets

CONSTANTS
  Windows,    \* processes of the application
  NNames,     \* names `<stem>.ext`, `<stem> (2).ext`, ... the folder may hold
  NServers,   \* servers of the account
  NVersions,  \* versions of the content
  SizeOf,     \* bytes of each version
  SplitMin,   \* Tuning::segmented_min
  Faults      \* what may happen: see FaultKinds

FaultKinds == {"kill", "cancel", "drop", "refuse", "gone", "range", "disk",
               "save", "change", "plain"}
Names == 1 .. NNames
Servers == 1 .. NServers
Versions == 1 .. NVersions

ConstantsOK ==
  /\ NNames \in Nat \ {0}
  /\ NServers \in Nat \ {0}
  /\ NVersions \in Nat \ {0}
  /\ SizeOf \in [Versions -> Nat \ {0}]
  /\ SplitMin \in Nat
  /\ Faults \subseteq FaultKinds
  /\ "nobody" \notin Windows

VARIABLES
  file,     \* each file: whether it is a `.part` or final, its bytes, its lock
  sidecar,  \* the `.part.meta` on disk of each name
  server,   \* what each server has now, and whether it honours ranges
  run       \* the download of each window

vars == <<file, sidecar, server, run>>

Nobody == "nobody"
None == {}
NoMeta == [total |-> None, tag |-> None, todo |-> None]
Idle == [pc |-> "idle", n |-> 0, meta |-> NoMeta, idx |-> 1, from |-> None,
         status |-> 0, ver |-> 0, got |-> {}]
NoFile == [name |-> "none", data |-> <<>>, holder |-> Nobody]

Init ==
  /\ file = [n \in Names |-> NoFile]
  /\ sidecar = [n \in Names |-> None]
  /\ server = [s \in Servers |-> [ver |-> 1, ranges |-> TRUE]]
  /\ run = [w \in Windows |-> Idle]

-----------------------------------------------------------------------------
\* Dest::len; no file yet counts as empty.
Offset(w) == IF run[w].n = 0 THEN 0 ELSE Len(file[run[w].n].data)
Segmented(meta) == meta.todo # None
Missing(w) == UNION run[w].meta.todo
\* Dest::done: total minus the holes, or the length.
Done(w) == IF Segmented(run[w].meta)
             THEN Cardinality(UNION {1 .. t : t \in run[w].meta.total} \ Missing(w))
             ELSE Offset(w)
SetLenPast(data, n) == [i \in 1 .. n + 1 |-> IF i <= Len(data) THEN data[i] ELSE 0]
SetLen(data, n) == [i \in 1 .. n |-> IF i <= Len(data) THEN data[i] ELSE 0]

\* Dest::save_meta ignores its error.
SaveMeta(n, meta) ==
  \/ sidecar' = [sidecar EXCEPT ![n] = {meta}]
  \/ "save" \in Faults /\ UNCHANGED sidecar

GoTo(w, pc) == run' = [run EXCEPT ![w].pc = pc]
Write(n, data) == file' = [file EXCEPT ![n].data = data]
\* Dest::truncate: the file and the copy of the sidecar in memory.
Truncate(w, pc) ==
  /\ Write(run[w].n, <<>>)
  /\ run' = [run EXCEPT ![w].pc = pc, ![w].meta = NoMeta, ![w].got = {}]

\* The window's handle is closed, which releases the lock.
Unlocked(w) == [n \in Names |-> IF file[n].holder = w
                                  THEN [file[n] EXCEPT !.holder = Nobody] ELSE file[n]]
Stop(w) == run' = [run EXCEPT ![w] = Idle]

-----------------------------------------------------------------------------
\* find_resumable: a `.part` with a sidecar of this title, else one without a
\* sidecar that nobody touched for a while; sidecars without `.part` go.
Find(w) ==
  LET parts == {n \in Names : file[n].name = "part"}
      stale == {n \in Names : sidecar[n] # None /\ n \notin parts}
      known == {n \in parts : sidecar[n] # None}
      legacy == {n \in parts : sidecar[n] = None /\ file[n].holder = Nobody}
      Sweep(gone) ==
        sidecar' = [n \in Names |-> IF n \in gone THEN None ELSE sidecar[n]]
      Open(n, meta) ==
        run' = [run EXCEPT ![w] = [Idle EXCEPT !.pc = "open", !.n = n, !.meta = meta]]
  IN  /\ run[w].pc = "idle"
      /\ \/ \E n \in known, gone \in SUBSET stale :
              /\ \E meta \in sidecar[n] : Open(n, meta)
              /\ Sweep(gone)
         \/ known = {} /\ \E n \in legacy : Open(n, NoMeta) /\ Sweep(stale)
         \/ /\ known = {}
            /\ run' = [run EXCEPT ![w] = [Idle EXCEPT !.pc = "request"]]
            /\ Sweep(stale)
      /\ UNCHANGED <<file, server>>

OpenUnlocked(w) ==
  LET n == run[w].n
  IN  /\ run[w].pc = "open"
      /\ file[n].name = "part"
      /\ file' = [file EXCEPT ![n].holder = w]
      /\ SaveMeta(n, run[w].meta)
      /\ run' = [run EXCEPT ![w].pc = "request",
                            ![w].from = IF NServers = 1 THEN {1} ELSE None]
      /\ UNCHANGED server

\* open_existing: lock the `.part` and write the sidecar back.  A validator
\* read from disk is trusted only when there is a single server.
Open(w) ==
  LET n == run[w].n
  IN  /\ run[w].pc = "open"
      /\ file[n].name = "part" /\ file[n].holder = Nobody
      /\ file' = [file EXCEPT ![n].holder = w]
      /\ SaveMeta(n, run[w].meta)
      /\ run' = [run EXCEPT ![w].pc = "request",
                            ![w].from = IF NServers = 1 THEN {1} ELSE None]
      /\ UNCHANGED server

\* Another window has it, or renamed or removed it meanwhile.
OpenFails(w) ==
  LET n == run[w].n
  IN  /\ run[w].pc = "open"
      /\ file[n].name # "part" \/ file[n].holder # Nobody
      /\ Stop(w)
      /\ UNCHANGED <<file, sidecar, server>>

-----------------------------------------------------------------------------
\* attempt, up to the answer.
Requesting(w) == run[w].pc = "request" /\ ~Segmented(run[w].meta)
Asked(w) == server[run[w].idx]

\* The If-Range validator sent: that of the server which gave it.
Validator(w) ==
  IF Offset(w) > 0 /\ run[w].from = {run[w].idx} THEN run[w].meta.tag ELSE None

\* Whether the server serves the range: it honours ranges and the validator,
\* if one was sent, is that of its present content.
Current(w) == Asked(w).ranges /\ Validator(w) \subseteq {Asked(w).ver}

\* The connection got an answer of this status with the server's content.
Answered(w, status) ==
  [run[w] EXCEPT !.pc = "begin", !.status = status, !.ver = Asked(w).ver]

AnswerPartial(w) ==
  /\ Requesting(w)
  /\ Current(w)
  /\ Offset(w) < SizeOf[Asked(w).ver]
  /\ run' = [run EXCEPT ![w] = Answered(w, 206)]
  /\ UNCHANGED <<file, sidecar, server>>

AnswerWholeAppends(w) ==
  /\ Requesting(w)
  /\ ~Current(w)
  /\ run' = [run EXCEPT ![w] = Answered(w, 200)]
  /\ UNCHANGED <<file, sidecar, server>>

\* 200 to a range request: the file starts over.
AnswerWhole(w) ==
  /\ Requesting(w)
  /\ ~Current(w)
  /\ run' = [run EXCEPT ![w] = IF Offset(w) > 0
                                 THEN [Answered(w, 200) EXCEPT !.meta = NoMeta]
                                 ELSE Answered(w, 200)]
  /\ IF Offset(w) > 0 THEN Write(run[w].n, <<>>) ELSE UNCHANGED file
  /\ UNCHANGED <<sidecar, server>>

\* 416: nothing after our bytes.  Complete if the size agrees (the server's,
\* else the one in the sidecar), or the file starts over.
AnswerNoRange(w) ==
  /\ Requesting(w)
  /\ Current(w)
  /\ Offset(w) > 0 /\ Offset(w) >= SizeOf[Asked(w).ver]
  /\ \E announced \in {None, {SizeOf[Asked(w).ver]}} :
       LET total == IF announced # None THEN announced ELSE run[w].meta.total
       IN  IF total = {Offset(w)}
             THEN GoTo(w, "finish") /\ UNCHANGED file
             ELSE Truncate(w, "retry")
  /\ UNCHANGED <<sidecar, server>>

\* 206 for another range than the one asked for: the file starts over.
AnswerWrongRange(w) ==
  /\ "range" \in Faults
  /\ Requesting(w)
  /\ IF run[w].n = 0 THEN GoTo(w, "retry") /\ UNCHANGED file ELSE Truncate(w, "retry")
  /\ UNCHANGED <<sidecar, server>>

\* No answer, or a refusal: some are worth another try.
AnswerRefused(w) ==
  /\ Requesting(w)
  /\ \/ "refuse" \in Faults /\ GoTo(w, "retry")
     \/ "gone" \in Faults /\ GoTo(w, "fatal")
  /\ UNCHANGED <<file, sidecar, server>>

-----------------------------------------------------------------------------
\* The meta of an answer.  A body of unknown length is framed (chunked).
MetaOf(w, total) == [total |-> total, tag |-> {run[w].ver}, todo |-> None]
Totals(w) == {{SizeOf[run[w].ver]}} \cup IF run[w].status = 200 THEN {None} ELSE {}
\* Bytes that are worth several connections (can_split: some accounts).
Splits(w, total) ==
  run[w].status = 206 /\ \E t \in total : t - Offset(w) >= SplitMin

FreeNames == {n \in Names : file[n].name = "none"}
\* The destination: the one resumed, or the first free name.
Destination(w) ==
  IF run[w].n # 0 THEN {run[w].n} ELSE {n \in FreeNames : \A m \in FreeNames : n <= m}
Created(w, n) ==
  IF run[w].n # 0 THEN file[n] ELSE [name |-> "part", data |-> <<>>, holder |-> w]

Begin(w) ==
  /\ run[w].pc = "begin"
  /\ \E n \in Destination(w), total \in Totals(w) :
       /\ ~Splits(w, total)
       /\ file' = [file EXCEPT ![n] = Created(w, n)]
       /\ run' = [run EXCEPT ![w] =
                    [@ EXCEPT !.pc = "body", !.n = n, !.meta = MetaOf(w, total),
                              !.from = {run[w].idx}]]
       /\ SaveMeta(n, MetaOf(w, total))
  /\ UNCHANGED server

\* Segmented: the file is preallocated, only then is the sidecar saved.
Preallocate(w) ==
  /\ run[w].pc = "begin"
  /\ \E n \in Destination(w), total \in Totals(w) :
       /\ Splits(w, total)
       /\ \E t \in total :
            /\ file' = [file EXCEPT ![n] =
                          [Created(w, n) EXCEPT !.data = SetLen(@, t)]]
            /\ run' = [run EXCEPT ![w] =
                 [@ EXCEPT !.pc = "sized", !.n = n, !.from = {run[w].idx},
                    !.meta = [MetaOf(w, total) EXCEPT !.todo = {(Offset(w) + 1) .. t}]]]
  /\ UNCHANGED <<sidecar, server>>

SaveSegmented(w) ==
  /\ run[w].pc = "sized"
  /\ SaveMeta(run[w].n, run[w].meta)
  /\ GoTo(w, "segmented")
  /\ UNCHANGED <<file, server>>

\* No name is free.
BeginFails(w) ==
  /\ run[w].pc = "begin"
  /\ Destination(w) = {}
  /\ GoTo(w, "fatal")
  /\ UNCHANGED <<file, sidecar, server>>

\* Sequential body: append what comes, until the end of that version.
Body(w) ==
  LET n == run[w].n
  IN  /\ run[w].pc = "body"
      /\ Offset(w) < SizeOf[run[w].ver]
      /\ Write(n, Append(file[n].data, run[w].ver))
      /\ UNCHANGED <<sidecar, server, run>>

BodyEndsEarly(w) ==
  /\ run[w].pc = "body"
  /\ GoTo(w, "finish")
  /\ UNCHANGED <<file, sidecar, server>>

BodyEnds(w) ==
  /\ run[w].pc = "body"
  /\ Offset(w) = SizeOf[run[w].ver]
  /\ GoTo(w, "finish")
  /\ UNCHANGED <<file, sidecar, server>>

BodyFails(w) ==
  /\ run[w].pc = "body"
  /\ \/ "drop" \in Faults /\ GoTo(w, "retry")
     \/ "disk" \in Faults /\ GoTo(w, "fatal")
  /\ UNCHANGED <<file, sidecar, server>>

-----------------------------------------------------------------------------
\* parallel::run on a `.part` that already has a list of holes.
Resume(w) ==
  LET n == run[w].n
  IN  /\ run[w].pc = "request" /\ Segmented(run[w].meta)
      /\ \/ Missing(w) = {} /\ GoTo(w, "finish") /\ UNCHANGED file
         \/ Missing(w) # {} /\ file[n].name # "part" /\ GoTo(w, "fatal") /\ UNCHANGED file
         \/ /\ Missing(w) # {} /\ file[n].name = "part"
            /\ GoTo(w, "segmented")
            /\ \E total \in run[w].meta.total :
                 IF Len(file[n].data) < total
                   THEN Write(n, SetLen(file[n].data, total)) ELSE UNCHANGED file
      /\ UNCHANGED <<sidecar, server>>

\* Servers that answer a range of this file: the size must agree.
Serving(w) == {s \in Servers : server[s].ranges /\ {SizeOf[server[s].ver]} = run[w].meta.total}
\* Servers that lost their ranges.
Plain == {s \in Servers : ~server[s].ranges}

SegmentWrite(w) ==
  /\ run[w].pc = "segmented"
  /\ \E b \in Missing(w) \ run[w].got, s \in Serving(w) :
       /\ file' = [file EXCEPT ![run[w].n].data[b] = server[s].ver]
       /\ run' = [run EXCEPT ![w].got = @ \cup {b}]
  /\ UNCHANGED <<sidecar, server>>

CheckpointAll(w, pc) ==
  LET meta == [run[w].meta EXCEPT !.todo = {{}}]
  IN  /\ SaveMeta(run[w].n, meta)
      /\ run' = [run EXCEPT ![w] = [@ EXCEPT !.pc = pc, !.meta = meta, !.got = {}]]

\* The holes filled so far leave the sidecar.
Checkpoint(w, pc) ==
  LET meta == [run[w].meta EXCEPT !.todo = {Missing(w) \ run[w].got}]
  IN  /\ SaveMeta(run[w].n, meta)
      /\ run' = [run EXCEPT ![w] = [@ EXCEPT !.pc = pc, !.meta = meta, !.got = {}]]

SegmentTick(w) ==
  /\ run[w].pc = "segmented"
  /\ run[w].got # {}
  /\ Checkpoint(w, "segmented")
  /\ UNCHANGED <<file, server>>

\* The run ends: complete, out of servers for now or for good, disk error.
SegmentEnds(w) ==
  /\ run[w].pc = "segmented"
  /\ \/ Missing(w) \subseteq run[w].got /\ Checkpoint(w, "finish")
     \/ /\ ~(Missing(w) \subseteq run[w].got)
        /\ \/ "drop" \in Faults /\ Checkpoint(w, "retry")
           \/ Serving(w) = {} /\ Plain # {} /\ Checkpoint(w, "restart")
           \/ Serving(w) = {} /\ Plain = {} /\ Checkpoint(w, "fatal")
           \/ "disk" \in Faults /\ Checkpoint(w, "fatal")
  /\ UNCHANGED <<file, server>>

\* The servers no longer resume this file: truncate, then save the sidecar.
Restart(w) ==
  /\ run[w].pc = "restart"
  /\ Truncate(w, "truncated")
  /\ UNCHANGED <<sidecar, server>>

SaveRestarted(w) ==
  /\ run[w].pc = "truncated"
  /\ SaveMeta(run[w].n, run[w].meta)
  /\ GoTo(w, "retry")
  /\ UNCHANGED <<file, server>>

-----------------------------------------------------------------------------
\* download_into, after an attempt: try the next server, or give up.
Retry(w) ==
  /\ run[w].pc = "retry"
  /\ \/ /\ run' = [run EXCEPT ![w] =
               [@ EXCEPT !.pc = "request", !.idx = (run[w].idx % NServers) + 1,
                  !.status = 0, !.ver = 0]]
        /\ UNCHANGED file
     \/ Stop(w) /\ file' = Unlocked(w)
  /\ UNCHANGED <<sidecar, server>>

\* discard_partial: the `.part` and its sidecar, if that is what they still are.
Discard(w) ==
  LET n == run[w].n
  IN  /\ file' = [Unlocked(w) EXCEPT ![n] = IF file[n].name = "part" THEN NoFile ELSE @]
      /\ sidecar' = [sidecar EXCEPT ![n] = None]

Fatal(w) ==
  /\ run[w].pc = "fatal"
  /\ IF run[w].n # 0 /\ Done(w) = 0
       THEN Discard(w)
       ELSE file' = Unlocked(w) /\ UNCHANGED sidecar
  /\ Stop(w)
  /\ UNCHANGED server

\* finish: sync, release the lock, rename, drop the sidecar.
Finish(w) ==
  /\ run[w].pc = "finish"
  /\ file' = Unlocked(w)
  /\ GoTo(w, "renaming")
  /\ UNCHANGED <<sidecar, server>>

Rename(w) ==
  LET n == run[w].n
  IN  /\ run[w].pc = "renaming"
      /\ IF file[n].name = "part"
           THEN /\ file' = [file EXCEPT ![n].name = "final"]
                /\ GoTo(w, "cleanup")
           ELSE /\ UNCHANGED file
                /\ Stop(w)
      /\ UNCHANGED <<sidecar, server>>

Cleanup(w) ==
  /\ run[w].pc = "cleanup"
  /\ sidecar' = [sidecar EXCEPT ![run[w].n] = None]
  /\ Stop(w)
  /\ UNCHANGED <<file, server>>

-----------------------------------------------------------------------------
\* The process of a window is killed.
Kill(w) ==
  /\ "kill" \in Faults
  /\ run[w].pc # "idle"
  /\ file' = Unlocked(w)
  /\ Stop(w)
  /\ UNCHANGED <<sidecar, server>>

\* The user cancels: the task is aborted and its `.part` removed.
Cancel(w) ==
  /\ "cancel" \in Faults
  /\ run[w].n # 0
  /\ run[w].pc \in {"request", "body", "segmented", "retry"}
  /\ Discard(w)
  /\ Stop(w)
  /\ UNCHANGED server

\* A server's content is replaced, or it stops honouring ranges.
ServerChanges(s) ==
  /\ \/ /\ "change" \in Faults
        /\ server[s].ver < NVersions
        /\ server' = [server EXCEPT ![s].ver = @ + 1]
     \/ /\ "plain" \in Faults
        /\ server[s].ranges
        /\ server' = [server EXCEPT ![s].ranges = FALSE]
  /\ UNCHANGED <<file, sidecar, run>>

WindowStep(w) ==
  \/ Find(w) \/ Open(w) \/ OpenFails(w)
  \/ AnswerPartial(w) \/ AnswerWhole(w) \/ AnswerNoRange(w)
  \/ AnswerWrongRange(w) \/ AnswerRefused(w)
  \/ Begin(w) \/ Preallocate(w) \/ SaveSegmented(w) \/ BeginFails(w)
  \/ Body(w) \/ BodyEnds(w) \/ BodyFails(w)
  \/ Resume(w) \/ SegmentWrite(w) \/ SegmentTick(w) \/ SegmentEnds(w)
  \/ Restart(w) \/ SaveRestarted(w)
  \/ Retry(w) \/ Fatal(w) \/ Finish(w) \/ Rename(w) \/ Cleanup(w)
  \/ Kill(w) \/ Cancel(w)

Next ==
  \/ \E w \in Windows : WindowStep(w)
  \/ \E s \in Servers : ServerChanges(s)

Spec == Init /\ [][Next]_vars
-----------------------------------------------------------------------------
Places == {"idle", "open", "request", "begin", "sized", "body", "segmented", "restart",
           "truncated", "retry", "fatal", "finish", "renaming", "cleanup"}
Sizes == {SizeOf[v] : v \in Versions}
\* An Option, and a Meta: it lists holes inside its total.
Options(S) == {None} \cup {{x} : x \in S}
IsMeta(meta) ==
  /\ DOMAIN meta = {"total", "tag", "todo"}
  /\ meta.total \in Options(Sizes) /\ meta.tag \in Options(Versions)
  /\ meta.todo # None => \E t \in meta.total : \E b \in SUBSET (1 .. t) : meta.todo = {b}

\* Every variable keeps its type; a sidecar lists holes inside its total.
TypeOK ==
  /\ \A n \in Names :
       /\ file[n].name \in {"none", "part", "final"}
       /\ file[n].data \in Seq(0 .. NVersions)
       /\ file[n].data = <<>> \/ \E size \in Sizes : Len(file[n].data) <= size
       /\ file[n].holder \in Windows \cup {Nobody}
       /\ sidecar[n] = None \/ \E meta \in sidecar[n] : IsMeta(meta) /\ sidecar[n] = {meta}
  /\ \A s \in Servers : server[s].ver \in Versions /\ server[s].ranges \in BOOLEAN
  /\ \A w \in Windows : run[w].pc \in Places /\ run[w].n \in 0 .. NNames
                        /\ IsMeta(run[w].meta)

Bytes(n) == {file[n].data[i] : i \in 1 .. Len(file[n].data)}

\* A file that carries its final name has the length of a version of the
\* title and no byte that was never downloaded (finish; downloads.rs:5-6).
FinishedIsWhole ==
  \A n \in Names : file[n].name = "final" =>
    0 \notin Bytes(n) /\ \E v \in Versions : Len(file[n].data) = SizeOf[v]

\* However often the connection drops, the process dies or the content is
\* replaced, a file fetched sequentially from one server is one version of it
\* (Meta::validator: never two versions spliced together).
FinishedIsOneVersion ==
  \A n \in Names : file[n].name = "final" =>
    \E v \in Versions : Bytes(n) = {v} /\ Len(file[n].data) = SizeOf[v]

\* Two windows never write to one file at a time (Dest::lock).
Writing(w) == run[w].pc \in {"request", "begin", "sized", "body", "segmented",
                             "restart", "truncated", "retry"} /\ run[w].n # 0
OneWriter ==
  \A v, w \in Windows : v # w /\ Writing(v) /\ Writing(w) => run[v].n # run[w].n

\* A file that has its final name is never written to again, whatever window
\* still has it open (finish: the lock goes before the rename).
LeavesFinished == \A n \in Names : file[n].name = "final" => file'[n].data = file[n].data
FinishedIsLeftAlone == [][LeavesFinished]_vars

\* Between two runs the sidecar tells the truth: bytes it does not list as
\* missing were downloaded.
SidecarHonest ==
  \A n \in Names : \A meta \in sidecar[n] :
    (file[n].name = "part" /\ file[n].holder = Nobody) =>
      \A i \in 1 .. Len(file[n].data) :
        file[n].data[i] = 0 => \E todo \in meta.todo : i \in todo
=============================================================================
