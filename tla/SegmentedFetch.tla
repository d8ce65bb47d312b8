---------------------------- MODULE SegmentedFetch ----------------------------
(***************************************************************************)
(* Several ranged connections filling one preallocated `.part` file        *)
(* (src/crates/fluxplay/src/downloads/parallel.rs).                        *)
(*                                                                         *)
(* The coordinator `run` spawns connections while there is work; each      *)
(* claims a span of missing bytes, opens the first usable server and       *)
(* writes at its own offset, outside the lock that protects the spans.     *)
(* Every few seconds, and once at the end, the coordinator checkpoints:    *)
(* it snapshots the holes, syncs the data and only then replaces the       *)
(* sidecar.  A killed process or a power cut leaves the file and the       *)
(* sidecar behind, and the next run starts from the sidecar.               *)
(*                                                                         *)
(* A byte is an offset of the file.  What a byte contains is not           *)
(* modelled, only whether it was written and whether it reached the disk.  *)
(***************************************************************************)
EXTENDS Naturals, TLC

CONSTANTS
  Total,      \* length of the file announced by the server
  Offset,     \* bytes the sequential attempt had before switching
  MinSplit,   \* Tuning::min_split
  MaxSpan,    \* Tuning::max_span
  MaxChunk,   \* most bytes one flush writes (WRITE_BUFFER)
  Conns,      \* connections; their number is MAX_CONNECTIONS
  NServers,   \* servers of the account, in ranking order
  Refusing,   \* servers that may say they cannot serve the file
  Fickle,     \* servers that may answer 200 to a range request
  Faults      \* what may fail: see FaultKinds

Servers == 1 .. NServers
FaultKinds == {"drop", "disk", "sync", "save", "kill", "power"}

ASSUME ConstantsAssumption ==
  /\ Total \in Nat \ {0}
  /\ Offset \in 0 .. (Total - 1)
  /\ MinSplit \in Nat \ {0}
  /\ MaxSpan \in Nat \ {0}
  /\ MaxChunk \in Nat \ {0}
  /\ NServers \in Nat \ {0}
  /\ Refusing \subseteq Servers
  /\ Fickle \subseteq Servers
  /\ Faults \subseteq FaultKinds

VARIABLES
  spans,     \* Work.spans: missing ranges and whether someone fetches them
  conn,      \* each connection task: where it is, its span, its position
  server,    \* ServerState of each server: "ok", "resting" (retry_at) or "bad"
  lost,      \* Shared.lost_ranges
  co,        \* the coordinator: its place in `run` and the result so far
  snap,      \* the holes the checkpoint under way has snapshotted
  todo,      \* Meta.todo in memory: the ranges still missing
  sidecar,   \* the ranges the sidecar on disk says are missing
  written,   \* bytes in the file as the operating system shows it
  durable    \* bytes that survive a power cut

\* The connections are interchangeable, for the model checker.
Symmetry == Permutations(Conns)

vars == <<spans, conn, server, lost, co, snap, todo, sidecar,
          written, durable>>
disk == <<sidecar, written, durable>>

Bytes == 0 .. (Total - 1)
Range(pos, end) == pos .. (end - 1)
Holes == {h \in (0 .. Total) \X (0 .. Total) : h[1] < h[2]}
Cover(holes) == {b \in Bytes : \E h \in holes : h[1] <= b /\ b < h[2]}

Span(id, pos, end, owned) ==
  [id |-> id, pos |-> pos, end |-> end, owned |-> owned]
SpanSet == [id : 0 .. Total, pos : 0 .. Total, end : 0 .. Total, owned : BOOLEAN]
Left(s) == s.end - s.pos
HolesOfOwned(sp) == {<<s.pos, s.end>> : s \in {t \in sp : t.owned}}
HolesOf(sp) == {<<s.pos, s.end>> : s \in sp}

\* Connections that hold a span, and those still running at all.
Holding == {"picking", "opening", "fetching", "writing", "written"}
Live == Holding \cup {"acquiring", "failed"}
ConnSet == [pc : Live \cup {"none", "detached"}, id : 0 .. Total,
            pos : 0 .. Total, n : 0 .. MaxChunk, server : Servers]
NoConn == [pc |-> "none", id |-> 0, pos |-> 0, n |-> 0, server |-> 1]
CoSet == [pc : {"switch", "idle", "loop", "sync", "save", "truncate", "truncated", "done"},
          result : {"none", "ok", "retry", "restart", "fatal"}]

Goto(c, place) == conn' = [conn EXCEPT ![c] = place]
\* Connection c goes on without a span: to the slot queue or to its end.
Leave(c, pc) == Goto(c, [NoConn EXCEPT !.pc = pc])
SpanOf(c) == CHOOSE s \in spans : s.id = conn[c].id
Unowned == {s \in spans : ~s.owned}
HasWork == \E s \in spans : ~s.owned \/ Left(s) >= 2 * MinSplit
Usable == {i \in Servers : server[i] = "ok"}
AllBad == \A i \in Servers : server[i] = "bad"

-----------------------------------------------------------------------------
\* `attempt` has just switched to segmented mode: the sequential prefix is in
\* the file, not synced, and the one hole is the rest.
Init ==
  /\ spans = {}
  /\ conn = [c \in Conns |-> NoConn]
  /\ server = [i \in Servers |-> "ok"]
  /\ lost = FALSE
  /\ co = [pc |-> "switch", result |-> "none"]
  /\ snap = {}
  /\ todo = {<<Offset, Total>>}
  /\ sidecar = {<<Offset, Total>>}
  /\ written = Range(0, Offset)
  /\ durable = {}

\* Work::push numbers the spans; here a span is named by where it started when
\* it was pushed, and OneFetcher checks that no two spans share a name.
WorkNew(holes) == {Span(h[1], h[1], h[2], FALSE) : h \in holes}

StartRun ==
  /\ co.pc = "idle"
  /\ conn' = [c \in Conns |-> IF conn[c].pc = "detached" THEN conn[c] ELSE NoConn]
  /\ server' = [i \in Servers |-> "ok"]
  /\ lost' = FALSE
  /\ todo' = IF co.result = "fatal" THEN sidecar ELSE todo
  /\ IF todo' = {}
       THEN /\ co' = [pc |-> "done", result |-> "ok"]
            /\ UNCHANGED spans
       ELSE /\ co' = [pc |-> "loop", result |-> "none"]
            /\ spans' = WorkNew(todo')
  /\ UNCHANGED <<snap, disk>>

TakeHeadLosesTail(sp, s) ==
  (sp \ {s}) \cup {Span(s.id, s.pos, IF s.pos + MaxSpan < s.end
                                      THEN s.pos + MaxSpan ELSE s.end, TRUE)}
TakeHeadUncut(sp, s) ==
  LET cut == s.pos + MaxSpan
  IN  (sp \ {s}) \cup {Span(s.id, s.pos, s.end, TRUE)}
        \cup IF cut < s.end THEN {Span(cut, cut, s.end, FALSE)} ELSE {}
TakeHeadPastEnd(sp, s) == (sp \ {s}) \cup {Span(s.id, s.pos, s.pos + MaxSpan, TRUE)}

\* Claim the first unowned span: its head, at most MaxSpan bytes of it.
TakeHead(sp, s) ==
  LET cut == s.pos + MaxSpan
      rest == IF cut < s.end THEN {Span(cut, cut, s.end, FALSE)} ELSE {}
      end == IF cut < s.end THEN cut ELSE s.end
  IN  (sp \ {s}) \cup {Span(s.id, s.pos, end, TRUE)} \cup rest

\* The sequential attempt hands its open 206 answer over as connection c.
StartHanded(c) ==
  LET first == Span(Offset, Offset, Total, FALSE)
  IN  /\ co.pc = "switch"
      /\ co' = [pc |-> "loop", result |-> "none"]
      /\ spans' = TakeHead({first}, first)
      /\ \E i \in Servers :
           Goto(c, [pc |-> "fetching", id |-> Offset, pos |-> Offset, n |-> 0, server |-> i])
      /\ UNCHANGED <<server, lost, snap, todo, disk>>

-----------------------------------------------------------------------------
\* The coordinator opens connections while a new one would find work.
Spawn(c) ==
  /\ co.pc = "loop"
  /\ conn[c].pc = "none"
  /\ HasWork
  /\ Usable # {}
  /\ Leave(c, "acquiring")
  /\ UNCHANGED <<spans, server, lost, co, snap, todo, disk>>

ClaimHead(c) ==
  /\ conn[c].pc = "acquiring"
  /\ \E s \in Unowned :
       /\ \A t \in Unowned : s.pos <= t.pos
       /\ spans' = TakeHead(spans, s)
       /\ Goto(c, [conn[c] EXCEPT !.pc = "picking", !.id = s.id, !.pos = s.pos])
  /\ UNCHANGED <<server, lost, co, snap, todo, disk>>

\* Everything is owned: take the back half of the largest span.  Its owner,
\* which may be writing past the cut, stops there when it commits.
ClaimHalf(c) ==
  /\ conn[c].pc = "acquiring"
  /\ Unowned = {}
  /\ \E s \in spans :
       /\ \A t \in spans : Left(t) <= Left(s)
       /\ Left(s) >= 2 * MinSplit
       /\ LET mid == s.pos + Left(s) \div 2
          IN  /\ spans' = (spans \ {s}) \cup
                    {Span(s.id, s.pos, mid, TRUE), Span(mid, mid, s.end, TRUE)}
              /\ Goto(c, [conn[c] EXCEPT !.pc = "picking", !.id = mid, !.pos = mid])
  /\ UNCHANGED <<server, lost, co, snap, todo, disk>>

ClaimNothing(c) ==
  /\ conn[c].pc = "acquiring"
  /\ ~HasWork
  /\ Leave(c, "none")
  /\ UNCHANGED <<spans, server, lost, co, snap, todo, disk>>

ReleaseRewinds(c) ==
  spans' = {IF s.id = conn[c].id THEN [s EXCEPT !.owned = FALSE, !.pos = s.id]
                                 ELSE s : s \in spans}

\* Give the span of connection c back.
Release(c) ==
  spans' = {IF s.id = conn[c].id THEN [s EXCEPT !.owned = FALSE] ELSE s : s \in spans}

\* First usable server in ranking order; none: the span goes back.
PickServer(c) ==
  /\ conn[c].pc = "picking"
  /\ \E i \in Usable :
       /\ \A j \in Usable : i <= j
       /\ Goto(c, [conn[c] EXCEPT !.pc = "opening", !.server = i])
  /\ UNCHANGED <<spans, server, lost, co, snap, todo, disk>>

PickNone(c) ==
  /\ conn[c].pc = "picking"
  /\ Usable = {}
  /\ Release(c)
  /\ Leave(c, "none")
  /\ UNCHANGED <<server, lost, co, snap, todo, disk>>

\* server_done: a server found bad stays bad.
ServerDone(i, outcome) ==
  server' = [server EXCEPT ![i] = IF @ = "bad" THEN "bad" ELSE outcome]

OpenOk(c) ==
  /\ conn[c].pc = "opening"
  /\ Goto(c, [conn[c] EXCEPT !.pc = "fetching"])
  /\ UNCHANGED <<spans, server, lost, co, snap, todo, disk>>

\* No answer, or a refusal that may pass: the server rests.  A refusal also
\* notices that every server has meanwhile been found bad.
OpenFails(c) ==
  /\ "drop" \in Faults
  /\ conn[c].pc = "opening"
  /\ ServerDone(conn[c].server, "resting")
  /\ Release(c)
  /\ \/ Leave(c, "none")
     \/ AllBad' /\ ~lost /\ Leave(c, "failed")
  /\ UNCHANGED <<lost, co, snap, todo, disk>>

\* The server does not have this file.  Once every server said so the
\* connection fails for good, unless one of them only lost its ranges.
OpenRefused(c) ==
  /\ conn[c].pc = "opening"
  /\ conn[c].server \in Refusing
  /\ ServerDone(conn[c].server, "bad")
  /\ Release(c)
  /\ Leave(c, IF AllBad' /\ ~lost THEN "failed" ELSE "none")
  /\ UNCHANGED <<lost, co, snap, todo, disk>>

\* 200 to a range request: this server cannot resume the file any more.
OpenWithoutRange(c) ==
  /\ conn[c].pc = "opening"
  /\ conn[c].server \in Fickle
  /\ lost' = TRUE
  /\ ServerDone(conn[c].server, "bad")
  /\ Release(c)
  /\ Leave(c, "none")
  /\ UNCHANGED <<co, snap, todo, disk>>

\* Its retry_at has passed.
Rested(i) ==
  /\ server[i] = "resting"
  /\ server' = [server EXCEPT ![i] = "ok"]
  /\ UNCHANGED <<spans, conn, lost, co, snap, todo, disk>>

-----------------------------------------------------------------------------
\* flush: clamp under the lock, write outside it, commit under it again.
FlushClamp(c) ==
  /\ conn[c].pc = "fetching"
  /\ \E len \in 1 .. MaxChunk :
       LET left == Left(SpanOf(c))
       IN  Goto(c, [conn[c] EXCEPT !.pc = "writing",
                                   !.n = IF len < left THEN len ELSE left])
  /\ UNCHANGED <<spans, server, lost, co, snap, todo, disk>>

FlushWrite(c) ==
  /\ conn[c].pc = "writing"
  /\ written' = written \cup Range(conn[c].pos, conn[c].pos + conn[c].n)
  /\ Goto(c, [conn[c] EXCEPT !.pc = "written"])
  /\ UNCHANGED <<spans, server, lost, co, snap, todo, sidecar, durable>>

CommitOnlyWhole(s, to) == IF to < s.end THEN s.pos ELSE s.end
\* Where span s starts once its owner has written up to `to`: a thief may have
\* moved the end below that.
CommitPos(s, to) == IF to < s.end THEN to ELSE s.end

FlushCommit(c) ==
  LET s == SpanOf(c)
      pos == CommitPos(s, conn[c].pos + conn[c].n)
  IN  /\ conn[c].pc = "written"
      /\ IF pos >= s.end
           THEN /\ spans' = spans \ {s}
                /\ ServerDone(conn[c].server, "ok")
                /\ Leave(c, "acquiring")
           ELSE /\ spans' = (spans \ {s}) \cup {[s EXCEPT !.pos = pos]}
                /\ Goto(c, [conn[c] EXCEPT !.pc = "fetching", !.pos = pos, !.n = 0])
                /\ UNCHANGED server
      /\ UNCHANGED <<lost, co, snap, todo, disk>>

FlushFails(c) ==
  /\ "disk" \in Faults
  /\ conn[c].pc = "writing"
  /\ ServerDone(conn[c].server, "ok")
  /\ Release(c)
  /\ Leave(c, "failed")
  /\ UNCHANGED <<lost, co, snap, todo, disk>>

\* Far slower than it was: reopen at the same position, keeping the span.
Slowed(c) ==
  /\ conn[c].pc = "fetching"
  /\ ServerDone(conn[c].server, "ok")
  /\ Goto(c, [conn[c] EXCEPT !.pc = "picking"])
  /\ UNCHANGED <<spans, lost, co, snap, todo, disk>>

\* The answer ended early; the server rests unless it moved real data.
Dropped(c) ==
  /\ "drop" \in Faults
  /\ conn[c].pc = "fetching"
  /\ \E outcome \in {"ok", "resting"} : ServerDone(conn[c].server, outcome)
  /\ Release(c)
  /\ Leave(c, "none")
  /\ UNCHANGED <<lost, co, snap, todo, disk>>

\* A write that was under way when its task was aborted lands later.
LateWrite(c) ==
  /\ conn[c].pc = "detached"
  /\ written' = written \cup Range(conn[c].pos, conn[c].pos + conn[c].n)
  /\ Goto(c, NoConn)
  /\ UNCHANGED <<spans, server, lost, co, snap, todo, sidecar, durable>>

-----------------------------------------------------------------------------
\* A tick of the coordinator: snapshot the holes, then sync, then save.
Snapshot ==
  /\ co.pc = "loop"
  /\ snap' = HolesOf(spans)
  /\ co' = [co EXCEPT !.pc = "sync"]
  /\ UNCHANGED <<spans, conn, server, lost, todo, disk>>

AfterCheckpoint(result) ==
  co' = [co EXCEPT !.pc = CASE result = "none" -> "loop"
                            [] result = "ok" -> "done"
                            [] result = "restart" -> "truncate"
                            [] OTHER -> "idle"]

SyncOk ==
  /\ co.pc = "sync"
  /\ co' = [co EXCEPT !.pc = "save"]
  /\ durable' = written
  /\ UNCHANGED <<spans, conn, server, lost, snap, todo, sidecar, written>>

\* (Mutant: the error of the sync is dropped and the sidecar saved.)
SyncFailsUnnoticed ==
  /\ "sync" \in Faults
  /\ co.pc = "sync"
  /\ co' = [co EXCEPT !.pc = "save"]
  /\ UNCHANGED <<spans, conn, server, lost, snap, todo, disk>>

\* A sync that fails leaves Meta.todo and the sidecar as they were.
SyncFails ==
  /\ "sync" \in Faults
  /\ co.pc = "sync"
  /\ AfterCheckpoint(co.result)
  /\ snap' = {}
  /\ UNCHANGED <<spans, conn, server, lost, todo, disk>>

SaveUnsynced ==
  /\ co.pc = "save"
  /\ todo' = HolesOf(spans)
  /\ sidecar' = HolesOf(spans)
  /\ AfterCheckpoint(co.result)
  /\ snap' = {}
  /\ UNCHANGED <<spans, conn, server, lost, written, durable>>

\* save_meta ignores its error: then only the copy in memory moves on.
Save ==
  /\ co.pc = "save"
  /\ todo' = snap
  /\ \/ sidecar' = snap
     \/ "save" \in Faults /\ sidecar' = sidecar
  /\ AfterCheckpoint(co.result)
  /\ snap' = {}
  /\ UNCHANGED <<spans, conn, server, lost, written, durable>>

TruncateKeepsTodo ==
  /\ co.pc = "truncate"
  /\ written' = {}
  /\ durable' = {}
  /\ co' = [co EXCEPT !.pc = "truncated"]
  /\ UNCHANGED <<spans, conn, server, lost, snap, todo, sidecar>>

\* The servers no longer resume this file: start it over.  The truncated
\* file is sequential again and its resume offset is its length, zero, so
\* every byte is missing.
Truncate ==
  /\ co.pc = "truncate"
  /\ written' = {}
  /\ durable' = {}
  /\ todo' = {<<0, Total>>}
  /\ co' = [co EXCEPT !.pc = "truncated"]
  /\ UNCHANGED <<spans, conn, server, lost, snap, sidecar>>

SaveTruncatedSkipped ==
  /\ co.pc = "truncated"
  /\ co' = [pc |-> "idle", result |-> "retry"]
  /\ UNCHANGED <<spans, conn, server, lost, snap, todo, disk>>

SaveTruncated ==
  /\ co.pc = "truncated"
  /\ \/ sidecar' = todo
     \/ "save" \in Faults /\ sidecar' = sidecar
  /\ co' = [pc |-> "idle", result |-> "retry"]
  /\ UNCHANGED <<spans, conn, server, lost, snap, todo, written, durable>>

\* No connection is left and none may be opened: why the loop ends.
Drained ==
  /\ co.pc = "loop"
  /\ \A c \in Conns : conn[c].pc \in {"none", "detached"}
  /\ ~HasWork \/ Usable = {}
  /\ co' = [pc |-> "sync",
            result |-> CASE spans = {} -> "ok"
                         [] spans # {} /\ AllBad /\ lost -> "restart"
                         [] spans # {} /\ AllBad /\ ~lost -> "fatal"
                         [] OTHER -> "retry"]
  /\ snap' = HolesOf(spans)
  /\ UNCHANGED <<spans, conn, server, lost, todo, disk>>

\* A connection returned an error nothing can cure: the others are aborted.
\* A blocking write cannot be aborted and outlives its task.
JoinFailed ==
  /\ co.pc = "loop"
  /\ \E c \in Conns : conn[c].pc = "failed"
  /\ conn' = [c \in Conns |-> IF conn[c].pc \in {"writing", "detached"}
                                THEN [conn[c] EXCEPT !.pc = "detached"]
                                ELSE NoConn]
  /\ co' = [pc |-> "sync", result |-> "fatal"]
  /\ snap' = HolesOf(spans)
  /\ UNCHANGED <<spans, server, lost, todo, disk>>

-----------------------------------------------------------------------------
\* The process is killed: its memory is gone, the file and sidecar stay.
Die ==
  /\ co.pc # "done"
  /\ co' = [pc |-> "idle", result |-> "fatal"]
  /\ conn' = [c \in Conns |-> NoConn]
  /\ spans' = {}
  /\ server' = [i \in Servers |-> "ok"]
  /\ lost' = FALSE
  /\ snap' = {}
  /\ todo' = sidecar
  /\ UNCHANGED sidecar

Kill ==
  /\ "kill" \in Faults
  /\ Die
  /\ UNCHANGED <<written, durable>>

\* A power cut also loses any part of what was not synced.
PowerCut ==
  /\ "power" \in Faults
  /\ Die
  /\ written' \in {durable \cup lucky : lucky \in SUBSET (written \ durable)}
  /\ UNCHANGED durable

ConnStep(c) ==
  \/ ClaimHead(c) \/ ClaimHalf(c) \/ ClaimNothing(c)
  \/ PickServer(c) \/ PickNone(c)
  \/ OpenOk(c) \/ OpenFails(c) \/ OpenRefused(c) \/ OpenWithoutRange(c)
  \/ FlushClamp(c) \/ FlushWrite(c) \/ FlushCommit(c) \/ FlushFails(c)
  \/ Slowed(c) \/ Dropped(c) \/ LateWrite(c)

Next ==
  \/ StartRun
  \/ \E c \in Conns : StartHanded(c)
  \/ \E c \in Conns : Spawn(c) \/ ConnStep(c)
  \/ \E i \in Servers : Rested(i)
  \/ Snapshot \/ SyncOk \/ SyncFails \/ Save
  \/ Truncate \/ SaveTruncated
  \/ Drained \/ JoinFailed
  \/ Kill \/ PowerCut

Spec == Init /\ [][Next]_vars

\* The runtime runs every task that can run, the coordinator passes through
\* the top of its loop between two checkpoints, and the servers answer, and
\* send some data, again and again.
Fairness ==
  /\ WF_vars(StartRun)
  /\ \A c \in Conns :
       /\ WF_vars(ConnStep(c))
       /\ SF_vars(OpenOk(c))
       /\ SF_vars(FlushClamp(c))
  /\ WF_vars(\E c \in Conns : StartHanded(c))
  /\ \A i \in Servers : WF_vars(Rested(i))
  /\ WF_vars(SyncOk \/ SyncFails)
  /\ WF_vars(Save)
  /\ SF_vars(\E c \in Conns : Spawn(c))
  /\ SF_vars(Drained)

FairSpec == Spec /\ Fairness
-----------------------------------------------------------------------------
\* Every variable keeps its type.
TypeOK ==
  /\ spans \subseteq SpanSet
  /\ conn \in [Conns -> ConnSet]
  /\ server \in [Servers -> {"ok", "resting", "bad"}]
  /\ lost \in BOOLEAN
  /\ co \in CoSet
  /\ snap \subseteq Holes
  /\ todo \subseteq Holes
  /\ sidecar \subseteq Holes
  /\ written \subseteq Bytes
  /\ durable \subseteq Bytes

\* A run that returns Ok, which is what gets the file renamed to its final
\* name, has every byte in the file, whatever was stolen, dropped, aborted,
\* checkpointed or killed before (run, Ok branch; downloads.rs:5-6).
CompleteWhenOk == co.pc = "done" => Bytes \subseteq written

\* Claims and splits never hand the same byte to two spans, and no span is
\* held by two connections: a byte has one fetcher (Work::take, release).
OneFetcher ==
  /\ \A s, t \in spans : s # t =>
       /\ s.id # t.id
       /\ s.end <= t.pos \/ t.end <= s.pos
  /\ \A c, d \in Conns : c # d /\ {conn[c].pc, conn[d].pc} \subseteq Holding
       => conn[c].id # conn[d].id

\* A connection that works on a span owns it in Work and writes exactly where
\* the span starts, after any number of steals and reopenings (connection,
\* fetch: the local `pos` and the span's `pos` move apart only inside flush).
OwnerInStep ==
  \A c \in Conns : conn[c].pc \in Holding =>
    \E s \in spans : s.id = conn[c].id /\ s.owned /\ s.pos = conn[c].pos

\* Whenever the process may die, the bytes the sidecar does not list as
\* missing are in the file: a crash loses progress, it never marks unwritten
\* bytes done (checkpoint; parallel.rs:20-22).  Truncation is apart.
UnwrittenNeverDone ==
  co.pc = "truncated" \/ Bytes \ Cover(sidecar) \subseteq written

\* Over the restarts of a file whose servers refuse or lose their ranges both hold.
RestartsAreSafe == CompleteWhenOk /\ UnwrittenNeverDone

\* The same against a power cut: ranges leave the sidecar only once their
\* data is on the disk (Meta::todo), for all that this run fetched.
DroppedIsDurable ==
  co.pc = "truncated" \/ Range(Offset, Total) \ Cover(sidecar) \subseteq durable

\* While a run goes on, splitting, stealing and releasing spans never make a
\* byte missing again, and a byte stops being missing only once written.
MissingShrinks ==
  [][co.pc = "loop" /\ co'.pc \in {"loop", "sync"} =>
       LET before == Cover(HolesOf(spans))
           after == Cover(HolesOf(spans'))
       IN  after \subseteq before /\ before \ after \subseteq written]_vars

\* A run ends, however often its connections drop, slow down or fail to open
\* and whichever servers give up: a span given back is taken up again, and
\* what two connections stole from each other is still finished (run, loop).
RunEnds == co.pc = "loop" ~> co.result # "none"

-----------------------------------------------------------------------------
\* The file and its sidecar, as a caller of `run` relies on them.
Phase == CASE co.pc = "truncated" -> "emptied"
           [] co.pc = "done" -> "done"
           [] OTHER -> "open"

File == INSTANCE ResumableFile
          WITH Bytes <- Bytes, Fetched <- Range(Offset, Total),
               listed <- Cover(sidecar), written <- written,
               durable <- durable, phase <- Phase

\* However the connections and the coordinator interleave, die and start
\* again, what they do to the file and to the sidecar is what a resumable file
\* allows: every step is one of its steps, or leaves all of it alone (run,
\* checkpoint and flush together; parallel.rs:20-22).
IsResumableFile == File!Spec
=============================================================================
