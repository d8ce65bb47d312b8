----------------------------- MODULE DownloadQueue -----------------------------
(***************************************************************************)
(* The download manager of the application (src/crates/fluxplay/src/app.rs *)
(* and the types of downloads.rs): MAX_PARALLEL transfers at a time, the   *)
(* others queued, any of them cancelled by the user.                       *)
(*                                                                         *)
(* A transfer is a task of its own.  Its events reach the application      *)
(* through the queue of messages of the user interface, which carry the    *)
(* URL and not the task: what a task sent before it was aborted is still   *)
(* delivered.  A URL may be requested again, so that a URL has several     *)
(* tasks in the course of time (`Gens` numbers those that still matter).   *)
(*                                                                         *)
(* A handler of the user interface is one step.  A transfer is seen from   *)
(* outside: it opens its `.part`, then ends; PartFile says what it does.   *)
(***************************************************************************)
EXTENDS Naturals, Sequences, FiniteSets, TLC

CONSTANTS
  Urls,        \* titles
  MaxParallel, \* MAX_PARALLEL
  NGens,       \* tasks of one URL that are live or still have messages (bound)
  MaxInbox,    \* messages sent and not handled (bound)
  Again        \* whether a URL is requested while old messages of it are pending

Gens == 1 .. NGens

ASSUME ConstantsAssumption ==
  /\ IsFiniteSet(Urls)
  /\ MaxParallel \in Nat \ {0}
  /\ NGens \in Nat \ {0} /\ MaxInbox \in Nat \ {0}
  /\ Again \in BOOLEAN

VARIABLES
  downloads,  \* DownloadState of each URL, with the task and the part it knows
  queue,      \* download_queue
  tasks,      \* what each task of a URL is doing
  inbox,      \* messages not handled yet
  parts       \* URLs with a `.part` on disk

vars == <<downloads, queue, tasks, inbox, parts>>

Absent == [st |-> "none", gen |-> 0, part |-> FALSE]
Queued == [Absent EXCEPT !.st = "queued"]
Running(g) == [st |-> "running", gen |-> g, part |-> FALSE]
Ended(st) == [Absent EXCEPT !.st = st]

Init ==
  /\ downloads = [u \in Urls |-> Absent]
  /\ queue = <<>>
  /\ tasks = [u \in Urls |-> [g \in Gens |-> "gone"]]
  /\ inbox = <<>>
  /\ parts = {}

-----------------------------------------------------------------------------
Elements(s) == {s[i] : i \in 1 .. Len(s)}
Is(ds, st) == {u \in Urls : ds[u].st = st}
Live(u) == {g \in Gens : tasks[u][g] \in {"new", "open"}}
Pending(u) == {m \in Elements(inbox) : m.url = u}
FreeGens(u) == {g \in Gens : g \notin Live(u) /\ \A m \in Pending(u) : m.gen # g}
FreeGen(u) == CHOOSE g \in FreeGens(u) : \A h \in FreeGens(u) : g <= h

\* start_download, for each URL of `us`: a task of its own.
Started(ds, us) == [u \in Urls |-> IF u \in us THEN Running(FreeGen(u)) ELSE ds[u]]
Spawned(ts, us) ==
  [u \in Urls |-> IF u \in us THEN [ts[u] EXCEPT ![FreeGen(u)] = "new"] ELSE ts[u]]

\* request_download, for URLs in the order of `s`: the first ones get the
\* transfers that are left, the others wait.
Request(s) ==
  LET running == Cardinality(Is(downloads, "running"))
      first == {i \in 1 .. Len(s) : running + i <= MaxParallel}
      started == {s[i] : i \in first}
      ds == [u \in Urls |-> IF u \in Elements(s) \ started THEN Queued ELSE downloads[u]]
  IN  /\ \A u \in Elements(s) : FreeGens(u) # {} /\ (Again \/ Pending(u) = {})
      /\ downloads' = Started(ds, started)
      /\ tasks' = Spawned(tasks, started)
      /\ queue' = queue \o SubSeq(s, Cardinality(first) + 1, Len(s))
      /\ UNCHANGED <<inbox, parts>>

DownloadMedia(u) ==
  /\ downloads[u].st \notin {"running", "queued"}
  /\ Request(<<u>>)

\* The episodes of a season, in their order, that are neither here nor coming.
Listings(us) ==
  {s \in [1 .. Cardinality(us) -> us] : \A i, j \in DOMAIN s : s[i] = s[j] => i = j}
DownloadSeason(us) ==
  /\ us # {} /\ \A u \in us : downloads[u].st \in {"none", "failed"}
  /\ \E s \in Listings(us) : Request(s)

-----------------------------------------------------------------------------
\* pump_download_queue: URLs leave the queue while a transfer is left for
\* them; one that is no longer queued takes none.
Pump(ds, ts, q) ==
  LET Before(i) == {j \in 1 .. i - 1 : ds[q[j]].st = "queued"}
      taken == {i \in 1 .. Len(q) :
                  Cardinality(Is(ds, "running")) + Cardinality(Before(i)) < MaxParallel}
      us == {q[i] : i \in taken} \cap Is(ds, "queued")
  IN  /\ downloads' = Started(ds, us)
      /\ tasks' = Spawned(ts, us)
      /\ queue' = SubSeq(q, Cardinality(taken) + 1, Len(q))

\* handle.abort() of the task the state knows.
Aborted(us) ==
  [u \in Urls |-> IF u \in us THEN [tasks[u] EXCEPT ![downloads[u].gen] = "gone"] ELSE tasks[u]]
RetainedAll(us) == queue
\* retain: those that are left keep their order.
Retained(us) ==
  LET kept == {i \in 1 .. Len(queue) : queue[i] \notin us}
      Place(i) == Cardinality({j \in kept : j <= i})
  IN  [k \in 1 .. Cardinality(kept) |-> queue[CHOOSE i \in kept : Place(i) = k]]

\* cancel_download, for each URL of `us`: abort the task, drop the `.part` it
\* is known to write, or leave the queue.  Then the queue is pumped.
CancelAll(us) ==
  LET running == us \cap Is(downloads, "running")
      queued == us \cap Is(downloads, "queued")
      ds == [u \in Urls |-> IF u \in running \cup queued THEN Absent ELSE downloads[u]]
  IN  /\ parts' = parts \ {u \in running : downloads[u].part}
      /\ Pump(ds, Aborted(running), Retained(queued))
      /\ UNCHANGED inbox

CancelDownload(u) == downloads[u].st \in {"running", "queued"} /\ CancelAll({u})
CancelSeasonDownloads(us) ==
  /\ \E u \in us : downloads[u].st \in {"running", "queued"}
  /\ CancelAll(us)

-----------------------------------------------------------------------------
\* The message at the head of the inbox: an event of a download that is not
\* running is ignored.
Deliver(st) ==
  /\ inbox # <<>> /\ Head(inbox).ev = st
  /\ inbox' = Tail(inbox)
  /\ UNCHANGED parts

EventIgnored ==
  /\ inbox # <<>> /\ downloads[Head(inbox).url].st # "running"
  /\ Deliver(Head(inbox).ev)
  /\ UNCHANGED <<downloads, queue, tasks>>

EventStarted ==
  LET u == Head(inbox).url
  IN  /\ Deliver("started")
      /\ downloads[u].st = "running"
      /\ downloads' = [downloads EXCEPT ![u].part = TRUE]
      /\ UNCHANGED <<queue, tasks>>

FinishedNoPump(st) ==
  LET u == Head(inbox).url
  IN  /\ Deliver(st)
      /\ downloads[u].st = "running"
      /\ downloads' = [downloads EXCEPT ![u] = Ended(st)]
      /\ UNCHANGED <<tasks, queue>>

FinishedInPlace(st) ==
  LET u == Head(inbox).url
  IN  /\ Deliver(st)
      /\ downloads[u].st = "running"
      /\ Pump([downloads EXCEPT ![u].st = st], tasks, queue)

\* The download is over, and the queue is pumped.
EventFinished(st) ==
  LET u == Head(inbox).url
  IN  /\ Deliver(st)
      /\ downloads[u].st = "running"
      /\ Pump([downloads EXCEPT ![u] = Ended(st)], tasks, queue)

-----------------------------------------------------------------------------
\* A task of `downloads::run`, from outside.
TaskTo(u, g, pc) == tasks' = [tasks EXCEPT ![u][g] = pc]
Send(u, g, ev) ==
  /\ Len(inbox) < MaxInbox
  /\ inbox' = Append(inbox, [url |-> u, gen |-> g, ev |-> ev])

\* It locks the `.part`, which no other task of the title may hold.
TaskOpens(u, g) ==
  /\ tasks[u][g] = "new"
  /\ \A h \in Gens : tasks[u][h] # "open"
  /\ TaskTo(u, g, "open") /\ Send(u, g, "started")
  /\ parts' = parts \cup {u}
  /\ UNCHANGED <<downloads, queue>>

TaskFinishes(u, g) ==
  /\ tasks[u][g] = "open"
  /\ TaskTo(u, g, "gone") /\ Send(u, g, "done")
  /\ parts' = parts \ {u}
  /\ UNCHANGED <<downloads, queue>>

\* It keeps its `.part` unless nothing was fetched.
TaskFails(u, g) ==
  /\ tasks[u][g] \in {"new", "open"}
  /\ TaskTo(u, g, "gone") /\ Send(u, g, "failed")
  /\ parts' \in {parts} \cup IF tasks[u][g] = "open" THEN {parts \ {u}} ELSE {}
  /\ UNCHANGED <<downloads, queue>>

TaskEnds(u, g) == TaskFinishes(u, g) \/ TaskFails(u, g)

UiStep ==
  EventIgnored \/ EventStarted \/ EventFinished("done") \/ EventFinished("failed")

Next ==
  \/ \E u \in Urls : DownloadMedia(u) \/ CancelDownload(u)
  \/ \E us \in SUBSET Urls : DownloadSeason(us) \/ CancelSeasonDownloads(us)
  \/ UiStep
  \/ \E u \in Urls, g \in Gens : TaskOpens(u, g) \/ TaskEnds(u, g)

Spec == Init /\ [][Next]_vars

\* Messages are handled.  A transfer that is not cancelled ends one day: a
\* sequential one after max_attempts failures, a segmented one only if its
\* servers answer or refuse for good.
FairSpec ==
  /\ Spec /\ WF_vars(UiStep)
  /\ \A u \in Urls, g \in Gens : SF_vars(TaskEnds(u, g))

-----------------------------------------------------------------------------
Messages == [url : Urls, gen : Gens, ev : {"started", "done", "failed"}]

\* Types; a running download knows a task, the others none.
TypeOK ==
  /\ downloads \in [Urls -> [st : {"none", "queued", "running", "done", "failed"},
                             gen : 0 .. NGens, part : BOOLEAN]]
  /\ queue \in Seq(Urls)
  /\ tasks \in [Urls -> [Gens -> {"gone", "new", "open"}]]
  /\ inbox \in Seq(Messages)
  /\ parts \subseteq Urls
  /\ \A u \in Urls : (downloads[u].st = "running") <=> (downloads[u].gen # 0)

\* The queue holds each queued download once, whatever mix of requests,
\* cancellations and late events led here (download_queue and the states are
\* two separate fields, kept in step by hand).
QueueIsQueued ==
  /\ Elements(queue) = Is(downloads, "queued")
  /\ \A i, j \in 1 .. Len(queue) : queue[i] = queue[j] => i = j

\* Both.
QueueInStep == TypeOK /\ QueueIsQueued

\* Never more downloads run than MAX_PARALLEL, and none waits beside a
\* transfer that is left: every way a download stops pumps the queue.
SlotsUsed ==
  /\ Cardinality(Is(downloads, "running")) <= MaxParallel
  /\ queue # <<>> => Cardinality(Is(downloads, "running")) = MaxParallel

\* A queued download starts, unless it is cancelled.
QueuedStarts == \A u \in Urls : downloads[u].st = "queued" ~> downloads[u].st # "queued"

\* Transfers at once (downloads.rs:93, MAX_PARALLEL).
AtMostMaxTransfers ==
  Cardinality({t \in Urls \X Gens : t[2] \in Live(t[1])}) <= MaxParallel

\* The names of the titles do not matter.
Symmetry == Permutations(Urls)
=============================================================================
