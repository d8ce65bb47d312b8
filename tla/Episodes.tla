------------------------------ MODULE Episodes ------------------------------
(***************************************************************************)
(* Episodes one after the other: the queue that next and previous follow,  *)
(* armed from the page of the series, and the preload of the next episode  *)
(* to disk while the current one ends (app.rs of src/crates/fluxplay).     *)
(*                                                                         *)
(* An episode is a pair <<series, number>>.  A preload that ends and the   *)
(* message that says so are one step.                                      *)
(***************************************************************************)
EXTENDS Integers, FiniteSets

CONSTANTS
  Series, Last,   \* the series and the number of their episodes
  Faults          \* subset of {"browse"}: another series' page is opened while one plays

VARIABLES
  page,        \* series_detail, or none
  playing,     \* session.channel: an episode, <<"film", 0>>, or none
  local,       \* it is played from the preloaded file
  queue,       \* the series of series_queue, or none when it is empty
  idx,         \* series_queue_idx, from 1
  armed,       \* prefetch_armed_for
  job,         \* prefetch_job
  prefetched,  \* prefetched
  files        \* whole files of prefetch_dir

vars == <<page, playing, local, queue, idx, armed, job, prefetched, files>>
preload == <<job, prefetched, files>>

NoEpisode == <<"none", 0>>
Film == <<"film", 0>>
Urls == Series \X (1 .. Last)

Init ==
  /\ page = "none" /\ playing = NoEpisode /\ local = FALSE
  /\ queue = "none" /\ idx = 1 /\ armed = NoEpisode
  /\ job = NoEpisode /\ prefetched = NoEpisode /\ files = {}

-----------------------------------------------------------------------------
OpenSeries(s) ==
  /\ "browse" \in Faults \/ queue \in {"none", s}
  /\ page' = s
  /\ UNCHANGED <<playing, local, queue, idx, armed, preload>>
CloseSeriesDetail ==
  /\ page' = "none"
  /\ UNCHANGED <<playing, local, queue, idx, armed, preload>>

\* arm_series_queue_for_url: the queue of the open page, or the place in the one there is.
ArmKeepsPlace(u) ==
  IF page = "none"
  THEN queue' = queue /\ idx' = idx
  ELSE queue' = page /\ idx' = (IF u[1] = page THEN u[2] ELSE 1)
ArmOfPage(u) ==
  IF u[1] = page THEN queue' = page /\ idx' = u[2] ELSE queue' = "none" /\ idx' = 1
Arm(u) ==
  IF page = "none"
  THEN IF u[1] = queue THEN queue' = queue /\ idx' = u[2] ELSE queue' = "none" /\ idx' = idx
  ELSE IF u[1] = page THEN queue' = page /\ idx' = u[2] ELSE queue' = "none" /\ idx' = 1

\* PlayVod of an episode: the preloaded file when it is there.
Play(u) ==
  /\ Arm(u)
  /\ playing' = u /\ armed' = NoEpisode
  /\ local' = (prefetched = u /\ u \in files)
  /\ UNCHANGED <<page, preload>>
PlayEpisode(n) == page # "none" /\ Play(<<page, n>>)

\* playlist_neighbor
Neighbour(d) ==
  /\ playing \in Urls /\ queue # "none"
  /\ idx + d \in 1 .. Last
  /\ Play(<<queue, idx + d>>)
Next1 == Neighbour(1)
Previous == Neighbour(-1)

\* PlayVod of a film.  A channel leaves the queue alone.
PlayFilm ==
  /\ playing' = Film /\ queue' = "none" /\ idx' = 1 /\ armed' = NoEpisode /\ local' = FALSE
  /\ UNCHANGED <<page, preload>>
PlayChannel ==
  /\ playing' = <<"live", 0>> /\ local' = FALSE
  /\ UNCHANGED <<page, queue, idx, armed, preload>>
Stop ==
  /\ playing # NoEpisode /\ playing' = NoEpisode /\ local' = FALSE
  /\ UNCHANGED <<page, queue, idx, armed, preload>>

\* maybe_prefetch_next_episode, past three quarters: once for an episode played.
PrefetchKeepsFiles ==
  /\ playing \in Urls /\ armed # playing
  /\ queue # "none" /\ idx < Last
  /\ armed' = playing
  /\ LET next == <<queue, idx + 1>>
     IN  IF next \in {prefetched, job} THEN UNCHANGED preload
         ELSE job' = next /\ UNCHANGED <<prefetched, files>>
  /\ UNCHANGED <<page, playing, local, queue, idx>>
Prefetch ==
  /\ playing \in Urls /\ armed # playing
  /\ queue # "none" /\ idx < Last
  /\ armed' = playing
  /\ LET next == <<queue, idx + 1>>
     IN  IF next \in {prefetched, job} THEN UNCHANGED preload
         ELSE job' = next /\ prefetched' = NoEpisode /\ files' = {}
  /\ UNCHANGED <<page, playing, local, queue, idx>>

\* PrefetchEvent
Preloaded ==
  /\ job # NoEpisode
  /\ job' = NoEpisode /\ prefetched' = job /\ files' = files \cup {job}
  /\ UNCHANGED <<page, playing, local, queue, idx, armed>>
PreloadFails ==
  /\ job # NoEpisode /\ job' = NoEpisode
  /\ UNCHANGED <<page, playing, local, queue, idx, armed, prefetched, files>>

Next ==
  \/ \E s \in Series : OpenSeries(s)
  \/ CloseSeriesDetail
  \/ \E n \in 1 .. Last : PlayEpisode(n)
  \/ Next1 \/ Previous
  \/ PlayFilm \/ PlayChannel \/ Stop
  \/ Prefetch \/ Preloaded \/ PreloadFails

Spec == Init /\ [][Next]_vars
-----------------------------------------------------------------------------
(* Properties. *)

\* While an episode plays the queue, if there is one, is that of its series and
\* stands at that episode: next plays the one that follows it.
NextFollows == playing \in Urls /\ queue # "none" => queue = playing[1] /\ idx = playing[2]

\* Next and previous do not lose the queue.  They do when the page of another series
\* is open: its episodes are looked up instead ("browse").
QueueStays == (Next1 \/ Previous) => queue' = queue

\* One preloaded episode at a time, and what is said to be preloaded is on disk.
OnePreload == Cardinality(files) <= 1 /\ files = {prefetched} \ {NoEpisode}

\* The file that is being played is not removed.  The next preload removes it.
PlayedFileStays == local => playing \in files
=============================================================================
