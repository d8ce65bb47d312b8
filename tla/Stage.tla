--------------------------------- MODULE Stage ---------------------------------
(***************************************************************************)
(* The window of the player and the picture on its stage                   *)
(* (src/crates/fluxplay/src/app.rs, desktop).                              *)
(*                                                                         *)
(* A stop closes the window 200 ms later, so that the engine ends first: a *)
(* generation of the player tells the late close from the play that        *)
(* followed.  A picture goes to the graphics card by an upload whose end   *)
(* is a message: a generation of the uploads tells the end of one that is  *)
(* no longer wanted.  Windows open and close by themselves, and say so     *)
(* later.  Once the card draws the frames by itself the uploads end.       *)
(***************************************************************************)
EXTENDS Naturals, FiniteSets

CONSTANTS
  MaxPlays,    \* bound: streams opened
  MaxPictures, \* bound: pictures of a stream
  MaxGen,      \* bound: plays, stops and closes together
  Faults       \* subset of {"fast"}: the user is faster than a window opens

VARIABLES
  playing, \* the stream that plays, 0 when none does
  plays,   \* streams opened so far
  decoded, \* the newest picture of the engine, 0 when there is none
  taken,   \* the newest picture that was pulled
  ended,   \* the engine has ended, the session does not know yet
  player,  \* player_id, player_close_gen; blank: stopped since the last play
  windows, \* open windows, windows whose opening or closing is not reported
  timers,  \* closes that are due
  stage,   \* video_upload_gen, video_upload_busy, video_pending, video_frame
  uploads, \* uploads under way
  gpu      \* the card draws the frames: whether it can, what it shows

vars == <<playing, plays, decoded, taken, ended, player, windows, timers, stage, uploads, gpu>>
streamVars == <<playing, plays, decoded, taken, ended>>
windowVars == <<player, windows, timers>>
stageVars == <<stage, uploads, gpu>>

NoPicture == [stream |-> 0, n |-> 0]
Picture == [stream |-> playing, n |-> decoded]
Fresh == playing # 0 /\ decoded > taken

Init ==
  /\ playing = 0 /\ plays = 0 /\ decoded = 0 /\ taken = 0 /\ ended = FALSE
  /\ player = [id |-> 0, gen |-> 0, blank |-> TRUE]
  /\ windows = [open |-> {}, opening |-> {}, closed |-> {}]
  /\ timers = {}
  /\ stage = [gen |-> 0, busy |-> FALSE, pending |-> NoPicture, shown |-> NoPicture]
  /\ uploads = {}
  /\ gpu = [ready |-> FALSE, shown |-> NoPicture]

-----------------------------------------------------------------------------
\* The generation stays: an upload under way may still end on the stage.
InvalidateQuietly(clear) ==
  /\ stage' = [stage EXCEPT !.busy = FALSE, !.pending = NoPicture,
                            !.shown = IF clear THEN NoPicture ELSE @]
  /\ gpu' = [gpu EXCEPT !.shown = IF clear THEN NoPicture ELSE @]
  /\ UNCHANGED uploads

\* invalidate_soft_stage
Invalidate(clear) ==
  /\ stage' = [gen |-> stage.gen + 1, busy |-> FALSE, pending |-> NoPicture,
               shown |-> IF clear THEN NoPicture ELSE stage.shown]
  /\ gpu' = [gpu EXCEPT !.shown = IF clear THEN NoPicture ELSE @]
  /\ UNCHANGED uploads

\* StreamSession::stop
SessionStops ==
  /\ playing' = 0 /\ decoded' = 0 /\ taken' = 0 /\ ended' = FALSE
  /\ UNCHANGED plays

\* A play leaves the close of an earlier stop due.
PlayKeepsGen == player' = [player EXCEPT !.blank = FALSE]

PlayBumpsGen == player' = [player EXCEPT !.gen = @ + 1, !.blank = FALSE]

\* PlayChannel, PlayVod, open_or_focus_player
Play ==
  /\ plays < MaxPlays /\ player.gen < MaxGen
  /\ windows.opening = {} \/ "fast" \in Faults
  /\ plays' = plays + 1 /\ playing' \in {0, plays + 1}
  /\ decoded' = 0 /\ taken' = 0 /\ ended' = FALSE
  /\ PlayBumpsGen
  /\ Invalidate(FALSE)
  /\ windows' = IF player.id # 0 THEN windows
                ELSE [windows EXCEPT !.opening = @ \cup {plays + 1}, !.open = @ \cup {plays + 1}]
  /\ UNCHANGED timers

\* The generation is noted before it is raised: no close is ever the last.
StopNotesFirst ==
  /\ player.gen < MaxGen
  /\ SessionStops
  /\ Invalidate(TRUE)
  /\ player' = [player EXCEPT !.gen = @ + 1, !.blank = TRUE]
  /\ timers' = timers \cup {[gen |-> player.gen, plays |-> plays]}
  /\ UNCHANGED windows

\* Stop: the window is closed later.
Stop ==
  /\ player.gen < MaxGen
  /\ windows.opening = {} \/ "fast" \in Faults
  /\ SessionStops
  /\ Invalidate(TRUE)
  /\ player' = [player EXCEPT !.gen = @ + 1, !.blank = TRUE]
  /\ timers' = timers \cup {[gen |-> player.gen + 1, plays |-> plays]}
  /\ UNCHANGED windows

\* close_player_window
Close ==
  /\ player' = [player EXCEPT !.id = 0, !.blank = TRUE]
  /\ windows' = [windows EXCEPT !.open = @ \ {player.id}, !.closed = @ \cup ({player.id} \ {0})]

\* Message::ClosePlayerWindowDeferred
CloseDeferred ==
  \E t \in timers :
    /\ timers' = timers \ {t}
    /\ IF t.gen # player.gen
       THEN UNCHANGED <<streamVars, stageVars, player, windows>>
       ELSE SessionStops /\ Invalidate(TRUE) /\ Close

\* Message::ClosePlayerWindow
CloseNow ==
  /\ windows.opening = {} \/ "fast" \in Faults
  /\ player.id # 0 /\ player.gen < MaxGen
  /\ SessionStops
  /\ Invalidate(TRUE)
  /\ player' = [id |-> 0, gen |-> player.gen + 1, blank |-> TRUE]
  /\ windows' = [windows EXCEPT !.open = @ \ {player.id}, !.closed = @ \cup {player.id}]
  /\ UNCHANGED timers

\* Message::PlayerWindowOpened
WindowOpened ==
  \E w \in windows.opening :
    /\ windows' = [windows EXCEPT !.opening = @ \ {w}]
    /\ player' = [player EXCEPT !.id = w]
    /\ UNCHANGED <<streamVars, stageVars, timers>>

\* The user closes a window from its frame.
UserCloses ==
  \E w \in windows.open \ windows.opening :
    /\ windows' = [windows EXCEPT !.open = @ \ {w}, !.closed = @ \cup {w}]
    /\ UNCHANGED <<streamVars, stageVars, player, timers>>

\* Message::WindowClosed
WindowClosed ==
  \E w \in windows.closed :
    /\ windows' = [windows EXCEPT !.closed = @ \ {w}]
    /\ IF player.id = w
       THEN SessionStops /\ Invalidate(TRUE) /\ player' = [player EXCEPT !.id = 0, !.blank = TRUE]
       ELSE UNCHANGED <<streamVars, stageVars, player>>
    /\ UNCHANGED timers

-----------------------------------------------------------------------------
EngineDecodes ==
  /\ playing # 0 /\ ~ended /\ decoded < MaxPictures
  /\ decoded' = decoded + 1
  /\ UNCHANGED <<playing, plays, taken, ended, windowVars, stageVars>>

EngineEnds ==
  /\ playing # 0 /\ ~ended
  /\ ended' = TRUE
  /\ UNCHANGED <<playing, plays, decoded, taken, windowVars, stageVars>>

\* A tick sees the engine dead for 400 ms: the last picture stays.
EndSeen ==
  /\ ended
  /\ SessionStops
  /\ Invalidate(FALSE)
  /\ UNCHANGED windowVars

Upload(pic) == uploads' = uploads \cup {[gen |-> stage.gen, pic |-> pic]}

\* A tick: the newest picture is uploaded, or waits for the upload under way.
TickUploads ==
  /\ ~gpu.ready /\ Fresh /\ (stage.busy => stage.pending = NoPicture)
  /\ taken' = decoded
  /\ IF stage.busy
     THEN stage' = [stage EXCEPT !.pending = Picture] /\ UNCHANGED uploads
     ELSE stage' = [stage EXCEPT !.busy = TRUE] /\ Upload(Picture)
  /\ UNCHANGED <<playing, plays, decoded, ended, windowVars, gpu>>

\* An upload that ends late shows its picture as well.
WantedAny(u) == TRUE
Wanted(u) == u.gen = stage.gen

NextPicture ==
  IF stage.pending # NoPicture THEN stage.pending
  ELSE IF Fresh /\ ~gpu.ready THEN Picture ELSE NoPicture

\* Message::VideoFrameAllocated: the picture, then the next upload.
VideoFrameAllocated ==
  \E u \in uploads :
    IF ~Wanted(u)
    THEN uploads' = uploads \ {u} /\ UNCHANGED <<streamVars, windowVars, stage, gpu>>
    ELSE LET next == NextPicture
         IN /\ \E shown \in {u.pic, stage.shown} : \* the card may refuse it
                 stage' = [stage EXCEPT !.shown = shown, !.busy = next # NoPicture,
                                        !.pending = IF next = @ THEN NoPicture ELSE @]
            /\ uploads' = (uploads \ {u}) \cup
                 {[gen |-> stage.gen, pic |-> p] : p \in {next} \ {NoPicture}}
            /\ taken' = IF next # NoPicture /\ next # stage.pending THEN decoded ELSE taken
            /\ UNCHANGED <<playing, plays, decoded, ended, windowVars, gpu>>

GpuReady ==
  /\ ~gpu.ready
  /\ gpu' = [gpu EXCEPT !.ready = TRUE]
  /\ UNCHANGED <<streamVars, windowVars, stage, uploads>>

\* present_stage_frame: the first frame drops what the uploads had shown.
PresentStageFrame ==
  /\ gpu.ready /\ Fresh
  /\ gpu' = [gpu EXCEPT !.shown = Picture]
  /\ taken' = decoded
  /\ stage' = IF gpu.shown # NoPicture THEN stage
              ELSE [gen |-> stage.gen + 1, busy |-> FALSE, pending |-> NoPicture, shown |-> NoPicture]
  /\ UNCHANGED <<playing, plays, decoded, ended, windowVars, uploads>>

Next ==
  \/ Play \/ Stop \/ CloseDeferred \/ CloseNow
  \/ WindowOpened \/ UserCloses \/ WindowClosed
  \/ EngineDecodes \/ EngineEnds \/ EndSeen
  \/ TickUploads \/ VideoFrameAllocated \/ GpuReady \/ PresentStageFrame

Spec == Init /\ [][Next]_vars

-----------------------------------------------------------------------------
Pictures == [stream : 0..MaxPlays, n : 0..MaxPictures]
OfThisStage == {u \in uploads : u.gen = stage.gen}

\* The state has its type; one upload at most is under way for this stage, and
\* the stage says it is busy exactly then, so it never waits for one that is not.
TypeOK ==
  /\ playing \in 0..plays /\ plays \in 0..MaxPlays /\ taken \in 0..decoded /\ ended \in BOOLEAN
  /\ player.id \in 0..MaxPlays /\ windows.opening \subseteq windows.open
  /\ stage.pending \in Pictures /\ stage.shown \in Pictures /\ gpu.shown \in Pictures
  /\ Cardinality(OfThisStage) = IF stage.busy THEN 1 ELSE 0
  /\ stage.pending # NoPicture => stage.busy

\* "late `VideoFrameAllocated` cannot resurrect a cleared stage" (app.rs:225):
\* after a stop the stage stays empty until the next play.
StoppedIsBlank == player.blank => stage.shown = NoPicture /\ gpu.shown = NoPicture

\* What comes on the stage is a picture of the stream that plays, newer than
\* the ones it showed before.
Newer(old, new) == new # old /\ new # NoPicture =>
  new.stream = playing /\ (old.stream = playing => new.n > old.n)
ShowsNewer == Newer(stage.shown, stage'.shown) /\ Newer(gpu.shown, gpu'.shown)
PicturesInOrder == [][ShowsNewer]_vars

\* "deferred Stop->close cannot kill a new session" (app.rs:265): a close that is
\* due, or of another window, leaves the stream opened after it alone.
SparesNewPlay ==
  /\ CloseDeferred /\ (\A t \in timers \ timers' : t.plays # plays) => playing' = playing
  /\ WindowClosed /\ player.id \notin windows.closed => playing' = playing
CloseSparesPlay == [][SparesNewPlay]_vars

\* A player that was stopped has no window once all that is due is done.
Rest == timers = {} /\ windows.opening = {} /\ windows.closed = {}
StoppedIsClosed == Rest /\ player.blank => windows.open = {}
=============================================================================
