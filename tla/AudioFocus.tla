------------------------------ MODULE AudioFocus ------------------------------
(***************************************************************************)
(* Who may be heard on Android: the session's play and pause, the reason   *)
(* of its pause, and the audio focus that the system lends                 *)
(* (src/crates/fluxplay/src/app.rs, the tick of the player, with           *)
(* android_bridge.rs and FluxPlayNativeActivity.java).                     *)
(*                                                                         *)
(* Three parties.  The thread of the interface ticks and answers the user; *)
(* it learns of the focus from a file it reads at most every 250 ms, so    *)
(* that what it reads is the flag or what it read last.  The main thread   *)
(* of the activity runs the requests and returns that the interface posts, *)
(* in order, but a request waits for it 750 ms at most.  The system takes  *)
(* the focus for another player or for a call, and may give it back.       *)
(*                                                                         *)
(* A handler of the interface is a chain of steps over a state `s`, each   *)
(* giving the set of states it may end in.                                 *)
(***************************************************************************)
EXTENDS Naturals, Sequences, SequencesExt

CONSTANTS
  MaxJobs, \* bound: jobs the main thread may be late by
  Faults   \* subset of {"hotkey", "quick"}: the pause key of a keyboard, a user who
           \* plays and hides the window again before a tick has seen it shown

VARIABLES
  s,       \* interface, activity and system
  visible, \* in the foreground, or picture in picture
  wish     \* what the user asked last

vars == <<s, visible, wish>>

Start == [play |-> "none",   \* "playing" (or buffering), "paused", "external", "none"
          cause |-> "none",  \* pause_cause: "none", "user", "focus", "lifecycle"
          held |-> FALSE,    \* audio_focus_held
          life |-> FALSE,    \* lifecycle_paused
          read |-> FALSE,    \* the flag as it was read last
          flag |-> FALSE,    \* audio_focus.json
          jobs |-> <<>>,     \* posted to the main thread
          focus |-> "free",  \* the system: "ours", "call", or "free" to be taken
          waiting |-> FALSE] \* a gain is due to us when the call ends

Active(t) == t.play \in {"playing", "paused"}
Bind(ts, Step(_)) == UNION {Step(t) : t \in ts}

-----------------------------------------------------------------------------
\* requestAudioFocusInner and abandonAudioFocusInner; during a call a request
\* is refused or put off.
RunJob(t, job) ==
  IF job = "abandon"
  THEN {[t EXCEPT !.flag = FALSE, !.waiting = FALSE, !.focus = IF @ = "ours" THEN "free" ELSE @]}
  ELSE IF t.focus = "call" THEN {[t EXCEPT !.flag = FALSE], [t EXCEPT !.waiting = TRUE]}
  ELSE {[t EXCEPT !.flag = TRUE, !.focus = "ours"]}

JobsRun(t) ==
  LET run(ts, job) == Bind(ts, LAMBDA u : RunJob(u, job)) IN FoldLeft(run, {t}, t.jobs)

\* The thread runs all that is posted: what is the interface's stays as it was.
RunAll(t) ==
  {[t EXCEPT !.jobs = <<>>, !.flag = u.flag, !.waiting = u.waiting, !.focus = u.focus] : u \in JobsRun(t)}

\* A second request after one that waits changes nothing.
Post(t, job) ==
  IF t.jobs # <<>> /\ Last(t.jobs) = job THEN t ELSE [t EXCEPT !.jobs = Append(@, job)]

\* poll_audio_focus_held
Poll(t) == {[t EXCEPT !.read = t.flag], t}

\* request_audio_focus, done or still waiting after 750 ms, and the poll after it
Ask(t) ==
  LET asked == Post(t, "request")
  IN {IF u.read THEN [u EXCEPT !.held = TRUE] ELSE u : u \in Bind(RunAll(asked) \cup {asked}, Poll)}

AskUnheld(t) == IF t.held THEN {t} ELSE Ask(t)

\* abandon_audio_focus, which the main thread runs later
Abandon(t) == IF t.held THEN [Post(t, "abandon") EXCEPT !.held = FALSE] ELSE t

Resumed(t) == [t EXCEPT !.play = "playing", !.cause = "none"]
Paused(t, cause) == [t EXCEPT !.play = "paused", !.cause = cause]

-----------------------------------------------------------------------------
\* The stages of Message::PlayerTick.

\* The surface of the system is ready: the stream is opened anew on it.
Promoted(t) ==
  IF t.play = "playing"
  THEN {t} \cup {[u EXCEPT !.play = p] : u \in Ask(t), p \in {"playing", "none"}}
  ELSE {t}

\* A pause by anything but the user is undone.
NoticeAny(t) ==
  IF ~t.read THEN IF t.held /\ t.play = "playing" THEN {[Paused(t, "focus") EXCEPT !.held = FALSE]} ELSE {t}
  ELSE LET u == [t EXCEPT !.held = TRUE]
       IN {IF t.play = "paused" /\ visible THEN Resumed(u) ELSE u}

\* The flag as read: a loss pauses, a gain resumes what a loss paused.
Notice(t) ==
  IF ~t.read THEN IF t.held /\ t.play = "playing" THEN {[Paused(t, "focus") EXCEPT !.held = FALSE]} ELSE {t}
  ELSE LET u == [t EXCEPT !.held = TRUE]
       IN {IF t.cause = "focus" /\ t.play = "paused" /\ visible THEN Resumed(u) ELSE u}

\* The focus is asked for again only by what plays.
WantPlaying(t) ==
  IF visible /\ ~t.held /\ t.play = "playing" THEN Ask(t) ELSE {t}

\* want_focus
Want(t) ==
  IF visible /\ ~t.held /\ (t.play = "playing" \/ (t.play = "paused" /\ t.cause = "focus"))
  THEN {IF u.held /\ u.cause = "focus" /\ u.play = "paused" THEN Resumed(u) ELSE u : u \in Ask(t)}
  ELSE {t}

\* Hidden, only what holds the focus pauses; not granted, the cause stays.
FollowHeld(t) ==
  IF ~visible /\ ~t.life /\ t.play = "playing" /\ t.held
  THEN {Abandon([Paused(t, "lifecycle") EXCEPT !.life = TRUE])}
  ELSE IF visible /\ t.life
  THEN LET u == [t EXCEPT !.life = FALSE]
       IN IF t.cause # "lifecycle" THEN {u} ELSE {IF w.read THEN Resumed(w) ELSE w : w \in Ask(u)}
  ELSE {t}

\* Hidden, what plays pauses; back, what that paused resumes once it may.
Follow(t) ==
  IF ~visible /\ ~t.life /\ t.play = "playing"
  THEN {Abandon([Paused(t, "lifecycle") EXCEPT !.life = TRUE])}
  ELSE IF visible /\ t.life
  THEN LET u == [t EXCEPT !.life = FALSE]
       IN IF t.cause # "lifecycle" THEN {u}
          ELSE {IF w.read THEN Resumed(w) ELSE [w EXCEPT !.cause = "focus"] : w \in Ask(u)}
  ELSE {t}

\* Given back by what has ended only.
LetGoEnded(t) == {IF t.play = "none" /\ t.cause \notin {"focus", "lifecycle"} THEN Abandon(t) ELSE t}

\* Given back by what does not play, unless it means to resume.
LetGo(t) ==
  {IF t.play \in {"paused", "none"} /\ t.cause \notin {"focus", "lifecycle"} THEN Abandon(t) ELSE t}

\* A tick, with a poll that reads the file or one that does not; the clock
\* of the ticks stops with the playback.
Tick(fresh) ==
  /\ Len(s.jobs) < MaxJobs /\ s.play # "none"
  /\ LET polled == IF fresh THEN [s EXCEPT !.read = s.flag] ELSE s
     IN s' \in Bind(Bind(Bind(Bind(Promoted(polled), Notice), Want), Follow), LetGo)
  /\ UNCHANGED <<visible, wish>>

-----------------------------------------------------------------------------
Reachable == visible /\ (~s.life \/ "quick" \in Faults)

\* PlayChannel, PlayVod: the focus before the sound.  The stream may be handed
\* to a player of the system, or be refused.
Play ==
  /\ Reachable
  /\ \/ s' = [Abandon(s) EXCEPT !.play = "external", !.cause = "none"]
     \/ \E t \in Ask(s) :
          \/ \E p \in {"playing", "none"} : s' = [t EXCEPT !.play = p, !.cause = "none"]
          \/ s' = [Abandon(t) EXCEPT !.play = "external", !.cause = "none"]
  /\ wish' = "play"
  /\ UNCHANGED visible

\* Stop and every way to close the player (invalidate_soft_stage)
Stop ==
  /\ s' = [Abandon(s) EXCEPT !.play = "none", !.cause = "none"]
  /\ wish' = "none"
  /\ UNCHANGED visible

\* The stream ended, seen by a tick.
Ended ==
  /\ Active(s)
  /\ s' = [s EXCEPT !.play = "none"]
  /\ wish' = "none"
  /\ UNCHANGED visible

TogglePause ==
  /\ Reachable
  /\ \/ s.play = "playing" /\ wish' = "pause" /\ s' = Paused(s, "user")
     \/ s.play = "external" /\ wish' = wish /\ s' = [s EXCEPT !.cause = "user"]
     \/ s.play = "paused" /\ wish' = "play" /\ s' \in {Resumed(t) : t \in AskUnheld(s)}
  /\ UNCHANGED visible

\* PlayerHotkey::TogglePause: neither the cause nor the focus is looked at.
HotkeyPause ==
  /\ "hotkey" \in Faults /\ Reachable /\ Active(s)
  /\ IF s.play = "paused" THEN wish' = "play" /\ s' = [s EXCEPT !.play = "playing"]
     ELSE wish' = "pause" /\ s' = [s EXCEPT !.play = "paused"]
  /\ UNCHANGED visible

\* The deadline of the sleep timer.
Sleep ==
  /\ Active(s)
  /\ s' = Paused(s, "user")
  /\ wish' = "pause"
  /\ UNCHANGED visible

TogglePip ==
  /\ visible
  /\ s' \in AskUnheld(s)
  /\ UNCHANGED <<visible, wish>>

-----------------------------------------------------------------------------
MainThread ==
  /\ s.jobs # <<>>
  /\ s' \in {[t EXCEPT !.jobs = Tail(@)] : t \in RunJob(s, Head(s.jobs))}
  /\ UNCHANGED <<visible, wish>>

\* Another player takes the focus, or a call borrows it.
Lost ==
  /\ s.focus = "ours"
  /\ \/ s' = [s EXCEPT !.focus = "free", !.flag = FALSE]
     \/ s' = [s EXCEPT !.focus = "call", !.flag = FALSE, !.waiting = TRUE]
  /\ UNCHANGED <<visible, wish>>

CallBegins ==
  /\ s.focus = "free"
  /\ s' = [s EXCEPT !.focus = "call"]
  /\ UNCHANGED <<visible, wish>>

CallEnds ==
  /\ s.focus = "call"
  /\ s' = IF s.waiting THEN [s EXCEPT !.focus = "ours", !.flag = TRUE, !.waiting = FALSE]
          ELSE [s EXCEPT !.focus = "free"]
  /\ UNCHANGED <<visible, wish>>

ShowOrHide == visible' = ~visible /\ UNCHANGED <<s, wish>>

-----------------------------------------------------------------------------
Init ==
  \* A flag an earlier run left may still say that the focus is held.
  /\ s \in {[Start EXCEPT !.flag = f] : f \in BOOLEAN}
  /\ visible = TRUE
  /\ wish = "none"

Room == Len(s.jobs) < MaxJobs

Next ==
  \/ \E fresh \in BOOLEAN : Tick(fresh)
  \/ Room /\ (Play \/ Stop \/ TogglePause \/ TogglePip)
  \/ Ended \/ HotkeyPause \/ Sleep
  \/ MainThread \/ Lost \/ CallBegins \/ CallEnds \/ ShowOrHide

\* The ticks go on while a player is open, each 250 ms one reads the file; the
\* main thread gets to what is posted.
Fairness == SF_vars(Tick(TRUE)) /\ WF_vars(MainThread)

Spec == Init /\ [][Next]_vars /\ Fairness

-----------------------------------------------------------------------------
\* The state has its type; a pause of the life cycle waits for the window.
TypeOK ==
  /\ s \in [play : {"playing", "paused", "external", "none"}, cause : {"none", "user", "focus", "lifecycle"},
            held : BOOLEAN, life : BOOLEAN, read : BOOLEAN, flag : BOOLEAN, waiting : BOOLEAN,
            jobs : Seq({"request", "abandon"}), focus : {"ours", "call", "free"}]
  /\ s.cause = "lifecycle" => s.life /\ s.play # "playing"
  /\ visible \in BOOLEAN /\ wish \in {"play", "pause", "none"}

\* The system never undoes a pause of the user: "resume only if we paused for
\* focus (not user)" (app.rs:3384).
UserPauseStays == wish = "pause" => s.play # "playing"

\* Whatever the focus and the posts to the activity do meanwhile, a tick of a
\* hidden player leaves it paused.
HidesPaused == ((\E fresh \in BOOLEAN : Tick(fresh)) /\ ~visible) => s'.play # "playing"
HiddenIsPaused == [][HidesPaused]_vars

\* What the user wants to hear is heard again once the player stays in sight and
\* its focus is neither taken any more nor held by a call: "request focus even when Paused(AudioFocus) so GAIN
\* can unblock resume" (app.rs:3395).
Heard == wish # "play" \/ s.play # "paused"
Settled == visible /\ s.focus # "call" /\ wish = "play"
ResumesAtLast == []<><<Lost>>_vars \/ (<>[]Settled => []<>Heard)

\* It is, except by a player that takes a focus lost while it was paused for
\* one it still holds, and so asks for none.
ResumesIfAware ==
  []<><<Lost>>_vars \/ (<>[]Settled => []<>(Heard \/ (s.held /\ ~s.flag)))

\* A player the user paused gives the focus back, late posts included, unless it
\* goes in and out of its small window for ever, which asks for the focus.
FocusGivenBack == []<><<TogglePip>>_vars \/ (wish = "pause" ~> (s.focus # "ours" \/ wish # "pause"))
=============================================================================
