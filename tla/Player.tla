--------------------------------- MODULE Player ---------------------------------
(***************************************************************************)
(* The session of the player and the engine it drives                      *)
(* (src/crates/fluxplay-player/src/session.rs and backend.rs).             *)
(*                                                                         *)
(* The session keeps the state, the volume, the mute and the settings the  *)
(* user sees; the engine that plays is one of libmpv, mpv as a process     *)
(* ("ipc"), libav, ffplay as a process, or a player of the system that is  *)
(* not controlled.  Engines differ: mpv has properties, libav a volume     *)
(* only, and ffplay keys that toggle, so that what they toggled has to be  *)
(* remembered.  Everything here runs on the thread of the user interface;  *)
(* engines end, stall and refuse a command by themselves.                  *)
(*                                                                         *)
(* `Faults`: "key" and "ipc", a command does not reach the process;        *)
(* "route", a link nothing can play; "paused", an engine is restarted      *)
(* while paused; "settings", an engine is started while the session        *)
(* mirrors settings of the last one.                                       *)
(***************************************************************************)
EXTENDS Naturals

CONSTANTS
  Engines, \* kinds of engines that can be started
  Volumes, \* volumes the user chooses, 0 included
  Faults   \* subset of {"key", "ipc", "route", "paused", "settings"}

VARIABLES
  session, \* what the user sees: state, muted, volume, speed, loop
  engine,  \* what plays, kind "none" when nothing does
  native   \* NativePlayer: its volume, what ffplay's keys toggled

vars == <<session, engine, native>>

Mpv == {"libmpv", "ipc"}
\* Speed stands for what a session only mirrors (loop, A-B, delays, filters,
\* rotation, zoom too), aspect for what is saved (scaling, night mode too).
Settings == [speed |-> 1, aspect |-> 1]
NoEngine == [kind |-> "none", alive |-> FALSE, paused |-> FALSE, muted |-> FALSE,
             vol |-> 0, stalled |-> FALSE, set |-> Settings]
NoKeys == [muted |-> FALSE, paused |-> FALSE]
Active == {"playing", "paused", "buffering"}

\* start_libmpv, start_mpv_cli, start_libffmpeg, start_ffplay
Started(kind, vol) == [NoEngine EXCEPT !.kind = kind, !.alive = TRUE, !.vol = vol]

\* Whether an order reaches the engine; a process that ended takes none.
MayLose(e) == (e.kind = "ipc" /\ "ipc" \in Faults) \/ (e.kind = "ffplay" /\ "key" \in Faults)
Gone(e) == (~e.alive /\ e.kind \in {"ipc", "ffplay"}) \/ e.kind \in {"external", "none"}
Reaches(e) == {r \in BOOLEAN : IF Gone(e) THEN ~r ELSE r \/ MayLose(e)}

\* The outcome of a command: the engine, what ffplay toggled, whether it is Ok.
Outcome(e, keys, ok) == [engine |-> e, keys |-> keys, ok |-> ok]

\* ffplay_send_key, only when it changes something.
Key(e, keys, name, on) ==
  IF keys[name] = on THEN {Outcome(e, keys, TRUE)}
  ELSE {IF r THEN Outcome([e EXCEPT ![name] = ~@], [keys EXCEPT ![name] = on], TRUE)
        ELSE Outcome(e, keys, FALSE) : r \in Reaches(e)}

Assign(e, keys, name, on) ==
  {Outcome(IF r THEN [e EXCEPT ![name] = on] ELSE e, keys, r) : r \in Reaches(e)}

\* NativePlayer::set_mute, pause
Ordered(e, keys, name, on) ==
  IF e.kind = "ffplay" THEN Key(e, keys, name, on) ELSE Assign(e, keys, name, on)
SetMute(e, keys, on) ==
  IF e.kind = "libav"
  THEN {Outcome([e EXCEPT !.vol = IF on THEN 0 ELSE native.vol], keys, TRUE)}
  ELSE Ordered(e, keys, "muted", on)
Pause(e, keys, on) == Ordered(e, keys, "paused", on)

\* NativePlayer::set_volume: ffplay takes it when it starts.
SetVolume(e, vol) ==
  {IF r /\ e.kind # "ffplay" THEN [e EXCEPT !.vol = vol] ELSE e : r \in Reaches(e)}

-----------------------------------------------------------------------------
Init ==
  /\ \E v \in Volumes : /\ session = [state |-> "idle", muted |-> FALSE, volume |-> v, set |-> Settings]
                        /\ native = [vol |-> v, keys |-> NoKeys]
  /\ engine = NoEngine

\* What the keys toggled is remembered for the next engine.
PlayedKeepsKeys == {Outcome(Started(k, native.vol), native.keys, TRUE) : k \in Engines}

\* NativePlayer::play: the last engine is stopped, then one that is available
\* is started, with what to fall back on when it cannot.
Played == {Outcome(Started(k, native.vol), NoKeys, TRUE) : k \in Engines}
            \cup {Outcome(NoEngine, NoKeys, FALSE)}

\* apply_saved_video_prefs, for an engine as it starts
WithSaved(e, s) == IF e.kind \in Mpv THEN [s EXCEPT !.set.aspect = Settings.aspect] ELSE s

\* The mute is not applied to the new engine.
OpenedLoud(out) ==
  /\ engine' \in SetVolume(out.engine, session.volume)
  /\ native' = [vol |-> session.volume, keys |-> out.keys]

\* The mute or the volume of the session, whatever comes of it.
Opened(out) ==
  IF session.muted
  THEN \E m \in SetMute(out.engine, out.keys, TRUE) :
         engine' = m.engine /\ native' = [native EXCEPT !.keys = m.keys]
  ELSE /\ engine' \in SetVolume(out.engine, session.volume)
       /\ native' = [vol |-> session.volume, keys |-> out.keys]

\* StreamSession::open_channel; without a route the last stream goes on.
OpenChannel ==
  /\ "settings" \in Faults \/ session.set.speed = Settings.speed
  /\ \/ /\ "route" \in Faults
        /\ session' = [session EXCEPT !.state = "error"]
        /\ UNCHANGED <<engine, native>>
     \/ \E out \in Played :
          IF out.ok
          THEN session' = WithSaved(out.engine, [session EXCEPT !.state = "playing"]) /\ Opened(out)
          ELSE /\ session' = [session EXCEPT !.state = "error"]
               /\ engine' = NoEngine /\ native' = [native EXCEPT !.keys = NoKeys]

\* mpv is started anew too.
ReloadedAnew == Played

\* NativePlayer::restart: mpv loads the file in place, others are started anew.
Reloaded ==
  IF engine.kind \in Mpv
  THEN {Outcome(IF r THEN [engine EXCEPT !.stalled = FALSE] ELSE engine, native.keys, r) : r \in Reaches(engine)}
  ELSE Played

\* StreamSession::restart
Restart ==
  /\ session.state # "idle"
  /\ "paused" \in Faults \/ ~engine.paused
  /\ "settings" \in Faults \/ engine.kind \in Mpv \/ session.set = Settings
  /\ \E out \in Reloaded :
       /\ session' = [session EXCEPT !.state = IF out.ok THEN "playing" ELSE "error"]
       /\ IF out.ok /\ session.muted
          THEN \E m \in SetMute(out.engine, out.keys, TRUE) :
                 engine' = m.engine /\ native' = [native EXCEPT !.keys = m.keys]
          ELSE engine' = out.engine /\ native' = [native EXCEPT !.keys = out.keys]

\* StreamSession::stop
Stop ==
  /\ session' = [session EXCEPT !.state = "idle"]
  /\ engine' = NoEngine /\ native' = [native EXCEPT !.keys = NoKeys]

\* StreamSession::pause and resume; an error changes nothing.
PauseOrResume ==
  /\ session.state \in Active
  /\ LET on == session.state # "paused"
     IN \E out \in Pause(engine, native.keys, on) :
          /\ session' = [session EXCEPT !.state =
               IF ~out.ok THEN @ ELSE IF on THEN "paused" ELSE "playing"]
          /\ engine' = out.engine /\ native' = [native EXCEPT !.keys = out.keys]

\* Unmuted, the engine keeps the volume it had.
ToggleMuteOnly ==
  \E m \in SetMute(engine, native.keys, ~session.muted) :
    /\ session' = [session EXCEPT !.muted = IF m.ok THEN ~@ ELSE @]
    /\ engine' = m.engine /\ native' = [native EXCEPT !.keys = m.keys]

\* StreamSession::toggle_mute: unmuted, the volume is set again.
ToggleMute ==
  \E m \in SetMute(engine, native.keys, ~session.muted) :
    /\ session' = [session EXCEPT !.muted = IF m.ok THEN ~@ ELSE @]
    /\ IF m.ok /\ session.muted
       THEN /\ engine' \in SetVolume(m.engine, session.volume)
            /\ native' = [vol |-> session.volume, keys |-> m.keys]
       ELSE engine' = m.engine /\ native' = [native EXCEPT !.keys = m.keys]

\* StreamSession::set_volume: a volume unmutes, unless the engine refuses.
VolumeChanged(vol) ==
  IF session.muted /\ vol > 0
  THEN \E m \in SetMute(engine, native.keys, FALSE) :
         IF m.ok
         THEN /\ session' = [session EXCEPT !.muted = FALSE, !.volume = vol]
              /\ engine' \in SetVolume(m.engine, vol)
              /\ native' = [vol |-> vol, keys |-> m.keys]
         ELSE UNCHANGED vars
  ELSE /\ session' = [session EXCEPT !.volume = vol]
       /\ IF session.muted THEN UNCHANGED <<engine, native>>
          ELSE engine' \in SetVolume(engine, vol) /\ native' = [native EXCEPT !.vol = vol]

\* set_speed, toggle_loop, cycle_aspect...: kept only if mpv takes them.
Set(field, value) ==
  /\ session.state \in Active /\ engine.kind \in Mpv
  /\ \E r \in Reaches(engine) :
       IF r THEN /\ session' = [session EXCEPT !.set[field] = value]
                 /\ engine' = [engine EXCEPT !.set[field] = value]
       ELSE UNCHANGED <<session, engine>>
  /\ UNCHANGED native

\* A paused session is refreshed too.
RefreshAny ==
  /\ session.state \in Active
  /\ session' = [session EXCEPT !.state = IF engine.alive /\ engine.stalled THEN "buffering" ELSE "playing"]
  /\ UNCHANGED <<engine, native>>

\* refresh_buffering_state
Refresh ==
  /\ session.state \in {"playing", "buffering"}
  /\ session' = [session EXCEPT !.state = IF engine.alive /\ engine.stalled THEN "buffering" ELSE "playing"]
  /\ UNCHANGED <<engine, native>>

EngineStalls ==
  /\ engine.alive /\ engine.kind # "external"
  /\ engine' = [engine EXCEPT !.stalled = ~@]
  /\ UNCHANGED <<session, native>>

EngineEnds ==
  /\ engine.alive
  /\ engine' = [engine EXCEPT !.alive = FALSE]
  /\ UNCHANGED <<session, native>>

Next ==
  \/ OpenChannel \/ Restart \/ Stop
  \/ PauseOrResume \/ ToggleMute \/ Refresh
  \/ \E v \in Volumes : VolumeChanged(v)
  \/ \E f \in DOMAIN Settings : Set(f, 3 - session.set[f])
  \/ EngineStalls \/ EngineEnds

Spec == Init /\ [][Next]_vars

-----------------------------------------------------------------------------
Controlled == engine.alive /\ engine.kind # "external" /\ session.state \in Active

\* The state has its type; what ffplay's keys toggled is what it does.
TypeOK ==
  /\ session \in [state : Active \cup {"idle", "error"}, muted : BOOLEAN, volume : Volumes,
                  set : [speed : {1, 2}, aspect : {1, 2}]]
  /\ engine.kind \in Engines \cup {"none"} /\ engine.vol \in Volumes \cup {0}
  /\ native \in [vol : Volumes, keys : [muted : BOOLEAN, paused : BOOLEAN]]
  /\ engine.kind = "ffplay" => native.keys = [muted |-> engine.muted, paused |-> engine.paused]

\* A muted session is silent, whichever engine plays, through restarts, new
\* streams and changes of volume (session.rs:593 "re-apply the user's mute").
MutedIsSilent == Controlled /\ session.muted => engine.muted \/ engine.vol = 0

\* A session that is not muted plays at the volume shown, as far as its engine
\* takes a volume while it plays.
VolumeIsHeard ==
  Controlled /\ ~session.muted =>
    ~engine.muted /\ (engine.kind # "ffplay" => engine.vol = session.volume)

\* The engine is paused exactly when the session says so.
PausedIsPaused == Controlled => (engine.paused <=> session.state = "paused")

\* "Extended player state (UI + mpv mirrors)" (session.rs:39): the speed and the
\* loop the user sees are those of the engine.
SettingsMirrored == Controlled /\ engine.kind \in Mpv => engine.set = session.set

=============================================================================
