------------------------------ MODULE EngineStart ------------------------------
(***************************************************************************)
(* How an engine is chosen, started, tried again and given up              *)
(* (src/crates/fluxplay-player/src/backend.rs), and how the options it is  *)
(* started with and, on Android, the surface it draws on are prepared      *)
(* (src/crates/fluxplay/src/app.rs).                                       *)
(*                                                                         *)
(* What can play depends on the build and on the machine: libmpv and libav *)
(* inside the program, mpv and ffplay as processes.  NativePlayer::play    *)
(* holds the player throughout, so that nothing but a process that ends    *)
(* comes between its steps: it waits after each start to see whether the   *)
(* process lasts.                                                          *)
(***************************************************************************)
EXTENDS Naturals, Sequences, FiniteSets

CONSTANTS
  Builds,    \* [os, mpv, av, cli, bins, ownWindow, hw, ladder, refuses]: what was built
             \* in, programs in the PATH, FLUXPLAY_NATIVE_VO, preferred_hwdec,
             \* present_ladder, and the options that this libmpv refuses
  Settings,  \* [pref, proxied, hwdec, present]
  Processes, \* 1 .. n: names of processes
  MaxPlays   \* bound

VARIABLES
  build,
  opts,    \* PlayOptions: [pref, proxied, hwdec, present, wid]
  surface, \* the Android surface: [visible, top, upgrade]
  channel, \* whether the session has a stream
  native,  \* NativePlayer
  procs,   \* the processes started
  call,    \* where `play` is
  plays    \* plays so far

vars == <<build, opts, surface, channel, native, procs, call, plays>>

None == "none"
NoEngine == [vo |-> None]
Stopped == [mpv |-> NoEngine, av |-> NoEngine, pump |-> FALSE, avPump |-> FALSE,
            child |-> 0, ipc |-> 0, backend |-> None, present |-> "soft"]
NoProcess == [kind |-> None, alive |-> FALSE, asked |-> FALSE, via |-> FALSE, limited |-> FALSE]
Idle == [at |-> "idle", n |-> 1, backend |-> None, local |-> 0, compat |-> FALSE, result |-> None]
Hidden == [visible |-> FALSE, top |-> FALSE, upgrade |-> FALSE]
Android == build.os = "android"
OnSurface(p) == p \in {"embed", "egl"}

Takes(option) == option \notin build.refuses

-----------------------------------------------------------------------------
\* detect_backends, pick_backend; None is an error.  FFmpeg is libmpv on Android.
Available(id) ==
  CASE id = "mpv" -> build.mpv \/ "mpv" \in build.bins
    [] id = "ffmpeg" -> build.av \/ (~(Android /\ build.mpv) /\ "ffplay" \in build.bins)
Pick(pref) ==
  CASE pref = "auto" -> IF Available("mpv") THEN "mpv" ELSE IF Available("ffmpeg") THEN "ffmpeg" ELSE "external"
    [] pref = "mpv" -> IF Available("mpv") THEN "mpv" ELSE None
    [] pref = "ffmpeg" ->
         IF Android /\ build.mpv THEN "mpv" ELSE IF Available("ffmpeg") THEN "ffmpeg" ELSE None
    [] pref = "external" -> "external"

-----------------------------------------------------------------------------
\* start_libmpv: where the picture goes; a surface that is missing is not drawn on.
Present ==
  IF Android THEN IF OnSurface(opts.present) /\ ~opts.wid THEN "soft" ELSE opts.present
  ELSE IF build.ownWindow THEN "native" ELSE "soft"

\* The first output that this libmpv takes, one of them is required.
Outputs == [soft |-> <<"libmpv">>, native |-> <<"gpu-next", "gpu">>,
            embed |-> <<"mediacodec_embed">>, egl |-> <<"gpu", "mediacodec_embed">>]
Vo(p) ==
  LET taken == {i \in DOMAIN Outputs[p] : Takes(Outputs[p][i])}
  IN IF taken = {} THEN None ELSE Outputs[p][CHOOSE i \in taken : \A j \in taken : i <= j]

\* The decoder asked for: frames the program reads have to be copied back (so are those
\* that a second GPU decodes, for a window of mpv's own: left out).
Copying(h) ==
  CASE h = "vaapi" -> "vaapi-copy" [] h \in {"cuda", "nvdec"} -> "cuda-copy"
    [] h = "vulkan" -> "vulkan-copy" [] h \in {"auto", "auto-safe"} -> "auto-copy" [] OTHER -> h
Copies == {"vaapi-copy", "cuda-copy", "vulkan-copy", "auto-copy", "mediacodec-copy"}
OrSoftware(h) == IF Takes(h) THEN h ELSE "no"
Hwdec(p) ==
  IF OnSurface(p) THEN OrSoftware(IF Vo(p) = "gpu" THEN "mediacodec-copy" ELSE "mediacodec")
  ELSE IF ~opts.hwdec THEN "no"
  ELSE OrSoftware(IF p = "soft" THEN Copying(build.hw) ELSE build.hw)
\* mpv: whether it comes into use; where frames are read none can without the copy.
Engages(p, h) == {e \in BOOLEAN : e => h # "no" /\ (p = "soft" => h \in Copies)}
\* After a moment, on a desktop only: a decoder that is not in use is given up.
Settled(p, h, e) == IF ~Android /\ p = "soft" /\ opts.hwdec /\ ~e THEN "no" ELSE h

\* The proxy set like the other options
LibmpvLax(p) ==
  IF Vo(p) = None THEN {}
  ELSE {[vo |-> Vo(p), hwdec |-> Settled(p, Hwdec(p), e), engaged |-> e, asked |-> opts.proxied,
         via |-> opts.proxied /\ Takes("http-proxy"),
         limited |-> opts.proxied /\ ~Android /\ Takes("stream-lavf-o")] : e \in Engages(p, Hwdec(p))}
\* The proxy is required, the protocols that go around it are barred if they can be.
Libmpv(p) ==
  IF Vo(p) = None \/ (opts.proxied /\ ~Takes("http-proxy")) THEN {}
  ELSE {[vo |-> Vo(p), hwdec |-> Settled(p, Hwdec(p), e), engaged |-> e, asked |-> opts.proxied,
         via |-> opts.proxied, limited |-> opts.proxied /\ ~Android /\ Takes("stream-lavf-o")] :
         e \in Engages(p, Hwdec(p))}

-----------------------------------------------------------------------------
HasEmbeddedVideo(nat) ==
  IF nat.mpv # NoEngine THEN nat.present = "soft" ELSE nat.av # NoEngine

\* `play` answers; on Android a stream without a picture in the program goes on to
\* the system's player.
Answer(nat, ps, result) ==
  /\ native' = nat /\ procs' = ps
  /\ call' = [Idle EXCEPT !.at = IF Android /\ ~HasEmbeddedVideo(nat) THEN "intent" ELSE "idle", !.result = result]
Fails(nat, ps) == Answer(nat, ps, "err")
Plays(nat, ps) == Answer([nat EXCEPT !.backend = call.backend], ps, "ok")
\* A process is looked at once more after a while.
Landed(nat, ps) ==
  IF nat.child = 0 THEN Plays(nat, ps)
  ELSE native' = nat /\ procs' = ps /\ call' = [call EXCEPT !.at = "look", !.local = 0]

Free == CHOOSE p \in Processes : ~procs[p].alive /\ p \notin {native.child, call.local}
\* The proxy is in its environment, and only protocols that go through it are left.
Spawned(kind) ==
  [procs EXCEPT ![Free] = [kind |-> kind, alive |-> TRUE, asked |-> opts.proxied,
                           via |-> opts.proxied, limited |-> opts.proxied]]

StartMpvCli(nat) ==
  \/ Fails(nat, procs)
  \/ "mpv" \in build.bins /\ Landed([nat EXCEPT !.child = Free, !.ipc = Free], Spawned("mpv"))

StartMpv ==
  LET nat == IF build.mpv THEN [native EXCEPT !.present = Present] ELSE native
  IN \/ build.mpv /\ \E e \in Libmpv(Present) :
          Landed([nat EXCEPT !.mpv = e, !.pump = (Present = "soft")], procs)
     \/ IF Android \/ ~build.cli THEN Fails(nat, procs) ELSE StartMpvCli(nat)

\* try_spawn of start_ffplay, with all the arguments and then with those every one takes
SpawnFfplay(compat) ==
  \/ Fails(native, procs)
  \/ /\ procs' = Spawned("ffplay")
     /\ call' = [call EXCEPT !.at = "watch", !.local = Free, !.compat = compat]
     /\ UNCHANGED native

StartFfmpeg ==
  \/ /\ build.av /\ ~build.ownWindow
     /\ Landed([native EXCEPT !.av = [vo |-> "frames", asked |-> opts.proxied, via |-> opts.proxied],
                              !.avPump = TRUE], procs)
  \/ IF build.cli /\ "ffplay" \in build.bins THEN SpawnFfplay(FALSE) ELSE Fails(native, procs)

\* Whether ffplay lasts; `child` is only set when it does.
Watch ==
  /\ call.at = "watch"
  /\ IF procs[call.local].alive THEN Landed([native EXCEPT !.child = call.local], procs)
     ELSE IF call.compat THEN Fails(native, procs) ELSE SpawnFfplay(TRUE)

\* start_external refuses a stream that has to go through the tunnel.
StartExternal ==
  \/ Fails(native, procs)
  \/ ~Android /\ ~opts.proxied /\ Plays(native, procs)

Attempt ==
  /\ call.at = "attempt"
  /\ CASE call.backend = "mpv" -> StartMpv
       [] call.backend = "ffmpeg" -> StartFfmpeg
       [] call.backend = "external" -> StartExternal

\* A process is not looked at before another is started.
LookAgain ==
  /\ call.at = "look"
  /\ IF call.n = 1 /\ procs[native.child].kind = "ffplay"
     THEN /\ native' = [native EXCEPT !.child = 0, !.ipc = 0, !.backend = None]
          /\ call' = [call EXCEPT !.at = "attempt", !.n = 2]
          /\ UNCHANGED procs
     ELSE Plays(native, procs)
\* Whether the process is still there; one that ended at once is started once more.
Look ==
  /\ call.at = "look"
  /\ IF procs[native.child].alive THEN Plays(native, procs)
     ELSE IF call.n = 1
     THEN /\ native' = [native EXCEPT !.child = 0, !.ipc = 0, !.backend = None]
          /\ call' = [call EXCEPT !.at = "attempt", !.n = 2]
          /\ UNCHANGED procs
     ELSE Fails([native EXCEPT !.child = 0, !.backend = None], procs)

\* NativePlayer::stop: `quit` over the socket, and the child is killed.
Killed ==
  [p \in Processes |->
     IF p \in {native.child, native.ipc} THEN [procs[p] EXCEPT !.alive = FALSE] ELSE procs[p]]

\* NativePlayer::play; the surface prepared for it outlives the stop.
StartPlay(o) ==
  /\ call.at = "idle" /\ plays < MaxPlays
  /\ plays' = plays + 1 /\ opts' = o
  /\ native' = Stopped /\ procs' = Killed
  /\ call' = IF Pick(o.pref) = None
             THEN [Idle EXCEPT !.at = IF Android THEN "intent" ELSE "idle", !.result = "err"]
             ELSE [Idle EXCEPT !.at = "attempt", !.backend = Pick(o.pref)]
  /\ UNCHANGED build

-----------------------------------------------------------------------------
From(s, present, wid) ==
  [pref |-> s.pref, proxied |-> s.proxied, hwdec |-> s.hwdec, present |-> present, wid |-> wid]
Ladder(s) ==
  CASE s.present = "soft" -> <<"soft">>
    [] s.present = "egl" -> <<"egl", "embed", "soft">>
    [] OTHER -> build.ladder

\* The surface stays in front after a miss.
BoundInFront(s) ==
  {LET p == Ladder(s)[i]
       warm == i > 1 /\ s.present # "soft"
   IN [opts |-> From(s, p, OnSurface(p)),
       surface |-> IF OnSurface(p) THEN [visible |-> TRUE, top |-> TRUE, upgrade |-> FALSE]
                   ELSE [visible |-> warm, top |-> surface.top \/ warm, upgrade |-> warm]] :
     i \in DOMAIN Ladder(s)}
\* bind_android_surface_for_play: the first step of the ladder whose surface is ready;
\* after a miss the surface is warmed under the interface.
Bound(s) ==
  {LET p == Ladder(s)[i]
       warm == i > 1 /\ s.present # "soft"
   IN [opts |-> From(s, p, OnSurface(p)),
       surface |-> IF OnSurface(p) THEN [visible |-> TRUE, top |-> TRUE, upgrade |-> FALSE]
                   ELSE [visible |-> warm, top |-> surface.top /\ ~warm, upgrade |-> warm]] :
     i \in DOMAIN Ladder(s)}

Init ==
  /\ build \in Builds
  /\ \E s \in Settings : opts = From(s, IF Android THEN Head(Ladder(s)) ELSE "soft", FALSE)
  /\ surface = Hidden /\ channel = FALSE
  /\ native = Stopped /\ procs = [p \in Processes |-> NoProcess]
  /\ call = Idle /\ plays = 0

\* A stream is opened: apply_source_headers_for, then open_channel.
Open(s) ==
  /\ channel' = TRUE
  /\ IF Android THEN \E b \in Bound(s) : StartPlay(b.opts) /\ surface' = b.surface
     ELSE StartPlay(From(s, "soft", FALSE)) /\ UNCHANGED surface

\* NativePlayer::restart; an mpv that there is takes the link itself.
Restart ==
  /\ channel /\ native.mpv = NoEngine /\ native.ipc = 0
  /\ StartPlay(opts)
  /\ UNCHANGED <<surface, channel>>

\* A setting changes: a surface that is drawn on is kept.
ResyncPlayerOptions(s) ==
  /\ call.at = "idle"
  /\ opts' = IF ~Android THEN From(s, "soft", FALSE)
             ELSE IF channel THEN From(s, opts.present, opts.wid) ELSE From(s, Head(Ladder(s)), FALSE)
  /\ UNCHANGED <<build, surface, channel, native, procs, call, plays>>

\* Message::Stop
Stop ==
  /\ call.at = "idle"
  /\ native' = Stopped /\ procs' = Killed /\ opts' = [opts EXCEPT !.wid = FALSE]
  /\ surface' = [surface EXCEPT !.visible = FALSE, !.upgrade = FALSE]
  /\ channel' = FALSE /\ call' = Idle
  /\ UNCHANGED <<build, plays>>

\* ACTION_VIEW: nothing plays here then; a film that plays on the surface stays.
Intent ==
  /\ call.at = "intent"
  /\ \/ /\ native' = Stopped /\ opts' = [opts EXCEPT !.wid = FALSE]
        /\ surface' = [surface EXCEPT !.visible = FALSE]
        /\ call' = [Idle EXCEPT !.result = "external"]
     \/ call' = [call EXCEPT !.at = "idle"] /\ UNCHANGED <<native, opts, surface>>
  /\ UNCHANGED <<build, channel, procs, plays>>

ProcessEnds(p) ==
  /\ procs[p].alive
  /\ procs' = [procs EXCEPT ![p].alive = FALSE]
  /\ UNCHANGED <<build, opts, surface, channel, native, call, plays>>

Next ==
  \/ \E s \in Settings : Open(s) \/ ResyncPlayerOptions(s)
  \/ (Attempt \/ Watch \/ Look) /\ UNCHANGED <<build, opts, surface, channel, plays>>
  \/ Restart \/ Stop \/ Intent
  \/ \E p \in Processes : ProcessEnds(p)

Spec == Init /\ [][Next]_vars

-----------------------------------------------------------------------------
Living == {p \in Processes : procs[p].alive}
\* What plays, inside the program and as processes
Engines == {e \in {native.mpv, native.av} : e # NoEngine} \cup {procs[p] : p \in Living}
AtRest(result) == call.at = "idle" /\ call.result = result

TypeOK ==
  /\ call.at \in {"idle", "attempt", "watch", "look", "intent"} /\ plays \in 0 .. MaxPlays
  /\ {native.child, native.ipc, call.local} \subseteq Processes \cup {0}
  /\ native.backend \in {None, "mpv", "ffmpeg", "external"}

\* The stream of an account with one connection is asked for once: at no moment,
\* retries and fallbacks included, do two engines play, and no process is out of the
\* hands of the player (backend.rs:1365, "Panels with max_connections=1 need a beat").
OneEngine ==
  /\ Cardinality({e \in {native.mpv, native.av} : e # NoEngine}) + Cardinality(Living) <= 1
  /\ Living \subseteq {native.child, call.local}

\* display_label
DisplayLabel ==
  IF native.mpv # NoEngine THEN "libmpv" ELSE IF native.ipc # 0 THEN "mpv"
  ELSE IF native.av # NoEngine THEN "libav"
  ELSE IF native.backend = "ffmpeg" /\ native.child # 0 THEN "ffplay" ELSE native.backend

\* After an Ok the player names what plays and feeds the stage from it; after an error
\* nothing plays (backend.rs:822, "Honest status label").
SaysWhatPlays ==
  /\ AtRest("ok") =>
       DisplayLabel = IF native.mpv # NoEngine THEN "libmpv" ELSE IF native.av # NoEngine THEN "libav"
                      ELSE IF native.child # 0 THEN procs[native.child].kind ELSE "external"
  /\ AtRest("err") \/ AtRest(None) => Engines = {}
  /\ native.pump <=> native.mpv # NoEngine /\ native.mpv.vo = "libmpv"
  /\ native.avPump <=> native.av # NoEngine

\* An engine started while the streams go through the tunnel goes through it, whichever
\* it is, and takes no protocol that goes around it where it can be told to.
ThroughTheProxy ==
  \A e \in Engines : e.asked =>
    /\ e.via
    /\ "limited" \in DOMAIN e => e.limited \/ Android \/ ~Takes("stream-lavf-o")

\* A decoder whose frames nothing can read is not left on: on a desktop the frames the
\* program draws come from one in use or from software.
FramesAreRead ==
  ~Android /\ native.mpv # NoEngine /\ native.mpv.vo = "libmpv" => native.mpv.engaged \/ native.mpv.hwdec = "no"

\* On Android what plays is seen: on the surface, in front and bound, or in the
\* interface with nothing in front of it; and the surface is warmed only for a stream.
PictureIsSeen ==
  /\ AtRest("ok") /\ native.mpv # NoEngine /\ Android =>
       IF native.mpv.vo = "libmpv" THEN ~(surface.visible /\ surface.top)
       ELSE surface.visible /\ surface.top /\ opts.wid
  /\ ~channel => ~surface.visible
=============================================================================
