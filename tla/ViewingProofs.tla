----------------------------- MODULE ViewingProofs -----------------------------
(***************************************************************************)
(* What is proved of the parts a viewer meets: the throttle of the public  *)
(* services (ApiGate), the audio focus (AudioFocus), the stage of the      *)
(* player (Stage), the slots of the pictures (FramePump), the queue of     *)
(* episodes (Episodes), the threads and the ring of sound of the embedded  *)
(* player (EmbedPlayer, AudioQueue), its window (PlayerWindow), the start  *)
(* of an engine (EngineStart) and the session over it (Player).            *)
(*                                                                         *)
(* Each part is an instance whose bounds and faults are constants of this  *)
(* module: a theorem about its Spec holds for all of them, but for the     *)
(* faults its statement leaves out.  MCViewing extends this module, so     *)
(* that what is proved here is what its run checks.                        *)
(***************************************************************************)
EXTENDS ApiGate, Sequences, FiniteSetTheorems, SequenceTheorems, WellFoundedInduction, TLAPS

VARIABLE part \* which of the parts a behaviour of MCViewing is of

-----------------------------------------------------------------------------
\* Lemmas on sets

LEMMA AtMostOne ==
  ASSUME NEW S, NEW x, S = {} \/ S = {x} PROVE Cardinality(S) <= 1
<1>1. CASE S = {} BY <1>1, FS_EmptySet
<1>2. CASE S = {x}
  <2>1. Cardinality({x}) = 1 BY FS_Singleton
  <2> QED BY <1>2, <2>1
<1> QED BY <1>1, <1>2

\* A set of numbers that is not empty has a least one.
LEMMA LeastNumber ==
  ASSUME NEW S, S \subseteq Nat, S # {} PROVE \E m \in S : \A n \in S : m <= n
<1> DEFINE Less == {p \in Nat \X Nat : p[1] < p[2]}
<1>1. IsWellFoundedOn(Less, Nat) BY NatLessThanWellFounded DEF OpToRel
<1>2. \E x \in S : \A z \in S : ~ (<<z, x>> \in Less)
  <2> HIDE DEF Less
  <2> QED  BY <1>1, WFMin
<1>3. PICK m \in S : \A z \in S : ~ (<<z, m>> \in Less) BY <1>2
<1>4. ASSUME NEW z \in S PROVE m <= z
  <2>1. m \in Nat /\ z \in Nat OBVIOUS
  <2>2. ~ (z < m) BY <1>3, <2>1
  <2> QED BY <2>1, <2>2
<1> QED BY <1>4

-----------------------------------------------------------------------------
(***************************************************************************)
(* The slots the throttle gives to one caller are an interval apart, for   *)
(* any number of callers, any interval and any clock.  The argument: the   *)
(* last slot given never goes back, so that it is no earlier than that of  *)
(* any caller, and a caller that asks again has reached its own slot.      *)
(***************************************************************************)

\* No slot is later than the last one given, the last one is within an interval from
\* now, and who is not asleep has its slot behind it.
SlotsBehind ==
  /\ TypeOK /\ NearSlots
  /\ \A c \in Callers : slot[c] <= last
  /\ \A c \in Callers : pc[c] = "wait" => wake[c] = slot[c]
  /\ \A c \in Callers : pc[c] # "wait" => slot[c] <= now

\* The wait is never negative, and takes what is left of the interval since the last slot.
LEMMA WaitBounds ==
  ASSUME TypeOK
  PROVE  /\ Wait \in Nat /\ Wait <= Interval
         /\ last <= now => now + Wait >= last + Interval
         /\ last > now => Wait = Interval
<1>1. Interval \in Nat \ {0} BY GateAssumption
<1>2. now \in Nat /\ last \in Int BY DEF TypeOK
<1> QED BY <1>1, <1>2 DEF Wait

LEMMA SlotsBehindInit == Init => SlotsBehind
BY GateAssumption DEF Init, SlotsBehind, TypeOK, NearSlots, PCs

LEMMA SlotsBehindStep == SlotsBehind /\ [Next]_vars => SlotsBehind'
<1> SUFFICES ASSUME SlotsBehind, [Next]_vars PROVE SlotsBehind'
  OBVIOUS
<1>0. Interval \in Nat \ {0} /\ Cooldown \in Nat \ {0} BY GateAssumption
<1>1. CASE Tick
  BY <1>0, <1>1 DEF Tick, SlotsBehind, TypeOK, NearSlots, PCs
<1>2. ASSUME NEW c \in Callers, Ask(c) PROVE SlotsBehind'
  BY <1>0, <1>2 DEF Ask, SlotsBehind, TypeOK, NearSlots, PCs
<1>3. ASSUME NEW c \in Callers, CoolDown(c) PROVE SlotsBehind'
  BY <1>0, <1>3 DEF CoolDown, SlotsBehind, TypeOK, NearSlots, PCs
<1>4. ASSUME NEW c \in Callers, TakeSlot(c) PROVE SlotsBehind'
  <2>1. /\ Wait \in Nat /\ Wait <= Interval
        /\ last <= now => now + Wait >= last + Interval
        /\ last > now => Wait = Interval
    BY WaitBounds DEF SlotsBehind
  <2>2. TypeOK' BY <2>1, <1>4 DEF TakeSlot, SlotsBehind, TypeOK, PCs
  <2>3. NearSlots' BY <1>0, <2>1, <1>4 DEF TakeSlot, SlotsBehind, TypeOK, NearSlots
  <2>4. last' >= last
    BY <1>0, <2>1, <1>4 DEF TakeSlot, SlotsBehind, TypeOK, NearSlots
  <2>5. \A d \in Callers : slot'[d] <= last'
    BY <2>1, <2>2, <2>4, <1>4 DEF TakeSlot, SlotsBehind, TypeOK
  <2>6. \A d \in Callers : pc'[d] = "wait" => wake'[d] = slot'[d]
    BY <1>4 DEF TakeSlot, SlotsBehind, TypeOK
  <2>7. \A d \in Callers : pc'[d] # "wait" => slot'[d] <= now'
    BY <1>4 DEF TakeSlot, SlotsBehind, TypeOK
  <2> QED BY <2>2, <2>3, <2>5, <2>6, <2>7 DEF SlotsBehind
<1>5. ASSUME NEW c \in Callers, Send(c) PROVE SlotsBehind'
  BY <1>0, <1>5 DEF Send, SlotsBehind, TypeOK, NearSlots, PCs
<1>6. ASSUME NEW c \in Callers, Answered(c) PROVE SlotsBehind'
  BY <1>0, <1>6 DEF Answered, SlotsBehind, TypeOK, NearSlots, PCs
<1>7. ASSUME NEW c \in Callers, Refused(c) PROVE SlotsBehind'
  BY <1>0, <1>7 DEF Refused, SlotsBehind, TypeOK, NearSlots, PCs
<1>8. CASE UNCHANGED vars
  BY <1>8 DEF vars, SlotsBehind, TypeOK, NearSlots
<1> QED BY <1>1, <1>2, <1>3, <1>4, <1>5, <1>6, <1>7, <1>8 DEF Next

\* Whoever asks waits one interval at most (wait_turn): the slots do not run ahead.
THEOREM SlotsAreNear == Spec => []NearSlots
<1>1. SlotsBehind => NearSlots BY DEF SlotsBehind
<1> QED BY <1>1, SlotsBehindInit, SlotsBehindStep, PTL DEF Spec

\* The requests of one caller keep the interval, whoever else shares the throttle.
THEOREM CallersAreSpaced == Spec => CallersSpaced
<1>1. ASSUME SlotsBehind, [Next]_vars PROVE [CallerSpaced]_vars
  <2>0. Interval \in Nat \ {0} BY GateAssumption
  <2>1. ASSUME NEW c \in Callers, TakeSlot(c) PROVE CallerSpaced
    <3>1. /\ Wait \in Nat /\ Wait <= Interval
          /\ last <= now => now + Wait >= last + Interval
          /\ last > now => Wait = Interval
      BY <1>1, WaitBounds DEF SlotsBehind
    <3>2. slot[c] <= last /\ slot[c] <= now /\ slot[c] \in Int /\ now \in Nat /\ last \in Int
      BY <1>1, <2>1 DEF TakeSlot, SlotsBehind, TypeOK
    <3>3. slot'[c] = now + Wait
      BY <1>1, <2>1 DEF TakeSlot, SlotsBehind, TypeOK
    <3>4. now + Wait >= slot[c] + Interval
      BY <2>0, <3>1, <3>2
    <3>5. \A d \in Callers : d # c => slot'[d] = slot[d]
      BY <1>1, <2>1 DEF TakeSlot, SlotsBehind, TypeOK
    <3> QED BY <3>3, <3>4, <3>5 DEF CallerSpaced
  <2>2. CASE UNCHANGED slot
    BY <2>2 DEF CallerSpaced
  <2>3. CASE UNCHANGED vars
    BY <2>3 DEF vars
  <2> QED
    BY <1>1, <2>1, <2>2, <2>3
    DEF Next, Tick, Ask, CoolDown, Send, Answered, Refused
<1> QED BY <1>1, SlotsBehindInit, SlotsBehindStep, PTL DEF Spec, CallersSpaced
-----------------------------------------------------------------------------
(***************************************************************************)
(* The engine and the session that shows it.  An engine that is alive and  *)
(* controlled is as the session says whatever the session's state is, an   *)
(* error included, for a restart may bring it back from there; the volume  *)
(* the next engine starts with is the one shown unless the session is      *)
(* muted; and what ffplay's keys toggled is what ffplay does, so that a    *)
(* key is sent exactly when it changes something.                          *)
(***************************************************************************)
CONSTANTS PlayerEngines, PlayerVolumes, PlayerFaults

ASSUME PlayerAssumption == "none" \notin PlayerEngines /\ PlayerVolumes \subseteq Nat

VARIABLES session, engine, native

Player == INSTANCE Player WITH
  Engines <- PlayerEngines, Volumes <- PlayerVolumes, Faults <- PlayerFaults

MirrorType == [speed : {1, 2}, aspect : {1, 2}]
KeysType == [muted : BOOLEAN, paused : BOOLEAN]
EngineType ==
  [kind : PlayerEngines \cup {"none"}, alive : BOOLEAN, paused : BOOLEAN, muted : BOOLEAN,
   vol : PlayerVolumes \cup {0}, stalled : BOOLEAN, set : MirrorType]
SessionType ==
  [state : Player!Active \cup {"idle", "error"}, muted : BOOLEAN, volume : PlayerVolumes,
   set : MirrorType]

KeysAgree(e, keys) == e.kind = "ffplay" => keys = [muted |-> e.muted, paused |-> e.paused]
Driven(e) == e.alive /\ e.kind # "external"

SessionTyped ==
  /\ session \in SessionType /\ engine \in EngineType
  /\ native \in [vol : PlayerVolumes, keys : KeysType]
  /\ KeysAgree(engine, native.keys)
  /\ engine.kind = "none" => ~engine.alive
  /\ engine.kind = "libav" => ~engine.muted

\* How an engine is heard in a session that is muted, and in one that is not.
HeardAs(e, muted, volume) ==
  Driven(e) => IF muted THEN e.muted \/ e.vol = 0
               ELSE ~e.muted /\ (e.kind # "ffplay" => e.vol = volume)

PlayerAsShown ==
  /\ HeardAs(engine, session.muted, session.volume)
  /\ ~session.muted => native.vol = session.volume
  /\ Player!PausedIsPaused
  /\ Driven(engine) /\ engine.kind \in Player!Mpv => engine.set = session.set

-----------------------------------------------------------------------------
\* What the operators of Player return.

\* An order reaches an engine that is alive, unless orders get lost.
LEMMA OrdersReach ==
  ASSUME NEW e \in EngineType
  PROVE  /\ Player!Reaches(e) \subseteq BOOLEAN
         /\ {"key", "ipc"} \cap PlayerFaults = {} /\ Driven(e) /\ e.kind # "none"
            => Player!Reaches(e) = {TRUE}
BY DEF Player!Reaches, Player!Gone, Player!MayLose, Driven, EngineType

LEMMA StartedType ==
  ASSUME NEW k \in PlayerEngines, NEW v \in PlayerVolumes
  PROVE  /\ Player!Started(k, v) \in EngineType
         /\ Player!Started(k, v).kind = k /\ Player!Started(k, v).vol = v
         /\ Player!Started(k, v).alive = TRUE /\ Player!Started(k, v).muted = FALSE
         /\ Player!Started(k, v).paused = FALSE
         /\ Player!Started(k, v).set = Player!Settings
BY DEF Player!Started, Player!NoEngine, Player!Settings, EngineType, MirrorType

LEMMA NoEngineType ==
  /\ Player!NoEngine \in EngineType /\ Player!NoEngine.kind = "none"
  /\ ~Player!NoEngine.alive /\ ~Player!NoEngine.muted
  /\ Player!NoKeys \in KeysType
BY DEF Player!NoEngine, Player!NoKeys, Player!Settings, EngineType, MirrorType, KeysType

\* A mute or a pause: what changes, what stays, and that it is Ok where it is driven.
LEMMA OrderedOutcome ==
  ASSUME NEW e \in EngineType, NEW keys \in KeysType, NEW name \in {"muted", "paused"},
         NEW on \in BOOLEAN, KeysAgree(e, keys),
         NEW m \in Player!Ordered(e, keys, name, on)
  PROVE  /\ m.engine \in {e, [e EXCEPT ![name] = on]} /\ m.keys \in KeysType
         /\ m.ok \in BOOLEAN /\ KeysAgree(m.engine, m.keys)
         /\ m.ok => m.engine[name] = on
         /\ ~m.ok => m.engine = e /\ m.keys = keys
         /\ {"key", "ipc"} \cap PlayerFaults = {} /\ Driven(e) /\ e.kind # "none" => m.ok
<1>1. CASE e.kind = "ffplay" /\ keys[name] = on
  <2>1. m = Player!Outcome(e, keys, TRUE)
    BY <1>1 DEF Player!Ordered, Player!Key
  <2>2. m.engine = e /\ m.keys = keys /\ m.ok = TRUE
    BY <2>1 DEF Player!Outcome
  <2>3. e[name] = keys[name]
    <3>1. keys = [muted |-> e.muted, paused |-> e.paused]
      BY <1>1 DEF KeysAgree
    <3>2. CASE name = "muted" BY <3>1, <3>2
    <3>3. CASE name = "paused" BY <3>1, <3>3
    <3> QED BY <3>2, <3>3
  <2> QED BY <1>1, <2>2, <2>3
<1>2. CASE e.kind = "ffplay" /\ keys[name] # on
  <2>1. PICK r \in Player!Reaches(e) :
          m = IF r THEN Player!Outcome([e EXCEPT ![name] = ~@], [keys EXCEPT ![name] = on], TRUE)
              ELSE Player!Outcome(e, keys, FALSE)
    BY <1>2 DEF Player!Ordered, Player!Key
  <2>2. r \in BOOLEAN /\ ({"key", "ipc"} \cap PlayerFaults = {} /\ Driven(e) => r = TRUE)
    BY <1>2, <2>1, OrdersReach
  <2>3. e[name] \in BOOLEAN /\ (~e[name]) = on
    BY <1>2 DEF EngineType, KeysType, KeysAgree
  <2>4. CASE r = TRUE
    <3>1. m.engine = [e EXCEPT ![name] = on] /\ m.keys = [keys EXCEPT ![name] = on] /\ m.ok = TRUE
      BY <2>1, <2>3, <2>4 DEF Player!Outcome
    <3>2. [e EXCEPT ![name] = on][name] = on
      BY DEF EngineType
    <3>3. KeysAgree([e EXCEPT ![name] = on], [keys EXCEPT ![name] = on])
      <4>1. keys = [muted |-> e.muted, paused |-> e.paused]
        BY <1>2 DEF KeysAgree
      <4>2. CASE name = "muted"
        BY <1>2, <4>1, <4>2 DEF KeysAgree, EngineType
      <4>3. CASE name = "paused"
        BY <1>2, <4>1, <4>3 DEF KeysAgree, EngineType
      <4> QED BY <4>2, <4>3
    <3> QED BY <3>1, <3>2, <3>3 DEF KeysType
  <2>5. CASE r = FALSE
    <3>1. m.engine = e /\ m.keys = keys /\ m.ok = FALSE
      BY <2>1, <2>5 DEF Player!Outcome
    <3> QED BY <2>2, <2>5, <3>1
  <2> QED BY <2>2, <2>4, <2>5
<1>3. CASE e.kind # "ffplay"
  <2>1. PICK r \in Player!Reaches(e) :
          m = Player!Outcome(IF r THEN [e EXCEPT ![name] = on] ELSE e, keys, r)
    BY <1>3 DEF Player!Ordered, Player!Assign
  <2>2. r \in BOOLEAN
    BY <2>1, OrdersReach
  <2>3. /\ m.engine = (IF r THEN [e EXCEPT ![name] = on] ELSE e) /\ m.keys = keys /\ m.ok = r
    BY <2>1 DEF Player!Outcome
  <2>4. [e EXCEPT ![name] = on][name] = on /\ [e EXCEPT ![name] = on].kind = e.kind
    BY DEF EngineType
  <2>5. {"key", "ipc"} \cap PlayerFaults = {} /\ Driven(e) /\ e.kind # "none" => m.ok
    BY <2>1, <2>3, OrdersReach
  <2> QED BY <1>3, <2>2, <2>3, <2>4, <2>5 DEF KeysAgree
<1> QED BY <1>1, <1>2, <1>3

\* What does not change with a mute or a volume.
Same(e, f) ==
  /\ f \in EngineType
  /\ f.kind = e.kind /\ f.alive = e.alive /\ f.paused = e.paused /\ f.set = e.set

LEMMA MuteOutcome ==
  ASSUME NEW e \in EngineType, NEW keys \in KeysType, NEW on \in BOOLEAN,
         KeysAgree(e, keys), native.vol \in PlayerVolumes, e.kind = "libav" => ~e.muted,
         NEW m \in Player!SetMute(e, keys, on)
  PROVE  /\ Same(e, m.engine) /\ m.keys \in KeysType /\ m.ok \in BOOLEAN
         /\ KeysAgree(m.engine, m.keys) /\ (m.engine.kind = "libav" => ~m.engine.muted)
         /\ m.ok => IF on THEN m.engine.muted \/ m.engine.vol = 0 ELSE ~m.engine.muted
         /\ ~m.ok => m.engine = e /\ m.keys = keys
         /\ {"key", "ipc"} \cap PlayerFaults = {} /\ Driven(e) /\ e.kind # "none" => m.ok
<1>1. CASE e.kind = "libav"
  <2>1. m = Player!Outcome([e EXCEPT !.vol = IF on THEN 0 ELSE native.vol], keys, TRUE)
    BY <1>1 DEF Player!SetMute
  <2>2. m.engine = [e EXCEPT !.vol = IF on THEN 0 ELSE native.vol] /\ m.keys = keys /\ m.ok = TRUE
    BY <2>1 DEF Player!Outcome
  <2> QED BY <1>1, <2>2 DEF Same, EngineType, KeysAgree
<1>2. CASE e.kind # "libav"
  <2>1. m \in Player!Ordered(e, keys, "muted", on)
    BY <1>2 DEF Player!SetMute
  <2>2. Same(e, e) /\ Same(e, [e EXCEPT !.muted = on]) /\ e.muted \in BOOLEAN
    BY DEF Same, EngineType
  <2>3. /\ m.engine \in {e, [e EXCEPT !["muted"] = on]} /\ m.keys \in KeysType
        /\ m.ok \in BOOLEAN /\ KeysAgree(m.engine, m.keys)
        /\ m.ok => m.engine["muted"] = on
        /\ ~m.ok => m.engine = e /\ m.keys = keys
        /\ {"key", "ipc"} \cap PlayerFaults = {} /\ Driven(e) /\ e.kind # "none" => m.ok
    BY <2>1, OrderedOutcome
  <2> QED BY <1>2, <2>2, <2>3 DEF Same
<1> QED BY <1>1, <1>2

LEMMA VolumeOutcome ==
  ASSUME NEW e \in EngineType, NEW v \in PlayerVolumes, NEW f \in Player!SetVolume(e, v)
  PROVE  /\ Same(e, f) /\ f.muted = e.muted
         /\ {"key", "ipc"} \cap PlayerFaults = {} /\ Driven(e) /\ e.kind \notin {"none", "ffplay"} => f.vol = v
<1>1. PICK r \in Player!Reaches(e) : f = IF r /\ e.kind # "ffplay" THEN [e EXCEPT !.vol = v] ELSE e
  BY DEF Player!SetVolume
<1>2. r \in BOOLEAN /\ ({"key", "ipc"} \cap PlayerFaults = {} /\ Driven(e) /\ e.kind # "none" => r = TRUE)
  BY <1>1, OrdersReach
<1>3. /\ [e EXCEPT !.vol = v] \in EngineType /\ [e EXCEPT !.vol = v].vol = v
      /\ [e EXCEPT !.vol = v].kind = e.kind /\ [e EXCEPT !.vol = v].alive = e.alive
      /\ [e EXCEPT !.vol = v].paused = e.paused /\ [e EXCEPT !.vol = v].set = e.set
      /\ [e EXCEPT !.vol = v].muted = e.muted
  BY DEF EngineType
<1> QED BY <1>1, <1>2, <1>3 DEF Same

LEMMA PlayedOutcome ==
  ASSUME SessionTyped, NEW out \in Player!Played
  PROVE  /\ out.engine \in EngineType /\ out.keys \in KeysType /\ out.ok \in BOOLEAN
         /\ KeysAgree(out.engine, out.keys) /\ ~out.engine.muted /\ ~out.engine.paused
         /\ out.engine.set = Player!Settings
         /\ out.engine.kind = "none" => ~out.engine.alive
         /\ out.ok => out.engine.alive /\ out.engine.kind # "none" /\ out.engine.vol = native.vol
         /\ ~out.ok => out.engine = Player!NoEngine
<1>1. native.vol \in PlayerVolumes
  BY DEF SessionTyped
<1>2. Player!NoKeys.muted = FALSE /\ Player!NoKeys.paused = FALSE
      /\ Player!NoKeys = [muted |-> FALSE, paused |-> FALSE]
  BY DEF Player!NoKeys
<1>3. ASSUME NEW k \in PlayerEngines, out = Player!Outcome(Player!Started(k, native.vol), Player!NoKeys, TRUE)
      PROVE  /\ out.engine = Player!Started(k, native.vol) /\ out.keys = Player!NoKeys /\ out.ok = TRUE
  BY <1>3 DEF Player!Outcome
<1>4. ASSUME out = Player!Outcome(Player!NoEngine, Player!NoKeys, FALSE)
      PROVE  out.engine = Player!NoEngine /\ out.keys = Player!NoKeys /\ out.ok = FALSE
  BY <1>4 DEF Player!Outcome
<1>5. CASE \E k \in PlayerEngines : out = Player!Outcome(Player!Started(k, native.vol), Player!NoKeys, TRUE)
  <2>1. PICK k \in PlayerEngines : out = Player!Outcome(Player!Started(k, native.vol), Player!NoKeys, TRUE)
    BY <1>5
  <2>2. /\ out.engine = Player!Started(k, native.vol) /\ out.keys = Player!NoKeys /\ out.ok = TRUE
    BY <1>3, <2>1
  <2>3. k # "none" BY PlayerAssumption
  <2>4. /\ out.engine \in EngineType /\ out.engine.kind = k /\ out.engine.vol = native.vol
        /\ out.engine.alive = TRUE /\ out.engine.muted = FALSE /\ out.engine.paused = FALSE
        /\ out.engine.set = Player!Settings
    <3> DEFINE e == Player!Started(k, native.vol)
    <3>1. /\ e \in EngineType /\ e.kind = k /\ e.vol = native.vol
          /\ e.alive = TRUE /\ e.muted = FALSE /\ e.paused = FALSE
          /\ e.set = Player!Settings
      BY <1>1, StartedType
    <3>2. out.engine = e BY <2>2, Zenon
    <3> HIDE DEF e
    <3> QED BY <3>1, <3>2
  <2>5. KeysAgree(out.engine, out.keys)
    BY <1>2, <2>2, <2>4 DEF KeysAgree
  <2> QED BY <2>2, <2>3, <2>4, <2>5, NoEngineType
<1>6. CASE out = Player!Outcome(Player!NoEngine, Player!NoKeys, FALSE)
  <2>1. KeysAgree(Player!NoEngine, Player!NoKeys)
    BY NoEngineType DEF KeysAgree
  <2>2. ~Player!NoEngine.paused /\ Player!NoEngine.set = Player!Settings
    BY DEF Player!NoEngine
  <2> QED BY <1>4, <1>6, <2>1, <2>2, NoEngineType
<1> QED BY <1>5, <1>6 DEF Player!Played

-----------------------------------------------------------------------------
\* An order that is lost, a restart of a paused engine and a setting that only the
\* session mirrors are left out.
Obeyed == {"key", "ipc", "paused", "settings"} \cap PlayerFaults = {}

PlayerGoesOn == SessionTyped' /\ (Obeyed /\ PlayerAsShown => PlayerAsShown')

\* The mute or the volume of a session, applied to an engine that just started.
LEMMA OpenedAsShown ==
  ASSUME SessionTyped, NEW out, out.engine \in EngineType, out.keys \in KeysType,
         KeysAgree(out.engine, out.keys), ~out.engine.muted,
         out.engine.kind = "none" => ~out.engine.alive,
         Player!Opened(out)
  PROVE  /\ Same(out.engine, engine') /\ native' \in [vol : PlayerVolumes, keys : KeysType]
         /\ KeysAgree(engine', native'.keys)
         /\ engine'.kind = "libav" => ~engine'.muted
         /\ Obeyed => /\ HeardAs(engine', session.muted, session.volume)
                      /\ ~session.muted => native'.vol = session.volume
<1>1. session.volume \in PlayerVolumes /\ native.vol \in PlayerVolumes /\ session.muted \in BOOLEAN
      /\ native \in [vol : PlayerVolumes, keys : KeysType]
  BY DEF SessionTyped, SessionType
<1>2. Obeyed => {"key", "ipc"} \cap PlayerFaults = {}
  BY DEF Obeyed
<1>3. CASE session.muted
  <2>1. PICK m \in Player!SetMute(out.engine, out.keys, TRUE) :
          engine' = m.engine /\ native' = [native EXCEPT !.keys = m.keys]
    BY <1>3 DEF Player!Opened
  <2>2. /\ Same(out.engine, m.engine) /\ m.keys \in KeysType
        /\ KeysAgree(m.engine, m.keys) /\ (m.engine.kind = "libav" => ~m.engine.muted)
        /\ m.ok => m.engine.muted \/ m.engine.vol = 0
        /\ Obeyed /\ Driven(out.engine) => m.ok
    BY <1>1, <1>2, <2>1, MuteOutcome DEF Driven
  <2>3. native' \in [vol : PlayerVolumes, keys : KeysType] /\ native'.keys = m.keys
    BY <1>1, <2>1, <2>2
  <2> QED BY <1>3, <2>1, <2>2, <2>3 DEF HeardAs, Same, Driven
<1>4. CASE ~session.muted
  <2>1. /\ engine' \in Player!SetVolume(out.engine, session.volume)
        /\ native' = [vol |-> session.volume, keys |-> out.keys]
    BY <1>4 DEF Player!Opened
  <2>2. /\ Same(out.engine, engine') /\ engine'.muted = out.engine.muted
        /\ Obeyed /\ Driven(out.engine) /\ out.engine.kind # "ffplay" => engine'.vol = session.volume
    BY <1>1, <1>2, <2>1, VolumeOutcome DEF Driven
  <2>3. engine'.paused = out.engine.paused /\ engine'.kind = out.engine.kind
    BY <2>2 DEF Same
  <2>4. KeysAgree(engine', native'.keys)
    BY <2>1, <2>2, <2>3 DEF KeysAgree
  <2> QED BY <1>1, <1>4, <2>1, <2>2, <2>3, <2>4 DEF HeardAs, Same, Driven
<1> QED BY <1>1, <1>3, <1>4

LEMMA PlayerInit == Player!Init => SessionTyped /\ PlayerAsShown
<1> SUFFICES ASSUME Player!Init PROVE SessionTyped /\ PlayerAsShown
  OBVIOUS
<1>1. PICK v \in PlayerVolumes :
        /\ session = [state |-> "idle", muted |-> FALSE, volume |-> v, set |-> Player!Settings]
        /\ native = [vol |-> v, keys |-> Player!NoKeys]
  BY DEF Player!Init
<1>2. engine = Player!NoEngine
  BY DEF Player!Init
<1>3. Player!Settings \in MirrorType
  BY DEF Player!Settings, MirrorType
<1>4. SessionTyped
  BY <1>1, <1>2, <1>3, NoEngineType DEF SessionTyped, SessionType, KeysAgree
<1>5. PlayerAsShown
  BY <1>1, <1>2, NoEngineType DEF PlayerAsShown, HeardAs, Driven, Player!PausedIsPaused, Player!Controlled
<1> QED BY <1>4, <1>5

LEMMA OpenStep == ASSUME SessionTyped, Player!OpenChannel PROVE PlayerGoesOn
<1>1. session \in SessionType /\ native \in [vol : PlayerVolumes, keys : KeysType] /\ engine \in EngineType
  BY DEF SessionTyped
<1>2. CASE session' = [session EXCEPT !.state = "error"] /\ UNCHANGED <<engine, native>>
  <2>1. /\ session' \in SessionType /\ session'.muted = session.muted /\ session'.volume = session.volume
        /\ session'.set = session.set /\ session'.state = "error"
    BY <1>1, <1>2 DEF SessionType
  <2>2. SessionTyped' BY <1>2, <2>1 DEF SessionTyped
  <2>3. ~Player!Controlled' BY <2>1 DEF Player!Controlled, Player!Active
  <2> QED
    BY <1>2, <2>1, <2>2, <2>3 DEF PlayerGoesOn, PlayerAsShown, Player!PausedIsPaused
<1>3. CASE \E out \in Player!Played :
             IF out.ok
             THEN /\ session' = Player!WithSaved(out.engine, [session EXCEPT !.state = "playing"])
                  /\ Player!Opened(out)
             ELSE /\ session' = [session EXCEPT !.state = "error"]
                  /\ engine' = Player!NoEngine /\ native' = [native EXCEPT !.keys = Player!NoKeys]
  <2>1. PICK out \in Player!Played :
             IF out.ok
             THEN /\ session' = Player!WithSaved(out.engine, [session EXCEPT !.state = "playing"])
                  /\ Player!Opened(out)
             ELSE /\ session' = [session EXCEPT !.state = "error"]
                  /\ engine' = Player!NoEngine /\ native' = [native EXCEPT !.keys = Player!NoKeys]
    BY <1>3
  <2>2. CASE out.ok
    <3>1. /\ Same(out.engine, engine') /\ native' \in [vol : PlayerVolumes, keys : KeysType]
          /\ KeysAgree(engine', native'.keys)
          /\ engine'.kind = "libav" => ~engine'.muted
          /\ Obeyed => /\ HeardAs(engine', session.muted, session.volume)
                       /\ ~session.muted => native'.vol = session.volume
      BY <2>1, <2>2, PlayedOutcome, OpenedAsShown
    <3>2. /\ session' \in SessionType /\ session'.muted = session.muted /\ session'.volume = session.volume
          /\ session'.state = "playing" /\ session'.set.speed = session.set.speed
          /\ out.engine.kind \in Player!Mpv => session'.set.aspect = Player!Settings.aspect
      <4> DEFINE s == [session EXCEPT !.state = "playing"]
      <4>1. /\ s \in SessionType /\ s.muted = session.muted /\ s.volume = session.volume
            /\ s.state = "playing" /\ s.set = session.set /\ s.set \in MirrorType
        BY <1>1 DEF SessionType, Player!Active
      <4>2. session' = Player!WithSaved(out.engine, s)
        BY <2>1, <2>2
      <4>3. Player!Settings.aspect = 1
        BY DEF Player!Settings
      <4> HIDE DEF s
      <4>4. CASE out.engine.kind \in Player!Mpv
        <5>1. session' = [s EXCEPT !.set.aspect = 1]
          BY <4>2, <4>3, <4>4 DEF Player!WithSaved
        <5>2. session' = [s EXCEPT !.set = [s.set EXCEPT !.aspect = 1]]
          BY <4>1, <5>1 DEF SessionType
        <5>3. [s.set EXCEPT !.aspect = 1] \in MirrorType
              /\ [s.set EXCEPT !.aspect = 1].speed = s.set.speed /\ [s.set EXCEPT !.aspect = 1].aspect = 1
          BY <4>1 DEF MirrorType
        <5> QED BY <4>1, <4>3, <5>2, <5>3 DEF SessionType
      <4>5. CASE out.engine.kind \notin Player!Mpv
        BY <4>1, <4>2, <4>5 DEF Player!WithSaved
      <4> QED BY <4>4, <4>5
    <3>3. out.engine.alive /\ out.engine.kind # "none" /\ ~out.engine.paused /\ out.engine.set = Player!Settings
      BY <2>2, PlayedOutcome
    <3>4. SessionTyped'
      BY <3>1, <3>2, <3>3 DEF SessionTyped, Same
    <3>5. Obeyed => session.set.speed = Player!Settings.speed
      BY DEF Player!OpenChannel, Obeyed
    <3>6. Obeyed /\ engine'.kind \in Player!Mpv => engine'.set = session'.set
      <4>1. Player!Settings \in MirrorType /\ session'.set \in MirrorType
        BY <3>2 DEF Player!Settings, MirrorType, SessionType
      <4> QED BY <3>1, <3>2, <3>3, <3>5, <4>1 DEF Same, MirrorType
    <3>7. engine'.paused = FALSE
      BY <3>1, <3>3 DEF Same, EngineType
    <3> QED
      BY <3>1, <3>2, <3>4, <3>6, <3>7 DEF PlayerGoesOn, PlayerAsShown, Player!PausedIsPaused
  <2>3. CASE ~out.ok
    <3>1. /\ session' \in SessionType /\ session'.muted = session.muted /\ session'.volume = session.volume
      BY <1>1, <2>1, <2>3 DEF SessionType
    <3>2. native' \in [vol : PlayerVolumes, keys : KeysType] /\ native'.vol = native.vol
      BY <1>1, <2>1, <2>3, NoEngineType
    <3>3. engine' = Player!NoEngine BY <2>1, <2>3
    <3>4. SessionTyped' BY <3>1, <3>2, <3>3, NoEngineType DEF SessionTyped, KeysAgree
    <3> QED
      BY <3>1, <3>2, <3>3, <3>4, NoEngineType
      DEF PlayerGoesOn, PlayerAsShown, HeardAs, Driven, Player!PausedIsPaused, Player!Controlled
  <2> QED BY <2>1, <2>2, <2>3, PlayedOutcome
<1> QED BY <1>2, <1>3 DEF Player!OpenChannel

\* What a restart leaves of mpv.
LEMMA ReloadedOutcome ==
  ASSUME SessionTyped, engine.kind \in Player!Mpv, NEW out \in Player!Reloaded
  PROVE  /\ Same(engine, out.engine) /\ out.engine.muted = engine.muted /\ out.engine.vol = engine.vol
         /\ out.keys = native.keys /\ out.ok \in BOOLEAN
<1>1. engine \in EngineType
  BY DEF SessionTyped
<1>2. PICK r \in Player!Reaches(engine) :
        out = Player!Outcome(IF r THEN [engine EXCEPT !.stalled = FALSE] ELSE engine, native.keys, r)
  BY DEF Player!Reloaded
<1>3. /\ out.engine = (IF r THEN [engine EXCEPT !.stalled = FALSE] ELSE engine)
      /\ out.keys = native.keys /\ out.ok = r
  BY <1>2 DEF Player!Outcome
<1>4. r \in BOOLEAN
  BY <1>1, <1>2, OrdersReach
<1>5. CASE r = TRUE
  <2>1. out.engine = [engine EXCEPT !.stalled = FALSE]
    BY <1>3, <1>5
  <2>2. /\ out.engine \in EngineType /\ out.engine.kind = engine.kind /\ out.engine.alive = engine.alive
        /\ out.engine.paused = engine.paused /\ out.engine.set = engine.set
        /\ out.engine.muted = engine.muted /\ out.engine.vol = engine.vol
    BY <1>1, <2>1 DEF EngineType
  <2> QED BY <1>3, <1>4, <2>2 DEF Same
<1>6. CASE r = FALSE
  BY <1>1, <1>3, <1>4, <1>6 DEF Same
<1> QED BY <1>4, <1>5, <1>6

LEMMA RestartStep == ASSUME SessionTyped, Player!Restart PROVE PlayerGoesOn
<1>1. session \in SessionType /\ native \in [vol : PlayerVolumes, keys : KeysType] /\ engine \in EngineType
  BY DEF SessionTyped
<1>2. PICK out \in Player!Reloaded :
        /\ session' = [session EXCEPT !.state = IF out.ok THEN "playing" ELSE "error"]
        /\ IF out.ok /\ session.muted
           THEN \E m \in Player!SetMute(out.engine, out.keys, TRUE) :
                  engine' = m.engine /\ native' = [native EXCEPT !.keys = m.keys]
           ELSE engine' = out.engine /\ native' = [native EXCEPT !.keys = out.keys]
  BY DEF Player!Restart
<1>3. /\ session' \in SessionType /\ session'.muted = session.muted /\ session'.volume = session.volume
      /\ session'.set = session.set /\ session'.state = IF out.ok THEN "playing" ELSE "error"
  BY <1>1, <1>2 DEF SessionType, Player!Active
\* The engine after the reload, before the mute is set again
<1>4. /\ out.engine \in EngineType /\ out.keys \in KeysType /\ out.ok \in BOOLEAN
      /\ KeysAgree(out.engine, out.keys)
      /\ out.engine.kind = "none" => ~out.engine.alive
      /\ out.engine.kind = "libav" => ~out.engine.muted
  <2>1. CASE engine.kind \in Player!Mpv
    BY <1>1, <2>1, ReloadedOutcome DEF SessionTyped, Same, KeysAgree, Player!Mpv
  <2>2. CASE engine.kind \notin Player!Mpv
    BY <2>2, PlayedOutcome DEF Player!Reloaded
  <2> QED BY <2>1, <2>2
<1>5. ASSUME Obeyed, PlayerAsShown
      PROVE  /\ ~session.muted \/ ~out.ok => HeardAs(out.engine, session.muted, session.volume)
             /\ out.ok => ~out.engine.paused
             /\ Driven(out.engine) /\ out.engine.kind \in Player!Mpv => out.engine.set = session.set
  <2>1. CASE engine.kind \in Player!Mpv
    <3>1. ~engine.paused
      BY <1>5 DEF Obeyed, Player!Restart
    <3>2. /\ out.engine.kind = engine.kind /\ out.engine.alive = engine.alive
          /\ out.engine.paused = engine.paused /\ out.engine.set = engine.set
          /\ out.engine.muted = engine.muted /\ out.engine.vol = engine.vol
      <4>1. /\ Same(engine, out.engine)
            /\ out.engine.muted = engine.muted /\ out.engine.vol = engine.vol
        BY <2>1, ReloadedOutcome
      <4> QED BY <4>1 DEF Same
    <3>3. HeardAs(out.engine, session.muted, session.volume)
      BY <1>5, <3>2 DEF PlayerAsShown, HeardAs, Driven
    <3>4. Driven(out.engine) /\ out.engine.kind \in Player!Mpv => out.engine.set = session.set
      BY <1>5, <3>2 DEF PlayerAsShown, Driven
    <3> QED BY <3>1, <3>2, <3>3, <3>4
  <2>2. CASE engine.kind \notin Player!Mpv
    <3>1. session.set = Player!Settings
      BY <1>5, <2>2 DEF Obeyed, Player!Restart
    <3>2. /\ ~out.engine.muted /\ ~out.engine.paused /\ out.engine.set = Player!Settings
          /\ out.ok => out.engine.vol = native.vol
          /\ ~out.ok => ~out.engine.alive
      BY <2>2, PlayedOutcome, NoEngineType DEF Player!Reloaded
    <3> QED BY <1>4, <1>5, <3>1, <3>2 DEF PlayerAsShown, HeardAs, Driven
  <2> QED BY <2>1, <2>2
<1>6. CASE out.ok /\ session.muted
  <2>1. PICK m \in Player!SetMute(out.engine, out.keys, TRUE) :
          engine' = m.engine /\ native' = [native EXCEPT !.keys = m.keys]
    BY <1>2, <1>6
  <2>a. Obeyed => {"key", "ipc"} \cap PlayerFaults = {}
    BY DEF Obeyed
  <2>b. Driven(out.engine) => out.engine.kind # "none"
    BY <1>4 DEF Driven
  <2>2. /\ Same(out.engine, m.engine) /\ m.keys \in KeysType
        /\ KeysAgree(m.engine, m.keys) /\ (m.engine.kind = "libav" => ~m.engine.muted)
        /\ m.ok => m.engine.muted \/ m.engine.vol = 0
        /\ Obeyed /\ Driven(out.engine) => m.ok
    BY <1>1, <1>4, <2>1, <2>a, <2>b, MuteOutcome
  <2>3. native' \in [vol : PlayerVolumes, keys : KeysType] /\ native'.keys = m.keys
    BY <1>1, <2>1, <2>2
  <2>4. SessionTyped'
    BY <1>3, <1>4, <2>1, <2>2, <2>3 DEF SessionTyped, Same
  <2>5. Obeyed => HeardAs(engine', session'.muted, session'.volume)
    BY <1>3, <1>6, <2>1, <2>2 DEF HeardAs, Same, Driven
  <2>6. Obeyed /\ PlayerAsShown => PlayerAsShown'
    <3> SUFFICES ASSUME Obeyed, PlayerAsShown PROVE PlayerAsShown'
      OBVIOUS
    <3>1. engine'.paused = FALSE /\ session'.state = "playing"
      BY <1>3, <1>4, <1>5, <1>6, <2>1, <2>2 DEF Same, EngineType
    <3>2. Driven(engine') /\ engine'.kind \in Player!Mpv => engine'.set = session'.set
      BY <1>3, <1>5, <2>1, <2>2 DEF Same, Driven
    <3> QED BY <1>3, <1>6, <2>5, <3>1, <3>2 DEF PlayerAsShown, Player!PausedIsPaused
  <2> QED BY <2>4, <2>6 DEF PlayerGoesOn
<1>7. CASE ~(out.ok /\ session.muted)
  <2>1. engine' = out.engine /\ native' = [native EXCEPT !.keys = out.keys]
    BY <1>2, <1>7
  <2>2. native' \in [vol : PlayerVolumes, keys : KeysType] /\ native'.keys = out.keys /\ native'.vol = native.vol
    BY <1>1, <1>4, <2>1
  <2>3. SessionTyped'
    BY <1>3, <1>4, <2>1, <2>2 DEF SessionTyped
  <2>4. Obeyed /\ PlayerAsShown => PlayerAsShown'
    <3> SUFFICES ASSUME Obeyed, PlayerAsShown PROVE PlayerAsShown'
      OBVIOUS
    <3>1. HeardAs(engine', session'.muted, session'.volume)
      BY <1>3, <1>4, <1>5, <1>7, <2>1
    <3>2. Player!PausedIsPaused'
      <4>1. CASE out.ok BY <1>3, <1>5, <2>1, <4>1 DEF Player!PausedIsPaused
      <4>2. CASE ~out.ok BY <1>3, <4>2 DEF Player!PausedIsPaused, Player!Controlled, Player!Active
      <4> QED BY <4>1, <4>2
    <3> QED BY <1>3, <1>5, <2>1, <2>2, <3>1, <3>2 DEF PlayerAsShown
  <2> QED BY <2>3, <2>4 DEF PlayerGoesOn
<1> QED BY <1>6, <1>7

LEMMA StopStep == ASSUME SessionTyped, Player!Stop PROVE PlayerGoesOn
<1>1. session \in SessionType /\ native \in [vol : PlayerVolumes, keys : KeysType]
  BY DEF SessionTyped
<1>2. /\ session' \in SessionType /\ session'.muted = session.muted /\ session'.volume = session.volume
      /\ native' \in [vol : PlayerVolumes, keys : KeysType] /\ native'.vol = native.vol
      /\ engine' = Player!NoEngine
  BY <1>1, NoEngineType DEF Player!Stop, SessionType
<1>3. SessionTyped'
  BY <1>2, NoEngineType DEF SessionTyped, KeysAgree
<1> QED
  BY <1>2, <1>3, NoEngineType
  DEF PlayerGoesOn, PlayerAsShown, HeardAs, Driven, Player!PausedIsPaused, Player!Controlled

LEMMA SessionPauses == ASSUME SessionTyped, Player!PauseOrResume PROVE PlayerGoesOn
<1>1. session \in SessionType /\ native \in [vol : PlayerVolumes, keys : KeysType] /\ engine \in EngineType
      /\ KeysAgree(engine, native.keys)
  BY DEF SessionTyped
<1> DEFINE on == session.state # "paused"
<1>2. PICK m \in Player!Ordered(engine, native.keys, "paused", on) :
        /\ session' = [session EXCEPT !.state = IF ~m.ok THEN @ ELSE IF on THEN "paused" ELSE "playing"]
        /\ engine' = m.engine /\ native' = [native EXCEPT !.keys = m.keys]
  BY DEF Player!PauseOrResume, Player!Pause
<1>3. /\ engine' \in {engine, [engine EXCEPT !["paused"] = on]} /\ m.keys \in KeysType
      /\ m.ok \in BOOLEAN /\ KeysAgree(engine', m.keys)
      /\ m.ok => engine'["paused"] = on
      /\ {"key", "ipc"} \cap PlayerFaults = {} /\ Driven(engine) /\ engine.kind # "none" => m.ok
  BY <1>1, <1>2, OrderedOutcome
<1>4. /\ Same([engine EXCEPT !.paused = engine'.paused], engine') /\ engine' \in EngineType
      /\ engine'.kind = engine.kind /\ engine'.alive = engine.alive /\ engine'.muted = engine.muted
      /\ engine'.vol = engine.vol /\ engine'.set = engine.set
  BY <1>1, <1>3 DEF Same, EngineType
<1>5. /\ session' \in SessionType /\ session'.muted = session.muted /\ session'.volume = session.volume
      /\ session'.set = session.set
      /\ m.ok => session'.state = IF on THEN "paused" ELSE "playing"
  BY <1>1, <1>2, <1>3 DEF SessionType, Player!Active
<1>6. native' \in [vol : PlayerVolumes, keys : KeysType] /\ native'.keys = m.keys /\ native'.vol = native.vol
  BY <1>1, <1>2, <1>3
<1>7. SessionTyped'
  BY <1>3, <1>4, <1>5, <1>6 DEF SessionTyped
<1>8. Obeyed => Player!PausedIsPaused'
  <2> SUFFICES ASSUME Obeyed, Player!Controlled' PROVE engine'.paused <=> session'.state = "paused"
    BY DEF Player!PausedIsPaused
  <2>1. m.ok
    BY <1>3, <1>4 DEF Obeyed, Player!Controlled, Driven, SessionTyped
  <2> QED BY <1>3, <1>5, <2>1
<1> QED
  BY <1>4, <1>5, <1>6, <1>7, <1>8 DEF PlayerGoesOn, PlayerAsShown, HeardAs, Driven

LEMMA MuteStep == ASSUME SessionTyped, Player!ToggleMute PROVE PlayerGoesOn
<1>1. session \in SessionType /\ native \in [vol : PlayerVolumes, keys : KeysType] /\ engine \in EngineType
      /\ KeysAgree(engine, native.keys) /\ session.volume \in PlayerVolumes /\ session.muted \in BOOLEAN
  BY DEF SessionTyped, SessionType
<1> DEFINE Toggled(m) ==
             /\ session' = [session EXCEPT !.muted = IF m.ok THEN ~@ ELSE @]
             /\ IF m.ok /\ session.muted
                THEN /\ engine' \in Player!SetVolume(m.engine, session.volume)
                     /\ native' = [vol |-> session.volume, keys |-> m.keys]
                ELSE engine' = m.engine /\ native' = [native EXCEPT !.keys = m.keys]
<1>a. \E m \in Player!SetMute(engine, native.keys, ~session.muted) : Toggled(m)
  BY DEF Player!ToggleMute
<1> HIDE DEF Toggled
<1>b. PICK on \in BOOLEAN : /\ on <=> ~session.muted
                           /\ \E m \in Player!SetMute(engine, native.keys, on) : Toggled(m)
  <2>1. CASE session.muted = TRUE
    <3>1. (~session.muted) = FALSE BY <2>1
    <3>2. \E m \in Player!SetMute(engine, native.keys, FALSE) : Toggled(m) BY <1>a, <3>1, Zenon
    <3> QED BY <2>1, <3>2
  <2>2. CASE session.muted = FALSE
    <3>1. (~session.muted) = TRUE BY <2>2
    <3>2. \E m \in Player!SetMute(engine, native.keys, TRUE) : Toggled(m) BY <1>a, <3>1, Zenon
    <3> QED BY <2>2, <3>2
  <2> QED BY <1>1, <2>1, <2>2
<1>c. PICK m \in Player!SetMute(engine, native.keys, on) : Toggled(m)
  BY <1>b
<1>2. /\ session' = [session EXCEPT !.muted = IF m.ok THEN ~@ ELSE @]
      /\ IF m.ok /\ session.muted
         THEN /\ engine' \in Player!SetVolume(m.engine, session.volume)
              /\ native' = [vol |-> session.volume, keys |-> m.keys]
         ELSE engine' = m.engine /\ native' = [native EXCEPT !.keys = m.keys]
  BY <1>c DEF Toggled
<1>3. /\ Same(engine, m.engine) /\ m.keys \in KeysType /\ m.ok \in BOOLEAN
      /\ KeysAgree(m.engine, m.keys) /\ (m.engine.kind = "libav" => ~m.engine.muted)
      /\ m.ok => IF ~session.muted THEN m.engine.muted \/ m.engine.vol = 0 ELSE ~m.engine.muted
      /\ ~m.ok => m.engine = engine /\ m.keys = native.keys
  <2>1. /\ native.vol \in PlayerVolumes /\ native.keys \in KeysType
        /\ engine.kind = "libav" => ~engine.muted
    BY <1>1 DEF SessionTyped
  <2>2. /\ Same(engine, m.engine) /\ m.keys \in KeysType /\ m.ok \in BOOLEAN
        /\ KeysAgree(m.engine, m.keys) /\ (m.engine.kind = "libav" => ~m.engine.muted)
        /\ m.ok => IF on THEN m.engine.muted \/ m.engine.vol = 0 ELSE ~m.engine.muted
        /\ ~m.ok => m.engine = engine /\ m.keys = native.keys
    BY <1>1, <1>c, <2>1, MuteOutcome
  <2> QED BY <1>b, <2>2
<1>4. /\ session' \in SessionType /\ session'.muted = (IF m.ok THEN ~session.muted ELSE session.muted)
      /\ session'.volume = session.volume /\ session'.set = session.set /\ session'.state = session.state
  BY <1>1, <1>2 DEF SessionType
<1>5. ASSUME Same(m.engine, engine')
      PROVE  /\ Same(engine, engine')
             /\ Player!PausedIsPaused => Player!PausedIsPaused'
             /\ (Driven(engine) /\ engine.kind \in Player!Mpv => engine.set = session.set)
                => (Driven(engine') /\ engine'.kind \in Player!Mpv => engine'.set = session'.set)
  BY <1>3, <1>4, <1>5 DEF Same, Driven, Player!PausedIsPaused, Player!Controlled
<1>6. CASE m.ok /\ session.muted
  <2>1. /\ engine' \in Player!SetVolume(m.engine, session.volume)
        /\ native' = [vol |-> session.volume, keys |-> m.keys]
    BY <1>2, <1>6
  <2>2. m.engine \in EngineType
    BY <1>3 DEF Same
  <2>3. /\ Same(m.engine, engine') /\ engine'.muted = m.engine.muted
        /\ {"key", "ipc"} \cap PlayerFaults = {} /\ Driven(m.engine) /\ m.engine.kind \notin {"none", "ffplay"}
           => engine'.vol = session.volume
    BY <1>1, <2>1, <2>2, VolumeOutcome
  <2>4. KeysAgree(engine', native'.keys) /\ native' \in [vol : PlayerVolumes, keys : KeysType]
    BY <1>1, <1>3, <2>1, <2>3 DEF KeysAgree, Same
  <2>5. SessionTyped'
    BY <1>3, <1>4, <1>5, <2>3, <2>4 DEF SessionTyped, Same
  <2>6. Obeyed => {"key", "ipc"} \cap PlayerFaults = {}
    BY DEF Obeyed
  <2>7. Obeyed => HeardAs(engine', FALSE, session.volume)
    BY <1>3, <1>6, <2>3, <2>5, <2>6 DEF HeardAs, Driven, Same, SessionTyped
  <2>8. session'.muted = FALSE /\ native'.vol = session'.volume
    BY <1>4, <1>6, <2>1
  <2> QED BY <1>4, <1>5, <2>3, <2>5, <2>7, <2>8 DEF PlayerGoesOn, PlayerAsShown
<1>7. CASE ~(m.ok /\ session.muted)
  <2>1. engine' = m.engine /\ native' = [native EXCEPT !.keys = m.keys]
    BY <1>2, <1>7
  <2>2. /\ native' \in [vol : PlayerVolumes, keys : KeysType]
        /\ native'.keys = m.keys /\ native'.vol = native.vol
    BY <1>1, <1>3, <2>1
  <2>3. Same(m.engine, engine')
    BY <1>3, <2>1 DEF Same
  <2>4. SessionTyped'
    BY <1>3, <1>4, <1>5, <2>1, <2>2, <2>3 DEF SessionTyped, Same
  <2>5. HeardAs(engine, session.muted, session.volume) => HeardAs(engine', session'.muted, session'.volume)
    <3>1. CASE m.ok BY <1>3, <1>4, <1>7, <2>1, <3>1 DEF HeardAs
    <3>2. CASE ~m.ok BY <1>3, <1>4, <2>1, <3>2
    <3> QED BY <3>1, <3>2
  <2>6. (~session.muted => native.vol = session.volume) => (~session'.muted => native'.vol = session'.volume)
    BY <1>4, <1>7, <2>2
  <2> QED BY <1>5, <2>3, <2>4, <2>5, <2>6 DEF PlayerGoesOn, PlayerAsShown
<1> QED BY <1>6, <1>7

LEMMA VolumeStep ==
  ASSUME SessionTyped, NEW vol \in PlayerVolumes, Player!VolumeChanged(vol) PROVE PlayerGoesOn
<1>1. session \in SessionType /\ native \in [vol : PlayerVolumes, keys : KeysType] /\ engine \in EngineType
      /\ KeysAgree(engine, native.keys) /\ session.volume \in PlayerVolumes /\ session.muted \in BOOLEAN
  BY DEF SessionTyped, SessionType
<1>2. Obeyed => {"key", "ipc"} \cap PlayerFaults = {}
  BY DEF Obeyed
\* The volume of an engine that is not muted, or is unmuted by it
<1>3. ASSUME NEW m, Same(engine, m.engine), m.keys \in KeysType, KeysAgree(m.engine, m.keys),
             m.engine.kind = "libav" => ~m.engine.muted,
             session' = [session EXCEPT !.muted = FALSE, !.volume = vol],
             engine' \in Player!SetVolume(m.engine, vol),
             native' = [vol |-> vol, keys |-> m.keys],
             Obeyed /\ PlayerAsShown => (Driven(m.engine) => ~m.engine.muted)
      PROVE  PlayerGoesOn
  <2>1. /\ session' \in SessionType /\ session'.muted = FALSE /\ session'.volume = vol
        /\ session'.set = session.set /\ session'.state = session.state
    BY <1>1, <1>3 DEF SessionType
  <2>2. m.engine \in EngineType
    BY <1>3 DEF Same
  <2>3. /\ Same(m.engine, engine') /\ engine'.muted = m.engine.muted
        /\ {"key", "ipc"} \cap PlayerFaults = {} /\ Driven(m.engine) /\ m.engine.kind \notin {"none", "ffplay"}
           => engine'.vol = vol
    BY <1>3, <2>2, VolumeOutcome
  <2>4. KeysAgree(engine', native'.keys) /\ native' \in [vol : PlayerVolumes, keys : KeysType]
    BY <1>3, <2>3 DEF KeysAgree, Same
  <2>5. Same(engine, engine')
    BY <1>3, <2>3 DEF Same
  <2>6. SessionTyped'
    BY <1>3, <2>1, <2>3, <2>4, <2>5 DEF SessionTyped, Same
  <2>7. Obeyed /\ PlayerAsShown => HeardAs(engine', FALSE, vol)
    BY <1>2, <1>3, <2>3, <2>6 DEF HeardAs, Driven, Same, SessionTyped
  <2>8. Player!PausedIsPaused => Player!PausedIsPaused'
    BY <2>1, <2>5 DEF Same, Player!PausedIsPaused, Player!Controlled
  <2>9. native'.vol = vol
    BY <1>3
  <2> QED BY <2>1, <2>5, <2>6, <2>7, <2>8, <2>9 DEF PlayerGoesOn, PlayerAsShown, Same, Driven
<1>4. CASE session.muted /\ vol > 0
  <2>1. PICK m \in Player!SetMute(engine, native.keys, FALSE) :
          IF m.ok
          THEN /\ session' = [session EXCEPT !.muted = FALSE, !.volume = vol]
               /\ engine' \in Player!SetVolume(m.engine, vol)
               /\ native' = [vol |-> vol, keys |-> m.keys]
          ELSE UNCHANGED Player!vars
    BY <1>4 DEF Player!VolumeChanged
  <2>2. /\ Same(engine, m.engine) /\ m.keys \in KeysType /\ m.ok \in BOOLEAN
        /\ KeysAgree(m.engine, m.keys) /\ (m.engine.kind = "libav" => ~m.engine.muted)
        /\ m.ok => ~m.engine.muted
    <3>1. native.vol \in PlayerVolumes /\ (engine.kind = "libav" => ~engine.muted)
      BY <1>1 DEF SessionTyped
    <3> QED BY <1>1, <2>1, <3>1, MuteOutcome
  <2>3. CASE m.ok
    BY <1>3, <2>1, <2>2, <2>3
  <2>4. CASE ~m.ok
    <3>1. UNCHANGED <<session, engine, native>> BY <2>1, <2>4 DEF Player!vars
    <3> QED
      BY <3>1 DEF PlayerGoesOn, SessionTyped, PlayerAsShown, Player!PausedIsPaused, Player!Controlled
  <2> QED BY <2>2, <2>3, <2>4
<1>5. CASE ~(session.muted /\ vol > 0)
  <2>1. /\ session' = [session EXCEPT !.volume = vol]
        /\ IF session.muted THEN UNCHANGED <<engine, native>>
           ELSE engine' \in Player!SetVolume(engine, vol) /\ native' = [native EXCEPT !.vol = vol]
    BY <1>5 DEF Player!VolumeChanged
  <2>2. CASE session.muted
    <3>1. /\ session' \in SessionType /\ session'.muted = session.muted
          /\ session'.set = session.set /\ session'.state = session.state
      BY <1>1, <2>1 DEF SessionType
    <3>2. UNCHANGED <<engine, native>> BY <2>1, <2>2
    <3> QED
      BY <2>2, <3>1, <3>2
      DEF PlayerGoesOn, SessionTyped, PlayerAsShown, HeardAs, Player!PausedIsPaused, Player!Controlled
  <2>3. CASE ~session.muted
    <3> DEFINE m == Player!Outcome(engine, native.keys, TRUE)
    <3>1. m.engine = engine /\ m.keys = native.keys
      BY DEF Player!Outcome
    <3>2. session' = [session EXCEPT !.muted = FALSE, !.volume = vol] /\ native' = [vol |-> vol, keys |-> native.keys]
      BY <1>1, <2>1, <2>3 DEF SessionType
    <3>3. Same(engine, engine) /\ native.keys \in KeysType /\ (engine.kind = "libav" => ~engine.muted)
          /\ (PlayerAsShown => (Driven(engine) => ~engine.muted))
      BY <1>1, <2>3 DEF Same, SessionTyped, PlayerAsShown, HeardAs
    <3>4. engine' \in Player!SetVolume(engine, vol)
      BY <2>1, <2>3
    <3> HIDE DEF m
    <3> QED BY <1>1, <1>3, <3>1, <3>2, <3>3, <3>4
  <2> QED BY <2>2, <2>3
<1> QED BY <1>4, <1>5

LEMMA SetStep ==
  ASSUME SessionTyped, NEW f \in DOMAIN Player!Settings, Player!Set(f, 3 - session.set[f])
  PROVE  PlayerGoesOn
<1>1. session \in SessionType /\ engine \in EngineType /\ session.set \in MirrorType /\ engine.set \in MirrorType
  BY DEF SessionTyped, SessionType, EngineType
<1> DEFINE v == 3 - session.set[f]
<1>2. f \in {"speed", "aspect"}
  BY DEF Player!Settings
<1>3. v \in {1, 2}
  BY <1>1, <1>2 DEF MirrorType
<1>4. CASE UNCHANGED <<session, engine, native>>
  BY <1>4 DEF PlayerGoesOn, SessionTyped, PlayerAsShown, Player!PausedIsPaused, Player!Controlled
<1>5. CASE /\ session' = [session EXCEPT !.set[f] = v] /\ engine' = [engine EXCEPT !.set[f] = v]
           /\ UNCHANGED native
  <2>1. /\ [session.set EXCEPT ![f] = v] \in MirrorType /\ [engine.set EXCEPT ![f] = v] \in MirrorType
    BY <1>1, <1>2, <1>3 DEF MirrorType
  <2>2. /\ session' = [session EXCEPT !.set = [session.set EXCEPT ![f] = v]]
        /\ engine' = [engine EXCEPT !.set = [engine.set EXCEPT ![f] = v]]
    BY <1>1, <1>5 DEF SessionType, EngineType
  <2> HIDE DEF v
  <2>3. /\ session' \in SessionType /\ session'.muted = session.muted /\ session'.volume = session.volume
        /\ session'.state = session.state /\ session'.set = [session.set EXCEPT ![f] = v]
    BY <1>1, <2>1, <2>2 DEF SessionType
  <2>4. /\ engine' \in EngineType /\ engine'.kind = engine.kind /\ engine'.alive = engine.alive
        /\ engine'.paused = engine.paused /\ engine'.muted = engine.muted /\ engine'.vol = engine.vol
        /\ engine'.set = [engine.set EXCEPT ![f] = v]
    BY <1>1, <2>1, <2>2 DEF EngineType
  <2>5. SessionTyped'
    BY <1>5, <2>3, <2>4 DEF SessionTyped, KeysAgree
  <2> QED
    BY <1>5, <2>3, <2>4, <2>5
    DEF PlayerGoesOn, PlayerAsShown, HeardAs, Driven, Player!PausedIsPaused, Player!Controlled
<1> QED BY <1>4, <1>5 DEF Player!Set

LEMMA RefreshStep == ASSUME SessionTyped, Player!Refresh PROVE PlayerGoesOn
<1>1. session \in SessionType
  BY DEF SessionTyped
<1>2. /\ session' \in SessionType /\ session'.muted = session.muted /\ session'.volume = session.volume
      /\ session'.set = session.set /\ session'.state \in {"playing", "buffering"}
      /\ session.state \in {"playing", "buffering"} /\ UNCHANGED <<engine, native>>
  BY <1>1 DEF Player!Refresh, SessionType, Player!Active
<1> QED
  BY <1>2 DEF PlayerGoesOn, SessionTyped, PlayerAsShown, Player!PausedIsPaused, Player!Controlled,
    Player!Active

LEMMA EngineAloneStep ==
  ASSUME SessionTyped, Player!EngineStalls \/ Player!EngineEnds PROVE PlayerGoesOn
<1>1. engine \in EngineType
  BY DEF SessionTyped
<1>2. /\ engine' \in EngineType /\ engine'.kind = engine.kind /\ engine'.paused = engine.paused
      /\ engine'.muted = engine.muted /\ engine'.vol = engine.vol /\ engine'.set = engine.set
      /\ engine'.alive => engine.alive
      /\ UNCHANGED <<session, native>>
  BY <1>1 DEF Player!EngineStalls, Player!EngineEnds, EngineType
<1> QED
  BY <1>2 DEF PlayerGoesOn, SessionTyped, KeysAgree, PlayerAsShown, HeardAs, Driven,
    Player!PausedIsPaused, Player!Controlled

LEMMA PlayerStep == ASSUME SessionTyped, [Player!Next]_Player!vars PROVE PlayerGoesOn
<1>1. CASE UNCHANGED Player!vars
  BY <1>1 DEF Player!vars, PlayerGoesOn, SessionTyped, PlayerAsShown, Player!PausedIsPaused,
    Player!Controlled
<1>2. CASE Player!OpenChannel BY <1>2, OpenStep
<1>3. CASE Player!Restart BY <1>3, RestartStep
<1>4. CASE Player!Stop BY <1>4, StopStep
<1>5. CASE Player!PauseOrResume BY <1>5, SessionPauses
<1>6. CASE Player!ToggleMute BY <1>6, MuteStep
<1>7. CASE Player!Refresh BY <1>7, RefreshStep
<1>8. ASSUME NEW v \in PlayerVolumes, Player!VolumeChanged(v) PROVE PlayerGoesOn
  BY <1>8, VolumeStep
<1>9. ASSUME NEW f \in DOMAIN Player!Settings, Player!Set(f, 3 - session.set[f]) PROVE PlayerGoesOn
  BY <1>9, SetStep
<1>10. CASE Player!EngineStalls \/ Player!EngineEnds BY <1>10, EngineAloneStep
<1> QED BY <1>1, <1>2, <1>3, <1>4, <1>5, <1>6, <1>7, <1>8, <1>9, <1>10 DEF Player!Next

-----------------------------------------------------------------------------
\* Every variable of the session and its engine keeps its type, and what the keys of
\* ffplay toggled is what it does (ffplay_send_key), whatever orders are lost.
THEOREM SessionIsTyped == Player!Spec => []Player!TypeOK
<1>1. SessionTyped => Player!TypeOK
  BY DEF SessionTyped, Player!TypeOK, SessionType, EngineType, KeysType, MirrorType, KeysAgree
<1>2. SessionTyped /\ [Player!Next]_(Player!vars) => SessionTyped'
  BY PlayerStep DEF PlayerGoesOn
<1> QED BY <1>1, <1>2, PlayerInit, PTL DEF Player!Spec

\* The engine is silent, heard, paused and set as the session shows it, through restarts,
\* new streams, links nothing can play and changes of volume: for any engines and volumes,
\* as long as no order is lost, no paused engine is restarted and none is started while the
\* session mirrors settings of the last one.
THEOREM EngineDoesAsShown ==
  Obeyed => (Player!Spec => [](/\ Player!MutedIsSilent /\ Player!VolumeIsHeard
                               /\ Player!PausedIsPaused /\ Player!SettingsMirrored))
<1> SUFFICES ASSUME Obeyed
             PROVE  Player!Spec => [](/\ Player!MutedIsSilent /\ Player!VolumeIsHeard
                                      /\ Player!PausedIsPaused /\ Player!SettingsMirrored)
  OBVIOUS
<1>1. SessionTyped /\ PlayerAsShown
      => /\ Player!MutedIsSilent /\ Player!VolumeIsHeard
         /\ Player!PausedIsPaused /\ Player!SettingsMirrored
  BY DEF SessionTyped, SessionType, PlayerAsShown, HeardAs, Driven, Player!Controlled, Player!MutedIsSilent,
    Player!VolumeIsHeard, Player!SettingsMirrored
<1>2. SessionTyped /\ PlayerAsShown /\ [Player!Next]_(Player!vars) => (SessionTyped /\ PlayerAsShown)'
  BY PlayerStep DEF PlayerGoesOn
<1> QED BY <1>1, <1>2, PlayerInit, PTL DEF Player!Spec
-----------------------------------------------------------------------------
(***************************************************************************)
(* The start of an engine.  What plays is always in hand: between two      *)
(* attempts there is nothing, a process is that of the watch, then the     *)
(* child of the player, and an engine inside the program leaves no room    *)
(* for another one.  What an engine was started with is checked where it   *)
(* is made and stays; and on Android the surface and the options agree     *)
(* for as long as a stream is open.                                        *)
(***************************************************************************)
CONSTANTS StartBuilds, StartSettings, StartProcesses, StartPlays

\* No ffplay is installed on Android, whose ladder has a step at least; there is room for
\* a process beside one that is watched.
Surfaces == {"embed", "egl", "soft"}
Prefs == {"auto", "mpv", "ffmpeg", "external"}
ASSUME StartAssumption ==
  /\ \A b \in StartBuilds : b.os = "android" => "ffplay" \notin b.bins
  /\ \A b \in StartBuilds : b.ladder \in Seq(Surfaces) /\ b.ladder # <<>>
  /\ \A s \in StartSettings :
       s.pref \in Prefs /\ s.proxied \in BOOLEAN /\ s.hwdec \in BOOLEAN
  /\ 0 \notin StartProcesses
  /\ StartProcesses # {} /\ \A q \in StartProcesses : \E p \in StartProcesses : p # q
  /\ StartPlays \in Nat

VARIABLES built, options, surface, channel, driver, procs, call, starts

Start == INSTANCE EngineStart WITH
  build <- built, opts <- options, native <- driver, plays <- starts,
  Builds <- StartBuilds, Settings <- StartSettings, Processes <- StartProcesses, MaxPlays <- StartPlays

Routes == {"mpv", "ffmpeg", "external"}
Process == StartProcesses \cup {0}
OptionsType ==
  [pref : Prefs, proxied : BOOLEAN, hwdec : BOOLEAN, present : Surfaces, wid : BOOLEAN]
SurfaceType == [visible : BOOLEAN, top : BOOLEAN, upgrade : BOOLEAN]
ProcessType ==
  [kind : {"none", "mpv", "ffplay"}, alive : BOOLEAN, asked : BOOLEAN, via : BOOLEAN, limited : BOOLEAN]
CallType ==
  [at : {"idle", "attempt", "watch", "look", "intent"}, n : {1, 2}, backend : Routes \cup {"none"},
   local : Process, compat : BOOLEAN, result : {"none", "ok", "err", "external"}]

Decoders ==
  {"no", "mediacodec", "mediacodec-copy", "vaapi-copy", "cuda-copy", "vulkan-copy", "auto-copy"} \cup
    {b.hw : b \in StartBuilds}
MpvType ==
  {Start!NoEngine} \cup
    [vo : {"libmpv", "gpu-next", "gpu", "mediacodec_embed"}, hwdec : Decoders, engaged : BOOLEAN,
     asked : BOOLEAN, via : BOOLEAN, limited : BOOLEAN]
AvType == {Start!NoEngine} \cup [vo : {"frames"}, asked : BOOLEAN, via : BOOLEAN]
NativeType ==
  [mpv : MpvType, av : AvType, pump : BOOLEAN, avPump : BOOLEAN, child : Process, ipc : Process,
   backend : Routes \cup {"none"}, present : {"soft", "native", "embed", "egl"}]

StartTyped ==
  /\ built \in StartBuilds /\ options \in OptionsType /\ surface \in SurfaceType /\ channel \in BOOLEAN
  /\ driver \in NativeType /\ procs \in [StartProcesses -> ProcessType] /\ call \in CallType
  /\ starts \in 0 .. StartPlays

LivingOf(ps) == {p \in StartProcesses : ps[p].alive}
NothingInside(nat) == nat.mpv = Start!NoEngine /\ nat.av = Start!NoEngine
ChildIs(nat, ps, backend) ==
  \/ backend = "mpv" /\ ps[nat.child].kind = "mpv" /\ nat.ipc = nat.child
  \/ backend = "ffmpeg" /\ ps[nat.child].kind = "ffplay" /\ nat.ipc = 0

\* Where what plays is, while `play` is at work and when it is not.
WhatPlaysIsHeld(nat, ps, cl) ==
  /\ cl.at \in {"attempt", "watch", "look"} => NothingInside(nat) /\ cl.backend \in Routes
  /\ cl.at = "attempt" => LivingOf(ps) = {} /\ nat.child = 0 /\ nat.ipc = 0 /\ cl.local = 0
  /\ cl.at = "watch" =>
       /\ LivingOf(ps) \subseteq {cl.local} /\ cl.local # 0 /\ nat.child = 0 /\ nat.ipc = 0
       /\ cl.backend = "ffmpeg" /\ ps[cl.local].kind = "ffplay"
  /\ cl.at = "look" =>
       /\ LivingOf(ps) \subseteq {nat.child} /\ nat.child # 0 /\ cl.local = 0
       /\ ChildIs(nat, ps, cl.backend)
  /\ cl.at \in {"idle", "intent"} =>
       /\ cl.local = 0 /\ LivingOf(ps) \subseteq {nat.child}
       /\ nat.child # 0 => NothingInside(nat)
       /\ cl.result # "ok" => NothingInside(nat) /\ LivingOf(ps) = {}
       /\ cl.result = "ok" =>
            /\ IF nat.child # 0 THEN ChildIs(nat, ps, nat.backend) ELSE nat.ipc = 0
            /\ NothingInside(nat) /\ nat.child = 0 => nat.backend = "external"
  /\ nat.mpv = Start!NoEngine \/ nat.av = Start!NoEngine
  /\ Start!Android => LivingOf(ps) = {} /\ cl.at # "watch"
  /\ cl.at = "intent" => Start!Android

\* What an engine is started with.
Fitted(e) ==
  e.asked => /\ e.via
             /\ "limited" \in DOMAIN e =>
                  e.limited \/ Start!Android \/ ~Start!Takes("stream-lavf-o")
AllFitted(nat, ps) ==
  /\ nat.pump <=> nat.mpv # Start!NoEngine /\ nat.mpv.vo = "libmpv"
  /\ nat.avPump <=> nat.av # Start!NoEngine
  /\ nat.mpv # Start!NoEngine =>
       /\ Fitted(nat.mpv)
       /\ ~Start!Android /\ nat.mpv.vo = "libmpv" => nat.mpv.engaged \/ nat.mpv.hwdec = "no"
  /\ nat.av # Start!NoEngine => Fitted(nat.av)
  /\ \A p \in StartProcesses : Fitted(ps[p])

\* Whether the engine is to draw on the surface.
OnTop == Start!OnSurface(options.present) /\ options.wid
InSight(nat, cl) ==
  /\ channel \/ (nat.mpv = Start!NoEngine /\ cl.at = "idle")
  /\ ~channel => ~surface.visible
  /\ Start!Android =>
       /\ IF OnTop THEN surface.visible /\ surface.top ELSE ~(surface.visible /\ surface.top)
       /\ nat.mpv # Start!NoEngine => (nat.mpv.vo = "libmpv" <=> ~OnTop)

StartInv ==
  /\ StartTyped
  /\ WhatPlaysIsHeld(driver, procs, call) /\ AllFitted(driver, procs) /\ InSight(driver, call)

-----------------------------------------------------------------------------
LEMMA StoppedTyped ==
  /\ Start!Stopped \in NativeType /\ NothingInside(Start!Stopped)
  /\ Start!Stopped.child = 0 /\ Start!Stopped.ipc = 0 /\ Start!Stopped.mpv = Start!NoEngine
  /\ Start!Stopped.av = Start!NoEngine /\ ~Start!Stopped.pump /\ ~Start!Stopped.avPump
<1>1. /\ Start!Stopped.mpv = Start!NoEngine /\ Start!Stopped.av = Start!NoEngine
      /\ Start!Stopped.pump = FALSE /\ Start!Stopped.avPump = FALSE
      /\ Start!Stopped.child = 0 /\ Start!Stopped.ipc = 0 /\ Start!Stopped.backend = "none"
      /\ Start!Stopped.present = "soft"
  BY DEF Start!Stopped, Start!None
<1>2. Start!Stopped = [mpv |-> Start!NoEngine, av |-> Start!NoEngine, pump |-> FALSE, avPump |-> FALSE,
                       child |-> 0, ipc |-> 0, backend |-> "none", present |-> "soft"]
  BY DEF Start!Stopped, Start!None
<1> QED BY <1>1, <1>2 DEF NativeType, MpvType, AvType, NothingInside, Process

LEMMA IdleTyped ==
  /\ Start!Idle \in CallType /\ Start!Idle.at = "idle" /\ Start!Idle.local = 0
  /\ Start!Idle.result = "none" /\ Start!Idle.n = 1
BY DEF Start!Idle, Start!None, CallType, Process

LEMMA KilledAll ==
  ASSUME StartInv, call.at \in {"idle", "intent"}
  PROVE  /\ Start!Killed \in [StartProcesses -> ProcessType] /\ LivingOf(Start!Killed) = {}
         /\ \A p \in StartProcesses : Fitted(Start!Killed[p])
<1>1. procs \in [StartProcesses -> ProcessType] /\ LivingOf(procs) \subseteq {driver.child}
  BY DEF StartInv, StartTyped, WhatPlaysIsHeld
<1>2. ASSUME NEW p \in StartProcesses
      PROVE  /\ Start!Killed[p] \in ProcessType /\ Start!Killed[p].alive = FALSE
             /\ Start!Killed[p].asked = procs[p].asked /\ Start!Killed[p].via = procs[p].via
             /\ Start!Killed[p].limited = procs[p].limited
  <2>1. procs[p] \in ProcessType
    BY <1>1
  <2>2. CASE p \in {driver.child, driver.ipc}
    <3>1. Start!Killed[p] = [procs[p] EXCEPT !.alive = FALSE]
      BY <2>2 DEF Start!Killed
    <3> QED BY <2>1, <3>1 DEF ProcessType
  <2>3. CASE p \notin {driver.child, driver.ipc}
    <3>1. Start!Killed[p] = procs[p]
      BY <2>3 DEF Start!Killed
    <3>2. ~procs[p].alive
      BY <1>1, <2>3 DEF LivingOf
    <3> QED BY <2>1, <3>1, <3>2 DEF ProcessType
  <2> QED BY <2>2, <2>3
<1>3. Start!Killed \in [StartProcesses -> ProcessType]
  <2>1. Start!Killed = [p \in StartProcesses |-> Start!Killed[p]]
    BY DEF Start!Killed
  <2> QED BY <1>2, <2>1
<1>4. \A p \in StartProcesses : Fitted(Start!Killed[p])
  <2> SUFFICES ASSUME NEW p \in StartProcesses PROVE Fitted(Start!Killed[p])
    OBVIOUS
  <2>1. Fitted(procs[p]) /\ procs[p] \in ProcessType
    BY <1>1 DEF StartInv, AllFitted
  <2>2. "limited" \in DOMAIN procs[p]
    BY <2>1 DEF ProcessType
  <2> QED BY <1>2, <2>1, <2>2 DEF Fitted
<1> QED BY <1>2, <1>3, <1>4 DEF LivingOf

\* A process that is not in use is there to be started.
LEMMA FreeIsFree ==
  ASSUME StartInv, LivingOf(procs) = {}, driver.child = 0
  PROVE  Start!Free \in StartProcesses /\ Start!Free # 0 /\ Start!Free # call.local
<1>1. PICK p \in StartProcesses : p # call.local
  BY StartAssumption
<1>2. ~procs[p].alive /\ p \notin {driver.child, call.local}
  BY <1>1, StartAssumption DEF LivingOf
<1> QED BY <1>2, StartAssumption DEF Start!Free

LEMMA SpawnedIsInHand ==
  ASSUME StartInv, LivingOf(procs) = {}, driver.child = 0, NEW kind \in {"mpv", "ffplay"}
  PROVE  /\ Start!Spawned(kind) \in [StartProcesses -> ProcessType]
         /\ LivingOf(Start!Spawned(kind)) = {Start!Free}
         /\ Start!Spawned(kind)[Start!Free].kind = kind
         /\ \A p \in StartProcesses : Fitted(Start!Spawned(kind)[p])
<1> DEFINE new == [kind |-> kind, alive |-> TRUE, asked |-> options.proxied,
                   via |-> options.proxied, limited |-> options.proxied]
<1>1. procs \in [StartProcesses -> ProcessType] /\ options.proxied \in BOOLEAN /\ Start!Free \in StartProcesses
  BY FreeIsFree DEF StartInv, StartTyped, OptionsType
<1>2. new \in ProcessType /\ new.alive = TRUE /\ new.kind = kind
  BY <1>1 DEF ProcessType
<1>3. Fitted(new)
  BY <1>1 DEF Fitted
<1>4. Start!Spawned(kind) = [procs EXCEPT ![Start!Free] = new]
  BY DEF Start!Spawned
<1> HIDE DEF new
<1>5. \A p \in StartProcesses : Start!Spawned(kind)[p] = IF p = Start!Free THEN new ELSE procs[p]
  BY <1>1, <1>4
<1>6. LivingOf(Start!Spawned(kind)) = {Start!Free}
  BY <1>1, <1>2, <1>5 DEF LivingOf
<1>7. \A p \in StartProcesses : Fitted(procs[p])
  BY DEF StartInv, AllFitted
<1> QED BY <1>1, <1>2, <1>3, <1>4, <1>5, <1>6, <1>7

LEMMA VoIs ==
  /\ Start!Vo("soft") \in {"none", "libmpv"}
  /\ \A p \in {"native", "embed", "egl"} :
       Start!Vo(p) \in {"none", "gpu-next", "gpu", "mediacodec_embed"}
<1>1. ASSUME NEW p \in {"soft", "native", "embed", "egl"}
      PROVE  \/ Start!Vo(p) = "none"
             \/ \E i \in DOMAIN Start!Outputs[p] : Start!Vo(p) = Start!Outputs[p][i]
  <2> DEFINE fit == {i \in DOMAIN Start!Outputs[p] : Start!Takes(Start!Outputs[p][i])}
  <2>1. CASE fit = {}
    BY <2>1 DEF Start!Vo, Start!None
  <2>2. CASE fit # {}
    <3>1. DOMAIN Start!Outputs[p] \subseteq {1, 2}
      BY DEF Start!Outputs
    <3>2. \E i \in fit : \A j \in fit : i <= j
      <4>1. CASE 1 \in fit BY <3>1, <4>1
      <4>2. CASE 1 \notin fit
        <5>1. fit \subseteq {2} BY <3>1, <4>2
        <5> QED BY <2>2, <5>1
      <4> QED BY <4>1, <4>2
    <3>3. (CHOOSE i \in fit : \A j \in fit : i <= j) \in fit
      <4> HIDE DEF fit
      <4> QED BY <3>2
    <3>4. Start!Vo(p) = Start!Outputs[p][CHOOSE i \in fit : \A j \in fit : i <= j]
      BY <2>2 DEF Start!Vo
    <3> HIDE DEF fit
    <3>5. \E i \in fit : Start!Vo(p) = Start!Outputs[p][i]
      BY <3>3, <3>4
    <3> QED BY <3>5 DEF fit
  <2> QED BY <2>1, <2>2
<1>2. /\ Start!Outputs["soft"] = <<"libmpv">> /\ Start!Outputs["native"] = <<"gpu-next", "gpu">>
      /\ Start!Outputs["embed"] = <<"mediacodec_embed">>
      /\ Start!Outputs["egl"] = <<"gpu", "mediacodec_embed">>
  BY DEF Start!Outputs
<1> QED BY <1>1, <1>2

\* An engine inside the program goes through the tunnel that is asked for, and draws in
\* the interface exactly when it is told to.
LEMMA LibmpvIsFitted ==
  ASSUME StartInv, NEW p \in {"soft", "native", "embed", "egl"}, NEW e \in Start!Libmpv(p)
  PROVE  /\ e \in MpvType /\ e # Start!NoEngine /\ Fitted(e) /\ (e.vo = "libmpv" <=> p = "soft")
         /\ ~Start!Android /\ e.vo = "libmpv" => e.engaged \/ e.hwdec = "no"
<1>1. options.proxied \in BOOLEAN /\ options.hwdec \in BOOLEAN
  BY DEF StartInv, StartTyped, OptionsType
<1>2. Start!Vo(p) # "none"
  BY DEF Start!Libmpv, Start!None
<1>3. PICK g \in Start!Engages(p, Start!Hwdec(p)) :
        e = [vo |-> Start!Vo(p), hwdec |-> Start!Settled(p, Start!Hwdec(p), g), engaged |-> g,
             asked |-> options.proxied, via |-> options.proxied,
             limited |-> options.proxied /\ ~Start!Android /\ Start!Takes("stream-lavf-o")]
  BY DEF Start!Libmpv
<1>4. g \in BOOLEAN
  BY <1>3 DEF Start!Engages
<1>5. /\ e.vo = Start!Vo(p) /\ e.hwdec = Start!Settled(p, Start!Hwdec(p), g) /\ e.engaged = g
      /\ e.asked = options.proxied /\ e.via = options.proxied
      /\ e.limited = (options.proxied /\ ~Start!Android /\ Start!Takes("stream-lavf-o"))
  BY <1>3
<1>6. e # Start!NoEngine
  <2>1. Start!NoEngine.vo = "none" BY DEF Start!NoEngine, Start!None
  <2> QED BY <1>2, <1>5, <2>1
<1>7. e.vo = "libmpv" <=> p = "soft"
  BY <1>2, <1>5, VoIs
<1>8. Fitted(e)
  BY <1>5 DEF Fitted
<1>9. ASSUME ~Start!Android, p = "soft" PROVE g \/ e.hwdec = "no"
  <2>1. CASE options.hwdec
    BY <1>4, <1>5, <1>9, <2>1 DEF Start!Settled
  <2>2. CASE ~options.hwdec
    <3>1. Start!Hwdec(p) = "no"
      BY <1>9, <2>2 DEF Start!Hwdec, Start!OnSurface
    <3> QED BY <1>5, <2>2, <3>1 DEF Start!Settled
  <2> QED BY <2>1, <2>2
<1>10. Start!Hwdec(p) \in Decoders
  <2>1. built.hw \in Decoders /\ Start!Copying(built.hw) \in Decoders
    BY DEF StartInv, StartTyped, Decoders, Start!Copying
  <2>2. ASSUME NEW h \in Decoders PROVE Start!OrSoftware(h) \in Decoders
    BY DEF Decoders, Start!OrSoftware
  <2>3. {"no", "mediacodec", "mediacodec-copy"} \subseteq Decoders
    BY DEF Decoders
  <2> HIDE DEF Decoders
  <2> QED BY <2>1, <2>2, <2>3 DEF Start!Hwdec
<1>11. e \in MpvType
  <2>1. e.vo \in {"libmpv", "gpu-next", "gpu", "mediacodec_embed"}
    BY <1>2, <1>5, VoIs
  <2>2. e.hwdec \in Decoders
    BY <1>5, <1>10 DEF Start!Settled, Decoders
  <2> QED BY <1>1, <1>3, <1>4, <1>5, <2>1, <2>2 DEF MpvType
<1> QED BY <1>5, <1>6, <1>7, <1>8, <1>9, <1>11

LEMMA PresentIs ==
  ASSUME StartInv
  PROVE  /\ Start!Present \in {"soft", "native", "embed", "egl"}
         /\ Start!Android => (Start!Present = "soft" <=> ~OnTop)
<1>1. options.present \in Surfaces /\ options.wid \in BOOLEAN
  BY DEF StartInv, StartTyped, OptionsType
<1> QED BY <1>1 DEF Start!Present, Start!OnSurface, OnTop, Surfaces

-----------------------------------------------------------------------------
\* A step of `play` that leaves things in hand and well made keeps the invariant.
PlayGoesOn ==
  /\ driver' \in NativeType /\ procs' \in [StartProcesses -> ProcessType] /\ call' \in CallType
  /\ WhatPlaysIsHeld(driver', procs', call') /\ AllFitted(driver', procs')
  /\ Start!Android /\ driver'.mpv # Start!NoEngine => (driver'.mpv.vo = "libmpv" <=> ~OnTop)

LEMMA PlayKeeps ==
  ASSUME StartInv, call.at # "idle" \/ driver.mpv # Start!NoEngine,
         UNCHANGED <<built, options, surface, channel, starts>>, PlayGoesOn
  PROVE  StartInv'
<1>1. channel
  BY DEF StartInv, InSight
<1>2. Start!Android' = Start!Android /\ OnTop' = OnTop
      /\ Start!Takes("stream-lavf-o")' = Start!Takes("stream-lavf-o")
  BY DEF Start!Android, Start!Takes, OnTop, Start!OnSurface
<1>3. StartTyped'
  BY DEF StartInv, StartTyped, PlayGoesOn, NativeType
<1>4. WhatPlaysIsHeld(driver, procs, call)'
  BY <1>2 DEF PlayGoesOn, WhatPlaysIsHeld, ChildIs, NothingInside, LivingOf, Start!NoEngine, Start!None
<1>5. AllFitted(driver, procs)'
  BY <1>2 DEF PlayGoesOn, AllFitted, Fitted, Start!NoEngine, Start!None
<1>6. InSight(driver, call)'
  BY <1>1, <1>2 DEF StartInv, PlayGoesOn, InSight, Start!NoEngine, Start!None
<1> QED BY <1>3, <1>4, <1>5, <1>6 DEF StartInv

\* `play` answers.
LEMMA AnswerIs ==
  ASSUME NEW nat, NEW ps, NEW result \in {"ok", "err"}, Start!Answer(nat, ps, result)
  PROVE  /\ driver' = nat /\ procs' = ps
         /\ call' \in CallType /\ call'.at \in {"idle", "intent"} /\ call'.local = 0 /\ call'.result = result
         /\ (call'.at = "intent" => Start!Android)
BY IdleTyped DEF Start!Answer, CallType

\* It fails, with nothing that plays.
LEMMA FailsHolds ==
  ASSUME StartInv, NEW nat, NEW ps, Start!Fails(nat, ps),
         nat \in NativeType, ps \in [StartProcesses -> ProcessType],
         NothingInside(nat), ~nat.pump, ~nat.avPump, LivingOf(ps) = {},
         \A p \in StartProcesses : Fitted(ps[p])
  PROVE  PlayGoesOn
<1>1. /\ driver' = nat /\ procs' = ps
      /\ call' \in CallType /\ call'.at \in {"idle", "intent"} /\ call'.local = 0 /\ call'.result = "err"
      /\ (call'.at = "intent" => Start!Android)
  BY AnswerIs DEF Start!Fails
<1>2. WhatPlaysIsHeld(nat, ps, call')
  BY <1>1 DEF WhatPlaysIsHeld, NothingInside
<1>3. AllFitted(nat, ps)
  BY DEF AllFitted, NothingInside
<1> QED BY <1>1, <1>2, <1>3 DEF PlayGoesOn, NothingInside

\* An attempt begins with nothing that plays.
Empty ==
  /\ call.at \in {"attempt", "watch", "look"} /\ call.backend \in Routes
  /\ NothingInside(driver) /\ ~driver.pump /\ ~driver.avPump
  /\ LivingOf(procs) = {} /\ driver.child = 0 /\ driver.ipc = 0
  /\ \A p \in StartProcesses : Fitted(procs[p])

LEMMA AttemptIsEmpty == ASSUME StartInv, call.at = "attempt" PROVE Empty
BY DEF StartInv, WhatPlaysIsHeld, AllFitted, Empty, NothingInside

\* A process is started, and is looked at once more.
LEMMA MpvProcessHolds ==
  ASSUME StartInv, Empty, ~Start!Android, call.backend = "mpv", NEW nat,
         nat \in NativeType, NothingInside(nat), ~nat.pump, ~nat.avPump, nat.child = 0, nat.ipc = 0,
         Start!StartMpvCli(nat)
  PROVE  PlayGoesOn
<1>1. procs \in [StartProcesses -> ProcessType] /\ call \in CallType
  BY DEF StartInv, StartTyped
<1>2. CASE Start!Fails(nat, procs)
  BY <1>1, <1>2, FailsHolds DEF Empty
<1>3. CASE Start!Landed([nat EXCEPT !.child = Start!Free, !.ipc = Start!Free], Start!Spawned("mpv"))
  <2> DEFINE new == [nat EXCEPT !.child = Start!Free, !.ipc = Start!Free]
  <2>1. /\ Start!Free \in StartProcesses /\ Start!Free # 0
        /\ Start!Spawned("mpv") \in [StartProcesses -> ProcessType]
        /\ LivingOf(Start!Spawned("mpv")) = {Start!Free}
        /\ Start!Spawned("mpv")[Start!Free].kind = "mpv"
        /\ \A p \in StartProcesses : Fitted(Start!Spawned("mpv")[p])
    BY FreeIsFree, SpawnedIsInHand DEF Empty
  <2>2. /\ new \in NativeType /\ NothingInside(new) /\ new.pump = nat.pump /\ new.avPump = nat.avPump
        /\ new.child = Start!Free /\ new.ipc = Start!Free
    BY <2>1 DEF NativeType, NothingInside, Process
  <2> HIDE DEF new
  <2>3. /\ driver' = new /\ procs' = Start!Spawned("mpv")
        /\ call' = [call EXCEPT !.at = "look", !.local = 0]
    BY <1>3, <2>1, <2>2 DEF Start!Landed, new
  <2>4. call' \in CallType /\ call'.at = "look" /\ call'.local = 0 /\ call'.backend = "mpv"
    BY <1>1, <2>3 DEF CallType, Process
  <2>5. WhatPlaysIsHeld(driver', procs', call')
    BY <2>1, <2>2, <2>3, <2>4 DEF WhatPlaysIsHeld, ChildIs, NothingInside, Routes
  <2>6. AllFitted(driver', procs')
    BY <2>1, <2>2, <2>3 DEF AllFitted, NothingInside
  <2> QED BY <2>1, <2>2, <2>3, <2>4, <2>5, <2>6 DEF PlayGoesOn, NothingInside
<1> QED BY <1>2, <1>3 DEF Start!StartMpvCli

\* `play` succeeds with an engine inside the program.
LEMMA InsideHolds ==
  ASSUME StartInv, Empty, NEW nat, nat \in NativeType, nat.child = 0, nat.ipc = 0,
         nat.mpv = Start!NoEngine \/ nat.av = Start!NoEngine, ~NothingInside(nat),
         AllFitted(nat, procs),
         Start!Android /\ nat.mpv # Start!NoEngine => (nat.mpv.vo = "libmpv" <=> ~OnTop),
         Start!Landed(nat, procs)
  PROVE  PlayGoesOn
<1>1. procs \in [StartProcesses -> ProcessType] /\ call.backend \in Routes
  BY DEF StartInv, StartTyped, Empty
<1> DEFINE new == [nat EXCEPT !.backend = call.backend]
<1>2. /\ new \in NativeType /\ new.mpv = nat.mpv /\ new.av = nat.av /\ new.pump = nat.pump
      /\ new.avPump = nat.avPump /\ new.child = 0 /\ new.ipc = 0
  BY <1>1 DEF NativeType
<1>3. Start!Answer(new, procs, "ok")
  BY DEF Start!Landed, Start!Plays
<1> HIDE DEF new
<1>4. /\ driver' = new /\ procs' = procs
      /\ call' \in CallType /\ call'.at \in {"idle", "intent"} /\ call'.local = 0 /\ call'.result = "ok"
      /\ (call'.at = "intent" => Start!Android)
  BY <1>3, AnswerIs
<1>5. WhatPlaysIsHeld(new, procs, call')
  BY <1>2, <1>4 DEF WhatPlaysIsHeld, NothingInside, Empty
<1>6. AllFitted(new, procs)
  BY <1>2 DEF AllFitted
<1> QED BY <1>1, <1>2, <1>4, <1>5, <1>6 DEF PlayGoesOn

LEMMA MpvHolds == ASSUME StartInv, Empty, call.backend = "mpv", Start!StartMpv PROVE PlayGoesOn
<1> DEFINE nat == IF built.mpv THEN [driver EXCEPT !.present = Start!Present] ELSE driver
<1>1. procs \in [StartProcesses -> ProcessType] /\ driver \in NativeType /\ built \in StartBuilds
  BY DEF StartInv, StartTyped
<1>2. /\ nat \in NativeType /\ nat.mpv = driver.mpv /\ nat.av = driver.av /\ nat.pump = driver.pump
      /\ nat.avPump = driver.avPump /\ nat.child = driver.child /\ nat.ipc = driver.ipc
  BY <1>1, PresentIs DEF NativeType
<1>3. /\ NothingInside(nat) /\ ~nat.pump /\ ~nat.avPump /\ nat.child = 0 /\ nat.ipc = 0
      /\ LivingOf(procs) = {} /\ \A p \in StartProcesses : Fitted(procs[p])
  BY <1>2 DEF Empty, NothingInside
<1>4. \/ \E e \in Start!Libmpv(Start!Present) :
           Start!Landed([nat EXCEPT !.mpv = e, !.pump = (Start!Present = "soft")], procs)
      \/ Start!Fails(nat, procs)
      \/ ~Start!Android /\ Start!StartMpvCli(nat)
  BY DEF Start!StartMpv
<1> HIDE DEF nat
<1>5. ASSUME NEW e \in Start!Libmpv(Start!Present),
             Start!Landed([nat EXCEPT !.mpv = e, !.pump = (Start!Present = "soft")], procs)
      PROVE  PlayGoesOn
  <2> DEFINE new == [nat EXCEPT !.mpv = e, !.pump = (Start!Present = "soft")]
  <2>1. /\ Start!Present \in {"soft", "native", "embed", "egl"}
        /\ Start!Android => (Start!Present = "soft" <=> ~OnTop)
    BY PresentIs
  <2>2. /\ e \in MpvType /\ e # Start!NoEngine /\ Fitted(e) /\ (e.vo = "libmpv" <=> Start!Present = "soft")
        /\ ~Start!Android /\ e.vo = "libmpv" => e.engaged \/ e.hwdec = "no"
    BY <1>5, <2>1, LibmpvIsFitted
  <2>3. /\ new \in NativeType /\ new.mpv = e /\ new.av = nat.av /\ (new.pump <=> Start!Present = "soft")
        /\ new.avPump = nat.avPump /\ new.child = 0 /\ new.ipc = 0
    BY <1>2, <1>3, <2>2 DEF NativeType
  <2>4. Start!Landed(new, procs)
    BY <1>5
  <2> HIDE DEF new
  <2>5. AllFitted(new, procs)
    BY <1>3, <2>2, <2>3 DEF AllFitted, NothingInside
  <2>6. ~NothingInside(new) /\ new.av = Start!NoEngine
    BY <1>3, <2>2, <2>3 DEF NothingInside
  <2> QED BY <2>1, <2>2, <2>3, <2>4, <2>5, <2>6, InsideHolds
<1>6. CASE Start!Fails(nat, procs)
  BY <1>1, <1>2, <1>3, <1>6, FailsHolds
<1>7. CASE ~Start!Android /\ Start!StartMpvCli(nat)
  BY <1>2, <1>3, <1>7, MpvProcessHolds
<1> QED BY <1>4, <1>5, <1>6, <1>7

\* ffplay is started, and watched before it is the child.
LEMMA FfplayHolds ==
  ASSUME StartInv, Empty, ~Start!Android, call.backend = "ffmpeg", NEW compat \in BOOLEAN,
         Start!SpawnFfplay(compat)
  PROVE  PlayGoesOn
<1>1. procs \in [StartProcesses -> ProcessType] /\ call \in CallType /\ driver \in NativeType
  BY DEF StartInv, StartTyped
<1>2. CASE Start!Fails(driver, procs)
  BY <1>1, <1>2, FailsHolds DEF Empty
<1>3. CASE /\ procs' = Start!Spawned("ffplay")
           /\ call' = [call EXCEPT !.at = "watch", !.local = Start!Free, !.compat = compat]
           /\ UNCHANGED driver
  <2>1. /\ Start!Free \in StartProcesses /\ Start!Free # 0
        /\ Start!Spawned("ffplay") \in [StartProcesses -> ProcessType]
        /\ LivingOf(Start!Spawned("ffplay")) = {Start!Free}
        /\ Start!Spawned("ffplay")[Start!Free].kind = "ffplay"
        /\ \A p \in StartProcesses : Fitted(Start!Spawned("ffplay")[p])
    BY FreeIsFree, SpawnedIsInHand DEF Empty
  <2>2. call' \in CallType /\ call'.at = "watch" /\ call'.local = Start!Free /\ call'.backend = "ffmpeg"
    BY <1>1, <1>3, <2>1 DEF CallType, Process
  <2>3. WhatPlaysIsHeld(driver', procs', call')
    BY <1>3, <2>1, <2>2 DEF WhatPlaysIsHeld, NothingInside, Empty, Routes
  <2>4. AllFitted(driver', procs')
    BY <1>3, <2>1 DEF AllFitted, NothingInside, Empty
  <2> QED BY <1>1, <1>3, <2>1, <2>2, <2>3, <2>4 DEF PlayGoesOn, NothingInside, Empty
<1> QED BY <1>2, <1>3 DEF Start!SpawnFfplay

LEMMA FfmpegHolds == ASSUME StartInv, Empty, call.backend = "ffmpeg", Start!StartFfmpeg PROVE PlayGoesOn
<1>1. procs \in [StartProcesses -> ProcessType] /\ driver \in NativeType /\ built \in StartBuilds
      /\ options.proxied \in BOOLEAN
  BY DEF StartInv, StartTyped, OptionsType
<1> DEFINE lav == [vo |-> "frames", asked |-> options.proxied, via |-> options.proxied]
           new == [driver EXCEPT !.av = lav, !.avPump = TRUE]
<1>2. CASE Start!Landed(new, procs)
  <2>1. lav # Start!NoEngine /\ Fitted(lav) /\ lav \in AvType
    <3>1. lav.vo = "frames" /\ Start!NoEngine.vo = "none" BY DEF Start!NoEngine, Start!None
    <3>2. lav.asked = lav.via /\ "limited" \notin DOMAIN lav OBVIOUS
    <3>3. lav \in AvType BY <1>1 DEF AvType
    <3> HIDE DEF lav
    <3> QED BY <3>1, <3>2, <3>3 DEF Fitted
  <2> HIDE DEF lav
  <2>2. /\ new \in NativeType /\ new.mpv = driver.mpv /\ new.av = lav /\ new.pump = driver.pump
        /\ new.avPump = TRUE /\ new.child = 0 /\ new.ipc = 0
    BY <1>1, <2>1 DEF NativeType, Empty
  <2> HIDE DEF new
  <2>3. new.mpv = Start!NoEngine /\ ~NothingInside(new) /\ AllFitted(new, procs)
    BY <2>1, <2>2 DEF AllFitted, NothingInside, Empty
  <2> QED BY <1>2, <2>2, <2>3, InsideHolds
<1>3. CASE Start!Fails(driver, procs)
  BY <1>1, <1>3, FailsHolds DEF Empty
<1>4. CASE built.cli /\ "ffplay" \in built.bins /\ Start!SpawnFfplay(FALSE)
  <2>1. ~Start!Android
    BY <1>1, <1>4, StartAssumption DEF Start!Android
  <2> QED BY <1>4, <2>1, FfplayHolds
<1> QED BY <1>2, <1>3, <1>4 DEF Start!StartFfmpeg

LEMMA ExternalHolds ==
  ASSUME StartInv, Empty, call.backend = "external", Start!StartExternal PROVE PlayGoesOn
<1>1. procs \in [StartProcesses -> ProcessType] /\ driver \in NativeType
  BY DEF StartInv, StartTyped
<1>2. CASE Start!Fails(driver, procs)
  BY <1>1, <1>2, FailsHolds DEF Empty
<1>3. CASE Start!Plays(driver, procs)
  <2> DEFINE new == [driver EXCEPT !.backend = call.backend]
  <2>1. /\ new \in NativeType /\ new.mpv = driver.mpv /\ new.av = driver.av /\ new.pump = driver.pump
        /\ new.avPump = driver.avPump /\ new.child = 0 /\ new.ipc = 0 /\ new.backend = "external"
    BY <1>1 DEF NativeType, Empty
  <2>2. Start!Answer(new, procs, "ok")
    BY <1>3 DEF Start!Plays
  <2> HIDE DEF new
  <2>3. /\ driver' = new /\ procs' = procs
        /\ call' \in CallType /\ call'.at \in {"idle", "intent"} /\ call'.local = 0 /\ call'.result = "ok"
        /\ (call'.at = "intent" => Start!Android)
    BY <2>2, AnswerIs
  <2>4. WhatPlaysIsHeld(new, procs, call')
    BY <2>1, <2>3 DEF WhatPlaysIsHeld, NothingInside, Empty
  <2>5. AllFitted(new, procs)
    BY <2>1 DEF AllFitted, NothingInside, Empty
  <2> QED BY <1>1, <2>1, <2>3, <2>4, <2>5 DEF PlayGoesOn, NothingInside, Empty
<1> QED BY <1>2, <1>3 DEF Start!StartExternal

\* A process that lasts is the child of the player, and is looked at once more.
LEMMA WatchHolds ==
  ASSUME StartInv, Start!Watch PROVE PlayGoesOn
<1>1. procs \in [StartProcesses -> ProcessType] /\ driver \in NativeType /\ call \in CallType
  BY DEF StartInv, StartTyped
<1>2. /\ call.at = "watch" /\ NothingInside(driver) /\ call.backend = "ffmpeg"
      /\ LivingOf(procs) \subseteq {call.local} /\ call.local # 0 /\ driver.child = 0 /\ driver.ipc = 0
      /\ procs[call.local].kind = "ffplay" /\ (Start!Android => LivingOf(procs) = {})
      /\ ~driver.pump /\ ~driver.avPump /\ \A p \in StartProcesses : Fitted(procs[p])
  BY DEF Start!Watch, StartInv, WhatPlaysIsHeld, AllFitted, NothingInside
<1>3. call.local \in StartProcesses
  BY <1>1, <1>2 DEF CallType, Process
<1>4. CASE procs[call.local].alive
  <2> DEFINE new == [driver EXCEPT !.child = call.local]
  <2>1. /\ new \in NativeType /\ new.mpv = driver.mpv /\ new.av = driver.av /\ new.pump = driver.pump
        /\ new.avPump = driver.avPump /\ new.child = call.local /\ new.ipc = 0
    BY <1>1, <1>2, <1>3 DEF NativeType, Process
  <2>2. Start!Landed(new, procs)
    BY <1>4 DEF Start!Watch
  <2> HIDE DEF new
  <2>3. driver' = new /\ procs' = procs /\ call' = [call EXCEPT !.at = "look", !.local = 0]
    BY <1>2, <2>1, <2>2 DEF Start!Landed
  <2>4. call' \in CallType /\ call'.at = "look" /\ call'.local = 0 /\ call'.backend = "ffmpeg"
    BY <1>1, <1>2, <2>3 DEF CallType, Process
  <2>5. WhatPlaysIsHeld(driver', procs', call')
    BY <1>2, <2>1, <2>3, <2>4 DEF WhatPlaysIsHeld, ChildIs, NothingInside, Routes
  <2>6. AllFitted(driver', procs')
    BY <1>2, <2>1, <2>3 DEF AllFitted, NothingInside
  <2> QED BY <1>1, <1>2, <2>1, <2>3, <2>4, <2>5, <2>6 DEF PlayGoesOn, NothingInside
<1>5. CASE ~procs[call.local].alive
  <2>1. LivingOf(procs) = {}
    BY <1>2, <1>5 DEF LivingOf
  <2>2. Empty
    BY <1>2, <2>1 DEF Empty, Routes
  <2>3. CASE Start!Fails(driver, procs)
    BY <1>1, <2>2, <2>3, FailsHolds DEF Empty
  <2>4. CASE Start!SpawnFfplay(TRUE)
    <3>1. CASE ~Start!Android
      BY <1>2, <2>2, <2>4, <3>1, FfplayHolds
    <3>2. CASE Start!Android
      BY <1>2, <3>2 DEF StartInv, WhatPlaysIsHeld
    <3> QED BY <3>1, <3>2
  <2> QED BY <1>5, <2>3, <2>4 DEF Start!Watch
<1> QED BY <1>4, <1>5

LEMMA LookHolds ==
  ASSUME StartInv, Start!Look PROVE PlayGoesOn
<1>1. procs \in [StartProcesses -> ProcessType] /\ driver \in NativeType /\ call \in CallType
  BY DEF StartInv, StartTyped
<1>2. /\ call.at = "look" /\ NothingInside(driver) /\ call.backend \in Routes
      /\ LivingOf(procs) \subseteq {driver.child} /\ driver.child # 0 /\ call.local = 0
      /\ ChildIs(driver, procs, call.backend) /\ (Start!Android => LivingOf(procs) = {})
      /\ ~driver.pump /\ ~driver.avPump /\ \A p \in StartProcesses : Fitted(procs[p])
  BY DEF Start!Look, StartInv, WhatPlaysIsHeld, AllFitted, NothingInside
<1>3. CASE procs[driver.child].alive
  <2> DEFINE new == [driver EXCEPT !.backend = call.backend]
  <2>1. /\ new \in NativeType /\ new.mpv = driver.mpv /\ new.av = driver.av /\ new.pump = driver.pump
        /\ new.avPump = driver.avPump /\ new.child = driver.child /\ new.ipc = driver.ipc
        /\ new.backend = call.backend
    BY <1>1, <1>2 DEF NativeType
  <2>2. Start!Answer(new, procs, "ok")
    BY <1>2, <1>3 DEF Start!Look, Start!Plays
  <2> HIDE DEF new
  <2>3. /\ driver' = new /\ procs' = procs
        /\ call' \in CallType /\ call'.at \in {"idle", "intent"} /\ call'.local = 0 /\ call'.result = "ok"
        /\ (call'.at = "intent" => Start!Android)
    BY <2>2, AnswerIs
  <2>4. WhatPlaysIsHeld(new, procs, call')
    BY <1>2, <2>1, <2>3 DEF WhatPlaysIsHeld, NothingInside, ChildIs
  <2>5. AllFitted(new, procs)
    BY <1>2, <2>1 DEF AllFitted, NothingInside
  <2> QED BY <1>1, <1>2, <2>1, <2>3, <2>4, <2>5 DEF PlayGoesOn, NothingInside
<1>4. CASE ~procs[driver.child].alive
  <2>1. LivingOf(procs) = {}
    BY <1>2, <1>4 DEF LivingOf
  <2>2. CASE call.n = 1
    <3> DEFINE new == [driver EXCEPT !.child = 0, !.ipc = 0, !.backend = Start!None]
    <3>1. /\ new \in NativeType /\ new.mpv = driver.mpv /\ new.av = driver.av /\ new.pump = driver.pump
          /\ new.avPump = driver.avPump /\ new.child = 0 /\ new.ipc = 0
      BY <1>1 DEF NativeType, Process, Start!None
    <3>2. driver' = new /\ procs' = procs /\ call' = [call EXCEPT !.at = "attempt", !.n = 2]
      BY <1>4, <2>2 DEF Start!Look
    <3> HIDE DEF new
    <3>3. call' \in CallType /\ call'.at = "attempt" /\ call'.local = 0 /\ call'.backend \in Routes
      BY <1>1, <1>2, <3>2 DEF CallType
    <3>4. WhatPlaysIsHeld(driver', procs', call')
      BY <1>2, <2>1, <3>1, <3>2, <3>3 DEF WhatPlaysIsHeld, NothingInside
    <3>5. AllFitted(driver', procs')
      BY <1>2, <3>1, <3>2 DEF AllFitted, NothingInside
    <3> QED BY <1>1, <1>2, <3>1, <3>2, <3>3, <3>4, <3>5 DEF PlayGoesOn, NothingInside
  <2>3. CASE call.n # 1
    <3> DEFINE new == [driver EXCEPT !.child = 0, !.backend = Start!None]
    <3>1. /\ new \in NativeType /\ NothingInside(new) /\ ~new.pump /\ ~new.avPump
      BY <1>1, <1>2 DEF NativeType, Process, Start!None, NothingInside
    <3>2. Start!Fails(new, procs)
      BY <1>4, <2>3 DEF Start!Look
    <3> HIDE DEF new
    <3> QED BY <1>1, <1>2, <2>1, <3>1, <3>2, FailsHolds
  <2> QED BY <2>2, <2>3
<1> QED BY <1>3, <1>4

LEMMA PlayStepHolds ==
  ASSUME StartInv, Start!Attempt \/ Start!Watch \/ Start!Look,
         UNCHANGED <<built, options, surface, channel, starts>>
  PROVE  StartInv'
<1>1. CASE Start!Attempt
  <2>1. Empty /\ call.at = "attempt"
    BY <1>1, AttemptIsEmpty DEF Start!Attempt
  <2>2. CASE call.backend = "mpv"
    <3>1. PlayGoesOn BY <1>1, <2>1, <2>2, MpvHolds DEF Start!Attempt
    <3> QED BY <2>1, <3>1, PlayKeeps
  <2>3. CASE call.backend = "ffmpeg"
    <3>1. PlayGoesOn BY <1>1, <2>1, <2>3, FfmpegHolds DEF Start!Attempt
    <3> QED BY <2>1, <3>1, PlayKeeps
  <2>4. CASE call.backend = "external"
    <3>1. PlayGoesOn BY <1>1, <2>1, <2>4, ExternalHolds DEF Start!Attempt
    <3> QED BY <2>1, <3>1, PlayKeeps
  <2> QED BY <2>1, <2>2, <2>3, <2>4 DEF Empty, Routes
<1>2. CASE Start!Watch
  <2>1. PlayGoesOn /\ call.at = "watch" BY <1>2, WatchHolds DEF Start!Watch
  <2> QED BY <2>1, PlayKeeps
<1>3. CASE Start!Look
  <2>1. PlayGoesOn /\ call.at = "look" BY <1>3, LookHolds DEF Start!Look
  <2> QED BY <2>1, PlayKeeps
<1> QED BY <1>1, <1>2, <1>3

-----------------------------------------------------------------------------
LEMMA LadderIs ==
  ASSUME built \in StartBuilds, NEW s \in StartSettings
  PROVE  Start!Ladder(s) \in Seq(Surfaces) /\ Start!Ladder(s) # <<>>
<1>1. CASE s.present = "soft"
  BY <1>1 DEF Start!Ladder, Surfaces
<1>2. CASE s.present = "egl"
  BY <1>2 DEF Start!Ladder, Surfaces
<1>3. CASE s.present \notin {"soft", "egl"}
  BY <1>3, StartAssumption DEF Start!Ladder
<1> QED BY <1>1, <1>2, <1>3

LEMMA FromIs ==
  ASSUME NEW s \in StartSettings, NEW where \in Surfaces, NEW wid \in BOOLEAN
  PROVE  /\ Start!From(s, where, wid) \in OptionsType
         /\ Start!From(s, where, wid).present = where /\ Start!From(s, where, wid).wid = wid
BY StartAssumption DEF Start!From, OptionsType

LEMMA PickIs == ASSUME NEW o \in OptionsType PROVE Start!Pick(o.pref) \in Routes \cup {"none"}
<1>1. o.pref \in Prefs
  BY DEF OptionsType
<1> QED BY <1>1 DEF Start!Pick, Start!None, Prefs, Routes

\* `play` begins: what played has ended.
LEMMA StartPlayHolds ==
  ASSUME StartInv, NEW o \in OptionsType, Start!StartPlay(o),
         channel', surface' \in SurfaceType,
         Start!Android => IF Start!OnSurface(o.present) /\ o.wid
                          THEN surface'.visible /\ surface'.top
                          ELSE ~(surface'.visible /\ surface'.top)
  PROVE  StartInv'
<1>1. /\ call.at = "idle" /\ starts < StartPlays /\ starts' = starts + 1 /\ options' = o
      /\ driver' = Start!Stopped /\ procs' = Start!Killed /\ built' = built
      /\ call' = IF Start!Pick(o.pref) = Start!None
                 THEN [Start!Idle EXCEPT !.at = IF Start!Android THEN "intent" ELSE "idle", !.result = "err"]
                 ELSE [Start!Idle EXCEPT !.at = "attempt", !.backend = Start!Pick(o.pref)]
  BY DEF Start!StartPlay
<1>2. /\ Start!Killed \in [StartProcesses -> ProcessType] /\ LivingOf(Start!Killed) = {}
      /\ \A p \in StartProcesses : Fitted(Start!Killed[p])
  BY <1>1, KilledAll
<1>3. /\ call' \in CallType /\ call'.local = 0 /\ call'.result # "ok"
      /\ \/ call'.at = "attempt" /\ call'.backend \in Routes
         \/ call'.at \in {"idle", "intent"} /\ (call'.at = "intent" => Start!Android)
  <2>1. CASE Start!Pick(o.pref) = Start!None
    BY <1>1, <2>1, IdleTyped DEF CallType
  <2>2. CASE Start!Pick(o.pref) # Start!None
    <3>1. Start!Pick(o.pref) \in Routes
      BY <2>2, PickIs DEF Start!None
    <3> QED BY <1>1, <2>2, <3>1, IdleTyped DEF CallType
  <2> QED BY <2>1, <2>2
<1>4. Start!Android' = Start!Android /\ Start!Takes("stream-lavf-o")' = Start!Takes("stream-lavf-o")
  BY <1>1 DEF Start!Android, Start!Takes
<1>5. StartTyped'
  <2>1. starts' \in 0 .. StartPlays
    BY <1>1, StartAssumption DEF StartInv, StartTyped
  <2>2. channel' \in BOOLEAN
    BY DEF StartInv
  <2> QED BY <1>1, <1>2, <1>3, <2>1, StoppedTyped DEF StartInv, StartTyped
<1>6. WhatPlaysIsHeld(driver, procs, call)'
  BY <1>1, <1>2, <1>3, <1>4, StoppedTyped
     DEF WhatPlaysIsHeld, NothingInside, LivingOf, ChildIs, Start!NoEngine, Start!None
<1>7. AllFitted(driver, procs)'
  BY <1>1, <1>2, <1>4, StoppedTyped DEF AllFitted, Fitted, Start!NoEngine, Start!None
<1>8. InSight(driver, call)'
  BY <1>1, <1>4, StoppedTyped DEF InSight, OnTop, Start!OnSurface, Start!NoEngine, Start!None
<1> QED BY <1>5, <1>6, <1>7, <1>8 DEF StartInv

LEMMA OpenHolds == ASSUME StartInv, NEW s \in StartSettings, Start!Open(s) PROVE StartInv'
<1>1. channel' = TRUE
  BY DEF Start!Open
<1>2. CASE Start!Android
  <2>1. PICK b \in Start!Bound(s) : Start!StartPlay(b.opts) /\ surface' = b.surface
    BY <1>2 DEF Start!Open
  <2>2. PICK i \in DOMAIN Start!Ladder(s) :
          b = [opts |-> Start!From(s, Start!Ladder(s)[i], Start!OnSurface(Start!Ladder(s)[i])),
               surface |-> IF Start!OnSurface(Start!Ladder(s)[i])
                           THEN [visible |-> TRUE, top |-> TRUE, upgrade |-> FALSE]
                           ELSE [visible |-> i > 1 /\ s.present # "soft",
                                 top |-> surface.top /\ ~(i > 1 /\ s.present # "soft"),
                                 upgrade |-> i > 1 /\ s.present # "soft"]]
    BY <2>1 DEF Start!Bound
  <2> DEFINE p == Start!Ladder(s)[i]
             warm == i > 1 /\ s.present # "soft"
  <2>3. p \in Surfaces
    BY LadderIs DEF StartInv, StartTyped
  <2>4. /\ b.opts = Start!From(s, p, Start!OnSurface(p))
        /\ b.surface = IF Start!OnSurface(p)
                       THEN [visible |-> TRUE, top |-> TRUE, upgrade |-> FALSE]
                       ELSE [visible |-> warm, top |-> surface.top /\ ~warm, upgrade |-> warm]
    BY <2>2
  <2> HIDE DEF p, warm
  <2>5. Start!OnSurface(p) \in BOOLEAN
    BY DEF Start!OnSurface
  <2>6. /\ b.opts \in OptionsType /\ b.opts.present = p /\ b.opts.wid = Start!OnSurface(p)
    BY <2>3, <2>4, <2>5, FromIs
  <2>7. surface.top \in BOOLEAN
    BY DEF StartInv, StartTyped, SurfaceType
  <2>8. warm \in BOOLEAN
    BY DEF warm
  <2>9. /\ surface' \in SurfaceType
        /\ IF Start!OnSurface(p) THEN surface'.visible /\ surface'.top ELSE ~(surface'.visible /\ surface'.top)
    <3>1. CASE Start!OnSurface(p)
      <4>1. surface' = [visible |-> TRUE, top |-> TRUE, upgrade |-> FALSE]
        BY <2>1, <2>4, <3>1
      <4> QED BY <3>1, <4>1 DEF SurfaceType
    <3>2. CASE ~Start!OnSurface(p)
      <4>1. surface' = [visible |-> warm, top |-> surface.top /\ ~warm, upgrade |-> warm]
        BY <2>1, <2>4, <3>2
      <4> QED BY <2>7, <2>8, <3>2, <4>1 DEF SurfaceType
    <3> QED BY <3>1, <3>2
  <2> QED BY <1>1, <2>1, <2>6, <2>9, StartPlayHolds
<1>3. CASE ~Start!Android
  <2>1. Start!From(s, "soft", FALSE) \in OptionsType
    BY FromIs DEF Surfaces
  <2>2. Start!StartPlay(Start!From(s, "soft", FALSE)) /\ surface' = surface
    BY <1>3 DEF Start!Open
  <2>3. surface \in SurfaceType
    BY DEF StartInv, StartTyped
  <2> QED BY <1>1, <1>3, <2>1, <2>2, <2>3, StartPlayHolds
<1> QED BY <1>2, <1>3

LEMMA RestartHolds == ASSUME StartInv, Start!Restart PROVE StartInv'
<1>1. channel' /\ surface' = surface /\ Start!StartPlay(options)
  BY DEF Start!Restart
<1>2. options \in OptionsType /\ surface \in SurfaceType
  BY DEF StartInv, StartTyped
<1>3. Start!Android => IF Start!OnSurface(options.present) /\ options.wid
                       THEN surface.visible /\ surface.top ELSE ~(surface.visible /\ surface.top)
  BY DEF StartInv, InSight, OnTop
<1> QED BY <1>1, <1>2, <1>3, StartPlayHolds

\* A setting changes the surface that is to come, not the one that is drawn on.
LEMMA ResyncHolds ==
  ASSUME StartInv, NEW s \in StartSettings, Start!ResyncPlayerOptions(s) PROVE StartInv'
<1>1. /\ UNCHANGED <<built, surface, channel, driver, procs, call, starts>>
      /\ options' = IF ~Start!Android THEN Start!From(s, "soft", FALSE)
                    ELSE IF channel THEN Start!From(s, options.present, options.wid)
                    ELSE Start!From(s, Head(Start!Ladder(s)), FALSE)
  BY DEF Start!ResyncPlayerOptions
<1>2. Head(Start!Ladder(s)) \in Surfaces
  BY LadderIs DEF StartInv, StartTyped
<1>3. options.present \in Surfaces /\ options.wid \in BOOLEAN
  BY DEF StartInv, StartTyped, OptionsType
<1>4. /\ options' \in OptionsType
      /\ Start!Android /\ channel => options'.present = options.present /\ options'.wid = options.wid
      /\ Start!Android /\ ~channel => options'.wid = FALSE
  <2>1. CASE ~Start!Android
    BY <1>1, <2>1, FromIs DEF Surfaces
  <2>2. CASE Start!Android /\ channel
    BY <1>1, <1>3, <2>2, FromIs
  <2>3. CASE Start!Android /\ ~channel
    BY <1>1, <1>2, <2>3, FromIs
  <2> QED BY <2>1, <2>2, <2>3
<1>5. Start!Android' = Start!Android /\ Start!Takes("stream-lavf-o")' = Start!Takes("stream-lavf-o")
  BY <1>1 DEF Start!Android, Start!Takes
<1>6. StartTyped'
  BY <1>1, <1>4 DEF StartInv, StartTyped
<1>7. WhatPlaysIsHeld(driver, procs, call)'
  BY <1>1, <1>5 DEF StartInv, WhatPlaysIsHeld, NothingInside, LivingOf, ChildIs, Start!NoEngine, Start!None
<1>8. AllFitted(driver, procs)'
  BY <1>1, <1>5 DEF StartInv, AllFitted, Fitted, Start!NoEngine, Start!None
<1>9. InSight(driver, call)'
  BY <1>1, <1>4, <1>5 DEF StartInv, InSight, OnTop, Start!OnSurface, Start!NoEngine, Start!None
<1> QED BY <1>6, <1>7, <1>8, <1>9 DEF StartInv

\* What plays is given up, and the surface with it.
LEMMA StopHolds == ASSUME StartInv, Start!Stop PROVE StartInv'
<1>1. /\ call.at = "idle" /\ driver' = Start!Stopped /\ procs' = Start!Killed
      /\ options' = [options EXCEPT !.wid = FALSE]
      /\ surface' = [surface EXCEPT !.visible = FALSE, !.upgrade = FALSE]
      /\ channel' = FALSE /\ call' = Start!Idle /\ UNCHANGED <<built, starts>>
  BY DEF Start!Stop
<1>2. /\ Start!Killed \in [StartProcesses -> ProcessType] /\ LivingOf(Start!Killed) = {}
      /\ \A p \in StartProcesses : Fitted(Start!Killed[p])
  BY <1>1, KilledAll
<1>3. Start!Android' = Start!Android /\ Start!Takes("stream-lavf-o")' = Start!Takes("stream-lavf-o")
  BY <1>1 DEF Start!Android, Start!Takes
<1>4. options' \in OptionsType /\ options'.wid = FALSE /\ surface' \in SurfaceType /\ surface'.visible = FALSE
  BY <1>1 DEF StartInv, StartTyped, OptionsType, SurfaceType
<1>5. StartTyped'
  BY <1>1, <1>2, <1>4, StoppedTyped, IdleTyped DEF StartInv, StartTyped
<1>6. WhatPlaysIsHeld(driver, procs, call)'
  BY <1>1, <1>2, <1>3, StoppedTyped, IdleTyped
     DEF WhatPlaysIsHeld, NothingInside, LivingOf, ChildIs, Start!NoEngine, Start!None
<1>7. AllFitted(driver, procs)'
  BY <1>1, <1>2, <1>3, StoppedTyped DEF AllFitted, Fitted, Start!NoEngine, Start!None
<1>8. InSight(driver, call)'
  BY <1>1, <1>3, <1>4, StoppedTyped, IdleTyped DEF InSight, OnTop, Start!OnSurface, Start!NoEngine, Start!None
<1> QED BY <1>5, <1>6, <1>7, <1>8 DEF StartInv

LEMMA IntentHolds == ASSUME StartInv, Start!Intent PROVE StartInv'
<1>1. call.at = "intent" /\ UNCHANGED <<built, channel, procs, starts>>
  BY DEF Start!Intent
<1>2. Start!Android' = Start!Android /\ Start!Takes("stream-lavf-o")' = Start!Takes("stream-lavf-o")
  BY <1>1 DEF Start!Android, Start!Takes
<1>3. channel /\ LivingOf(procs) = {} /\ \A p \in StartProcesses : Fitted(procs[p])
  BY <1>1 DEF StartInv, WhatPlaysIsHeld, InSight, AllFitted
<1>4. CASE /\ driver' = Start!Stopped /\ options' = [options EXCEPT !.wid = FALSE]
           /\ surface' = [surface EXCEPT !.visible = FALSE]
           /\ call' = [Start!Idle EXCEPT !.result = "external"]
  <2>1. options' \in OptionsType /\ options'.wid = FALSE /\ surface' \in SurfaceType /\ surface'.visible = FALSE
    BY <1>4 DEF StartInv, StartTyped, OptionsType, SurfaceType
  <2>2. /\ call' \in CallType /\ call'.at = "idle" /\ call'.local = 0 /\ call'.result = "external"
    BY <1>4, IdleTyped DEF CallType
  <2>3. StartTyped'
    BY <1>1, <1>4, <2>1, <2>2, StoppedTyped DEF StartInv, StartTyped
  <2>4. WhatPlaysIsHeld(driver, procs, call)'
    BY <1>1, <1>2, <1>3, <1>4, <2>2, StoppedTyped
       DEF WhatPlaysIsHeld, NothingInside, LivingOf, ChildIs, Start!NoEngine, Start!None
  <2>5. AllFitted(driver, procs)'
    BY <1>1, <1>2, <1>3, <1>4, StoppedTyped DEF AllFitted, Fitted, Start!NoEngine, Start!None
  <2>6. InSight(driver, call)'
    BY <1>1, <1>2, <1>3, <1>4, <2>1, <2>2, StoppedTyped
       DEF InSight, OnTop, Start!OnSurface, Start!NoEngine, Start!None
  <2> QED BY <2>3, <2>4, <2>5, <2>6 DEF StartInv
<1>5. CASE call' = [call EXCEPT !.at = "idle"] /\ UNCHANGED <<driver, options, surface>>
  <2>1. call \in CallType
    BY DEF StartInv, StartTyped
  <2>2. call' \in CallType /\ call'.at = "idle" /\ call'.local = call.local /\ call'.result = call.result
    BY <1>5, <2>1 DEF CallType
  <2>3. StartTyped'
    BY <1>1, <1>5, <2>2 DEF StartInv, StartTyped
  <2>4. WhatPlaysIsHeld(driver, procs, call)'
    BY <1>1, <1>2, <1>5, <2>2 DEF StartInv, WhatPlaysIsHeld, NothingInside, LivingOf, ChildIs, Start!NoEngine, Start!None
  <2>5. AllFitted(driver, procs)'
    BY <1>1, <1>2, <1>5 DEF StartInv, AllFitted, Fitted, Start!NoEngine, Start!None
  <2>6. InSight(driver, call)'
    BY <1>1, <1>2, <1>3, <1>5 DEF StartInv, InSight, OnTop, Start!OnSurface, Start!NoEngine, Start!None
  <2> QED BY <2>3, <2>4, <2>5, <2>6 DEF StartInv
<1> QED BY <1>4, <1>5 DEF Start!Intent

LEMMA EndHolds == ASSUME StartInv, NEW p \in StartProcesses, Start!ProcessEnds(p) PROVE StartInv'
<1>1. /\ procs' = [procs EXCEPT ![p].alive = FALSE]
      /\ UNCHANGED <<built, options, surface, channel, driver, call, starts>>
  BY DEF Start!ProcessEnds
<1>2. procs \in [StartProcesses -> ProcessType] /\ driver \in NativeType
  BY DEF StartInv, StartTyped
<1>3. ASSUME NEW q \in StartProcesses
      PROVE  /\ procs'[q] \in ProcessType /\ procs'[q].kind = procs[q].kind
             /\ (procs'[q].alive => procs[q].alive) /\ procs'[q].asked = procs[q].asked
             /\ procs'[q].via = procs[q].via /\ procs'[q].limited = procs[q].limited
             /\ "limited" \in DOMAIN procs[q]
  <2>1. procs[q] \in ProcessType
    BY <1>2
  <2>2. procs'[q] = IF q = p THEN [procs[q] EXCEPT !.alive = FALSE] ELSE procs[q]
    BY <1>1, <1>2
  <2> QED BY <2>1, <2>2 DEF ProcessType
<1>4. procs' \in [StartProcesses -> ProcessType]
  BY <1>1, <1>2, <1>3
<1>5. Start!Android' = Start!Android /\ Start!Takes("stream-lavf-o")' = Start!Takes("stream-lavf-o")
  BY <1>1 DEF Start!Android, Start!Takes
<1>6. LivingOf(procs') \subseteq LivingOf(procs)
  BY <1>3 DEF LivingOf
<1>7. \A c \in Process : c # 0 => procs'[c].kind = procs[c].kind
  BY <1>3 DEF Process
<1>8. driver.child \in Process /\ call.local \in Process
  BY <1>2 DEF NativeType, StartInv, StartTyped, CallType
<1>9. StartTyped'
  BY <1>1, <1>4 DEF StartInv, StartTyped
<1>10. WhatPlaysIsHeld(driver, procs', call)
  <2>1. ASSUME NEW b, driver.child # 0, ChildIs(driver, procs, b) PROVE ChildIs(driver, procs', b)
    BY <1>7, <1>8, <2>1 DEF ChildIs
  <2>2. WhatPlaysIsHeld(driver, procs, call)
    BY DEF StartInv
  <2>3. call.local # 0 => procs'[call.local].kind = procs[call.local].kind
    BY <1>7, <1>8
  <2> QED BY <1>6, <2>1, <2>2, <2>3 DEF WhatPlaysIsHeld
<1>11. WhatPlaysIsHeld(driver, procs, call)'
  BY <1>1, <1>5, <1>10 DEF WhatPlaysIsHeld, NothingInside, LivingOf, ChildIs, Start!NoEngine, Start!None
<1>12. \A q \in StartProcesses : Fitted(procs'[q])
  <2> SUFFICES ASSUME NEW q \in StartProcesses PROVE Fitted(procs'[q])
    OBVIOUS
  <2>1. Fitted(procs[q])
    BY DEF StartInv, AllFitted
  <2> QED BY <1>3, <2>1 DEF Fitted
<1>13. AllFitted(driver, procs)'
  BY <1>1, <1>5, <1>12 DEF StartInv, AllFitted, Fitted, Start!NoEngine, Start!None
<1>14. InSight(driver, call)'
  BY <1>1, <1>5 DEF StartInv, InSight, OnTop, Start!OnSurface, Start!NoEngine, Start!None
<1> QED BY <1>9, <1>11, <1>13, <1>14 DEF StartInv

LEMMA StartBegins == Start!Init => StartInv
<1> SUFFICES ASSUME Start!Init PROVE StartInv
  OBVIOUS
<1>1. PICK s \in StartSettings :
        options = Start!From(s, IF Start!Android THEN Head(Start!Ladder(s)) ELSE "soft", FALSE)
  BY DEF Start!Init
<1>2. /\ built \in StartBuilds /\ surface = [visible |-> FALSE, top |-> FALSE, upgrade |-> FALSE]
      /\ channel = FALSE /\ driver = Start!Stopped /\ procs = [p \in StartProcesses |-> Start!NoProcess]
      /\ call = Start!Idle /\ starts = 0
  BY DEF Start!Init, Start!Hidden
<1>3. Head(Start!Ladder(s)) \in Surfaces
  <2>1. Start!Ladder(s) \in Seq(Surfaces) /\ Start!Ladder(s) # <<>>
    BY <1>2, LadderIs
  <2> QED BY <2>1
<1>4. options \in OptionsType /\ options.wid = FALSE
  BY <1>1, <1>3, FromIs DEF Surfaces
<1>5. Start!NoProcess = [kind |-> "none", alive |-> FALSE, asked |-> FALSE, via |-> FALSE, limited |-> FALSE]
  BY DEF Start!NoProcess, Start!None
<1>6. procs \in [StartProcesses -> ProcessType] /\ LivingOf(procs) = {}
      /\ \A p \in StartProcesses : Fitted(procs[p])
  <2>1. Start!NoProcess \in ProcessType /\ Start!NoProcess.alive = FALSE /\ Fitted(Start!NoProcess)
    BY <1>5 DEF ProcessType, Fitted
  <2> QED BY <1>2, <2>1 DEF LivingOf
<1>7. StartTyped
  <2>1. starts \in 0 .. StartPlays
    BY <1>2, StartAssumption
  <2>2. surface \in SurfaceType
    BY <1>2 DEF SurfaceType
  <2> QED BY <1>2, <1>4, <1>6, <2>1, <2>2, StoppedTyped, IdleTyped DEF StartTyped
<1>8. WhatPlaysIsHeld(driver, procs, call)
  BY <1>2, <1>6, StoppedTyped, IdleTyped DEF WhatPlaysIsHeld, NothingInside
<1>9. AllFitted(driver, procs)
  BY <1>2, <1>6, StoppedTyped DEF AllFitted
<1>10. InSight(driver, call)
  BY <1>2, <1>4, StoppedTyped, IdleTyped DEF InSight, OnTop
<1> QED BY <1>7, <1>8, <1>9, <1>10 DEF StartInv

LEMMA StartStep == StartInv /\ [Start!Next]_Start!vars => StartInv'
<1> SUFFICES ASSUME StartInv, [Start!Next]_Start!vars PROVE StartInv'
  OBVIOUS
<1>1. CASE UNCHANGED Start!vars
  BY <1>1 DEF Start!vars, StartInv, StartTyped, WhatPlaysIsHeld, AllFitted, Fitted, InSight, OnTop, LivingOf, ChildIs,
              NothingInside, Start!Android, Start!Takes, Start!OnSurface, Start!NoEngine, Start!None
<1>2. CASE \E s \in StartSettings : Start!Open(s) \/ Start!ResyncPlayerOptions(s)
  BY <1>2, OpenHolds, ResyncHolds
<1>3. CASE (Start!Attempt \/ Start!Watch \/ Start!Look) /\ UNCHANGED <<built, options, surface, channel, starts>>
  BY <1>3, PlayStepHolds
<1>4. CASE Start!Restart \/ Start!Stop \/ Start!Intent
  BY <1>4, RestartHolds, StopHolds, IntentHolds
<1>5. CASE \E p \in StartProcesses : Start!ProcessEnds(p)
  BY <1>5, EndHolds
<1> QED BY <1>1, <1>2, <1>3, <1>4, <1>5 DEF Start!Next

LEMMA StartHolds == Start!Spec => []StartInv
BY StartBegins, StartStep, PTL DEF Start!Spec

-----------------------------------------------------------------------------
\* An engine of what plays, and how many there are.
LEMMA EnginesAre ==
  ASSUME StartInv
  PROVE  /\ \A e \in Start!Engines : Fitted(e)
         /\ Start!Living = LivingOf(procs)
         /\ NothingInside(driver) /\ LivingOf(procs) = {} => Start!Engines = {}
<1>1. \A e \in Start!Engines :
        \/ e = driver.mpv /\ e # Start!NoEngine
        \/ e = driver.av /\ e # Start!NoEngine
        \/ \E p \in LivingOf(procs) : e = procs[p]
  BY DEF Start!Engines, Start!Living, LivingOf
<1>2. \A e \in Start!Engines : Fitted(e)
  <2>1. /\ driver.mpv # Start!NoEngine => Fitted(driver.mpv)
        /\ driver.av # Start!NoEngine => Fitted(driver.av)
        /\ \A p \in LivingOf(procs) : Fitted(procs[p])
    BY DEF StartInv, AllFitted, LivingOf
  <2> QED BY <1>1, <2>1
<1>3. NothingInside(driver) /\ LivingOf(procs) = {} => Start!Engines = {}
  BY <1>1 DEF NothingInside
<1> QED BY <1>2, <1>3 DEF Start!Living, LivingOf

LEMMA AloneMeansOne == ASSUME NEW S, NEW x, S \subseteq {x} PROVE IsFiniteSet(S) /\ Cardinality(S) \in 0 .. 1
<1>1. CASE S = {}
  BY <1>1, FS_EmptySet
<1>2. CASE S = {x}
  BY <1>2, FS_Singleton
<1> QED BY <1>1, <1>2

LEMMA OneIsInHand == StartInv => Start!OneEngine
<1> SUFFICES ASSUME StartInv PROVE Start!OneEngine
  OBVIOUS
<1> DEFINE inside == {e \in {driver.mpv, driver.av} : e # Start!NoEngine}
<1>1. call.at \in {"idle", "attempt", "watch", "look", "intent"} /\ 0 \notin StartProcesses
  BY StartAssumption DEF StartInv, StartTyped, CallType
<1>2. LivingOf(procs) \subseteq {driver.child, call.local}
  BY <1>1 DEF StartInv, WhatPlaysIsHeld
<1>3. \E x \in Process : LivingOf(procs) \subseteq {x}
  <2>1. driver.child \in Process /\ call.local \in Process
    BY DEF StartInv, StartTyped, NativeType, CallType
  <2> QED BY <1>1, <2>1 DEF StartInv, WhatPlaysIsHeld
<1>4. NothingInside(driver) \/ LivingOf(procs) = {}
  <2>1. CASE call.at \in {"attempt", "watch", "look"}
    BY <2>1 DEF StartInv, WhatPlaysIsHeld
  <2>2. CASE call.at \in {"idle", "intent"}
    <3>1. LivingOf(procs) \subseteq {driver.child} /\ (driver.child # 0 => NothingInside(driver))
      BY <2>2 DEF StartInv, WhatPlaysIsHeld
    <3> QED BY <1>1, <3>1 DEF LivingOf
  <2> QED BY <1>1, <2>1, <2>2
<1>5. \E x : inside \subseteq {x}
  BY DEF StartInv, WhatPlaysIsHeld
<1>6. NothingInside(driver) => inside = {}
  BY DEF NothingInside
<1> HIDE DEF inside
<1>7. Cardinality(inside) \in 0 .. 1 /\ Cardinality(LivingOf(procs)) \in 0 .. 1
  BY <1>3, <1>5, AloneMeansOne
<1>8. Cardinality(inside) = 0 \/ Cardinality(LivingOf(procs)) = 0
  BY <1>4, <1>6, FS_EmptySet
<1>9. Cardinality(inside) + Cardinality(LivingOf(procs)) <= 1
  BY <1>7, <1>8
<1>10. Start!Living = LivingOf(procs)
  BY EnginesAre
<1>11. /\ Start!Cardinality(inside) = Cardinality(inside)
       /\ Start!Cardinality(LivingOf(procs)) = Cardinality(LivingOf(procs))
  BY DEF Start!Cardinality, Cardinality
<1>12. Start!Cardinality(inside) + Start!Cardinality(Start!Living) <= 1
  BY <1>9, <1>10, <1>11
<1> QED BY <1>2, <1>10, <1>12 DEF Start!OneEngine, inside

LEMMA LabelIsTrue == StartInv => Start!SaysWhatPlays
<1> SUFFICES ASSUME StartInv PROVE Start!SaysWhatPlays
  OBVIOUS
<1>1. ASSUME Start!AtRest("ok")
      PROVE  Start!DisplayLabel = IF driver.mpv # Start!NoEngine THEN "libmpv"
                                  ELSE IF driver.av # Start!NoEngine THEN "libav"
                                  ELSE IF driver.child # 0 THEN procs[driver.child].kind ELSE "external"
  <2>1. /\ driver.child # 0 => NothingInside(driver)
        /\ IF driver.child # 0 THEN ChildIs(driver, procs, driver.backend) ELSE driver.ipc = 0
        /\ NothingInside(driver) /\ driver.child = 0 => driver.backend = "external"
    BY <1>1 DEF StartInv, WhatPlaysIsHeld, Start!AtRest
  <2>2. CASE driver.child # 0
    <3>1. NothingInside(driver) /\ ChildIs(driver, procs, driver.backend)
      BY <2>1, <2>2
    <3>2. CASE driver.backend = "mpv"
      <4>1. driver.ipc = driver.child /\ procs[driver.child].kind = "mpv"
        BY <3>1, <3>2 DEF ChildIs
      <4> QED BY <2>2, <3>1, <4>1 DEF Start!DisplayLabel, NothingInside
    <3>3. CASE driver.backend = "ffmpeg"
      <4>1. driver.ipc = 0 /\ procs[driver.child].kind = "ffplay"
        BY <3>1, <3>3 DEF ChildIs
      <4> QED BY <2>2, <3>1, <3>3, <4>1 DEF Start!DisplayLabel, NothingInside
    <3> QED BY <3>1, <3>2, <3>3 DEF ChildIs
  <2>3. CASE driver.child = 0
    BY <2>1, <2>3 DEF Start!DisplayLabel, NothingInside
  <2> QED BY <2>2, <2>3
<1>2. ASSUME Start!AtRest("err") \/ Start!AtRest(Start!None) PROVE Start!Engines = {}
  <2>1. NothingInside(driver) /\ LivingOf(procs) = {}
    BY <1>2 DEF StartInv, WhatPlaysIsHeld, Start!AtRest, Start!None
  <2> QED BY <2>1, EnginesAre
<1>3. /\ driver.pump <=> driver.mpv # Start!NoEngine /\ driver.mpv.vo = "libmpv"
      /\ driver.avPump <=> driver.av # Start!NoEngine
  BY DEF StartInv, AllFitted
<1> QED BY <1>1, <1>2, <1>3 DEF Start!SaysWhatPlays

LEMMA ShownIsSeen ==
  StartInv => Start!ThroughTheProxy /\ Start!FramesAreRead /\ Start!PictureIsSeen /\ Start!TypeOK
<1> SUFFICES ASSUME StartInv
             PROVE  Start!ThroughTheProxy /\ Start!FramesAreRead /\ Start!PictureIsSeen /\ Start!TypeOK
  OBVIOUS
<1>1. Start!ThroughTheProxy
  BY EnginesAre DEF Fitted, Start!ThroughTheProxy
<1>2. Start!FramesAreRead
  BY DEF StartInv, AllFitted, Start!FramesAreRead
<1>3. Start!PictureIsSeen
  BY DEF StartInv, InSight, OnTop, Start!PictureIsSeen, Start!AtRest
<1>4. Start!TypeOK
  <2>1. /\ driver.child \in Process /\ driver.ipc \in Process /\ driver.backend \in Routes \cup {"none"}
        /\ call.local \in Process /\ call.at \in {"idle", "attempt", "watch", "look", "intent"}
        /\ starts \in 0 .. StartPlays
    BY DEF StartInv, StartTyped, NativeType, CallType
  <2> QED BY <2>1 DEF Start!TypeOK, Process, Routes, Start!None
<1> QED BY <1>1, <1>2, <1>3, <1>4

\* The state that starts an engine has its type, for any builds and settings, any
\* processes and any number of plays.
THEOREM StartIsTyped == Start!Spec => []Start!TypeOK
BY StartHolds, ShownIsSeen, PTL

\* NativePlayer::play, its attempts, its watches and its fallbacks: at no moment do two
\* engines play and no process is out of the player's hands; after an answer the player
\* names what plays and feeds the stage from it; whatever plays goes through the tunnel
\* when it is asked to; the frames the program draws can be read, and on Android the
\* picture is on the surface in front, or in an interface with nothing before it.
THEOREM WhatStartsIsShown ==
  Start!Spec => [](/\ Start!OneEngine /\ Start!SaysWhatPlays /\ Start!ThroughTheProxy
                   /\ Start!FramesAreRead /\ Start!PictureIsSeen)
<1>1. StartInv => /\ Start!OneEngine /\ Start!SaysWhatPlays /\ Start!ThroughTheProxy
                  /\ Start!FramesAreRead /\ Start!PictureIsSeen
  BY OneIsInHand, LabelIsTrue, ShownIsSeen
<1> QED BY <1>1, StartHolds, PTL
-----------------------------------------------------------------------------
(***************************************************************************)
(* The window of the player.  The argument for its stage: whenever the     *)
(* size of the window is not that of the stage, a late question, a         *)
(* question, an event or an answer of that size is on its way (Tracked);   *)
(* an event is dropped only while the stage is kept, and then a late       *)
(* question outlasts that (Resettles).  For its flags: the last order for  *)
(* a mode is of the mode the controls tell, and without one the window is  *)
(* in it (ModeTold).                                                       *)
(***************************************************************************)
CONSTANTS
  WindowSizes, OpeningSize, SmallSize, ScreenSize, MainSize, QualitySize,
  FreezeTime, SettleTime, WindowWaits, WindowFaults

\* Sizes are pairs; a mode has settled before the window is asked for its size again.
ASSUME WindowAssumption ==
  /\ WindowSizes \subseteq Nat \X Nat
  /\ OpeningSize \in Nat \X Nat /\ SmallSize \in Nat \X Nat /\ ScreenSize \in Nat \X Nat
  /\ MainSize \in (Nat \ {0}) \X (Nat \ {0}) /\ QualitySize \in (Nat \ {0}) \X (Nat \ {0})
  /\ FreezeTime \in Nat /\ SettleTime \in Nat /\ FreezeTime < SettleTime

VARIABLES win, orders, events, asked, answers, flags, rect, frame, freeze, dirty

Window == INSTANCE PlayerWindow WITH
  Sizes <- WindowSizes, Opening <- OpeningSize, Small <- SmallSize, Screen <- ScreenSize,
  Main <- MainSize, Quality <- QualitySize, Freeze <- FreezeTime, Settle <- SettleTime,
  MaxWaits <- WindowWaits, Faults <- WindowFaults

\* No size stands upright: neither the constants nor, without "portrait", what the
\* user makes of the window.
AllLie ==
  /\ "portrait" \notin WindowFaults
  /\ \A s \in {OpeningSize, SmallSize, ScreenSize, MainSize} : Window!Wide(s)
Spans == {s \in Nat \X Nat : AllLie => Window!Wide(s)}
Orders ==
  [do : {"mode"}, to : {"windowed", "fullscreen"}] \cup [do : {"size"}, to : {OpeningSize, SmallSize}]

\* The stage of any window has a size, and lies when that does.
LEMMA StageOfASize ==
  ASSUME NEW s \in Spans
  PROVE  /\ Window!Stage(s) \in Spans /\ Window!Stage(s)[1] > 0 /\ Window!Stage(s)[2] > 0
         /\ Window!Stage(s) # Window!NoSize
<1> DEFINE a == IF s[1] < 160 THEN 160 ELSE s[1]
           b == IF s[2] < 120 THEN 120 ELSE s[2]
<1>1. s[1] \in Nat /\ s[2] \in Nat BY DEF Spans
<1>2. a \in Nat /\ b \in Nat /\ a > 1 /\ b > 1 BY <1>1
<1>3. Window!Stage(s) = <<Window!Even(a), Window!Even(b)>> BY DEF Window!Stage
<1> HIDE DEF a, b
<1>4. /\ Window!Even(a) \in Nat /\ Window!Even(b) \in Nat /\ Window!Even(a) > 0 /\ Window!Even(b) > 0
      /\ a >= b => Window!Even(a) >= Window!Even(b)
  BY <1>2 DEF Window!Even
<1>5. AllLie => a >= b BY <1>1 DEF Spans, Window!Wide, a, b
<1> QED BY <1>3, <1>4, <1>5 DEF Spans, Window!Wide, Window!NoSize

\* A size keeps itself.
LEMMA KeepsItself ==
  ASSUME NEW s, s[1] \in Nat, s[2] \in Nat PROVE Window!SameShape(s, s) /\ Window!Keeps(s, s)
<1>1. s[1] * s[2] \in Nat OBVIOUS
<1>2. Window!Abs(s[1] * s[2] - s[1] * s[2]) = 0 BY <1>1 DEF Window!Abs
<1>3. 5 * s[1] * s[2] >= 0 BY <1>1
<1>4. Window!SameShape(s, s) BY <1>2, <1>3 DEF Window!SameShape
<1>5. Window!Abs(s[1] - s[1]) = 0 /\ Window!Abs(s[2] - s[2]) = 0 BY DEF Window!Abs
<1> QED BY <1>4, <1>5 DEF Window!Keeps, Window!Near

\* So does the largest picture of its shape.
LEMMA CappedIsASize ==
  ASSUME NEW s, s[1] \in Nat, s[2] \in Nat, s[1] > 0, s[2] > 0
  PROVE  Window!Capped(s)[1] \in Nat /\ Window!Capped(s)[2] \in Nat
<1> DEFINE q == QualitySize
<1>1. q[1] \in Nat /\ q[2] \in Nat BY WindowAssumption
<1>2. \A x \in Nat : Window!Even(x) \in Nat BY DEF Window!Even
<1>3. ASSUME NEW x \in Nat, NEW y \in Nat, y > 0 PROVE x \div y \in Nat BY <1>3
<1>4. s[2] * q[1] \in Nat /\ s[1] * q[2] \in Nat BY <1>1
<1>5. /\ Window!Even((s[2] * q[1]) \div s[1]) \in Nat
      /\ Window!Even((s[1] * q[2]) \div s[2]) \in Nat
  BY <1>2, <1>3, <1>4
<1> QED BY <1>1, <1>5 DEF Window!Capped

-----------------------------------------------------------------------------
WinTyped(w) ==
  /\ DOMAIN w = {"open", "size", "normal", "mode", "level"}
  /\ w.size \in Spans /\ w.normal \in Spans
  /\ w.mode \in {"windowed", "fullscreen"} /\ w.level \in {"normal", "top"}

WindowTyped ==
  /\ WinTyped(win) /\ orders \in Seq(Orders)
  /\ events \in Seq(Spans) /\ asked \in Nat /\ answers \in Seq(Spans)
  /\ DOMAIN flags = {"fullscreen", "pip", "ontop"}
  /\ freeze \in 0..FreezeTime /\ dirty \subseteq 0..SettleTime
  /\ rect \in Spans /\ (rect # Window!NoSize => rect[1] > 0 /\ rect[2] > 0)
  /\ ~win.open => orders = <<>> /\ events = <<>> /\ asked = 0 /\ answers = <<>> /\ dirty = {}

\* A late question outlasts the time the stage is kept.
Resettles == win.open /\ freeze > 0 => \E d \in dirty : d > freeze

\* Something is still to bring the stage the size of the window, or it has it.
Tracked ==
  win.open =>
    \/ dirty # {} \/ asked > 0 \/ events # <<>>
    \/ answers # <<>> /\ answers[Len(answers)] = win.size
    \/ answers = <<>> /\ rect # Window!NoSize /\ Window!Keeps(rect, Window!Stage(win.size))

\* The mode the controls tell is that of the last order, or else that of the window.
Told == IF flags.fullscreen THEN "fullscreen" ELSE "windowed"
ModeTold ==
  /\ \A i \in 1..Len(orders) :
       orders[i].do = "mode" /\ (\A j \in 1..Len(orders) : j > i => orders[j].do # "mode") =>
         orders[i].to = Told
  /\ win.open /\ (\A i \in 1..Len(orders) : orders[i].do # "mode") => win.mode = Told
LevelTold ==
  IF win.open THEN flags.ontop <=> win.level = "top" ELSE ~flags.ontop

LEMMA SomeSpans ==
  /\ Window!NoSize \in Spans /\ OpeningSize \in Spans /\ SmallSize \in Spans /\ ScreenSize \in Spans
  /\ <<>> \in Seq(Spans) /\ <<>> \in Seq(Orders)
<1>1. Window!NoSize \in Spans BY DEF Window!NoSize, Spans, Window!Wide
<1> QED BY <1>1, WindowAssumption DEF Spans, AllLie

LEMMA WindowInit == Window!Init => WindowTyped /\ Resettles /\ Tracked /\ ModeTold /\ LevelTold
<1> SUFFICES ASSUME Window!Init PROVE WindowTyped /\ Resettles /\ Tracked /\ ModeTold /\ LevelTold OBVIOUS
<1>1. /\ DOMAIN win = {"open", "size", "normal", "mode", "level"} /\ ~win.open
      /\ win.size = Window!NoSize /\ win.normal = Window!NoSize /\ win.mode = "windowed" /\ win.level = "normal"
  BY DEF Window!Init, Window!NoWindow
<1>2. WindowTyped
  <2>1. WinTyped(win) BY <1>1, SomeSpans DEF WinTyped
  <2> QED BY <2>1, SomeSpans, WindowAssumption DEF Window!Init, WindowTyped
<1>3. Resettles /\ Tracked BY <1>1 DEF Resettles, Tracked
<1>4. ModeTold /\ LevelTold BY <1>1 DEF Window!Init, ModeTold, LevelTold
<1> QED BY <1>2, <1>3, <1>4

LEMMA WindowKeepsTypes ==
  ASSUME WindowTyped, [Window!Next]_(Window!vars) PROVE WindowTyped'
<1> USE DEF WindowTyped
<1>1. CASE Window!Open
  <2>1. WinTyped(win') /\ win'.open BY <1>1, SomeSpans DEF Window!Open, Window!NoWindow, WinTyped
  <2>2. asked' = asked + 1 /\ UNCHANGED <<orders, events, answers, dirty, rect, frame, freeze>>
    BY <1>1 DEF Window!Open, Window!Asks, Window!sizeVars
  <2>3. DOMAIN flags' = {"fullscreen", "pip", "ontop"} BY <1>1 DEF Window!Open
  <2> QED BY <2>1, <2>2, <2>3
<1>2. CASE Window!Close
  <2>1. WinTyped(win') /\ ~win'.open BY <1>2, SomeSpans DEF Window!Close, Window!NoWindow, WinTyped
  <2>2. DOMAIN flags' = {"fullscreen", "pip", "ontop"} BY <1>2 DEF Window!Close
  <2> QED BY <1>2, <2>1, <2>2, SomeSpans DEF Window!Close
<1>3. CASE Window!ToggleFullscreen
  <2>1. \E o \in Orders : orders' = Append(orders, o)
    <3> DEFINE o == [do |-> "mode", to |-> IF flags.fullscreen THEN "windowed" ELSE "fullscreen"]
    <3>1. o \in Orders BY DEF Orders
    <3>2. orders' = Append(orders, o) BY <1>3 DEF Window!ToggleFullscreen, Window!Order
    <3> QED BY <3>1, <3>2
  <2>2. orders' \in Seq(Orders) BY <2>1
  <2>3. /\ DOMAIN flags' = {"fullscreen", "pip", "ontop"} /\ freeze' = FreezeTime
        /\ dirty' = dirty \cup {SettleTime} /\ win.open
        /\ UNCHANGED <<win, events, asked, answers, rect, frame>>
    BY <1>3 DEF Window!ToggleFullscreen, Window!Settles, Window!sizeVars
  <2> QED BY <2>2, <2>3, WindowAssumption
<1>4. CASE Window!TogglePip
  <2>1. \E o \in Orders : orders' = Append(orders, o)
    <3> DEFINE o == [do |-> "size", to |-> IF flags.pip THEN OpeningSize ELSE SmallSize]
    <3>1. o \in Orders BY DEF Orders
    <3>2. orders' = Append(orders, o) BY <1>4 DEF Window!TogglePip, Window!Order
    <3> QED BY <3>1, <3>2
  <2>2. orders' \in Seq(Orders) BY <2>1
  <2>3. /\ DOMAIN flags' = {"fullscreen", "pip", "ontop"} /\ freeze' = FreezeTime
        /\ dirty' = dirty \cup {SettleTime} /\ win.open
        /\ UNCHANGED <<events, asked, answers, rect, frame>>
    BY <1>4 DEF Window!TogglePip, Window!Settles, Window!sizeVars
  <2>4. WinTyped(win') /\ win'.open BY <1>4 DEF Window!TogglePip, WinTyped
  <2> QED BY <2>2, <2>3, <2>4, WindowAssumption
<1>5. CASE Window!ToggleOntop
  <2>1. WinTyped(win') /\ win'.open BY <1>5 DEF Window!ToggleOntop, WinTyped
  <2>2. DOMAIN flags' = {"fullscreen", "pip", "ontop"} BY <1>5 DEF Window!ToggleOntop
  <2> QED BY <1>5, <2>1, <2>2 DEF Window!ToggleOntop, Window!askVars, Window!sizeVars
<1>6. CASE Window!Acts
  <2> DEFINE o == Head(orders)
  <2>1. orders # <<>> /\ o \in Orders /\ Tail(orders) \in Seq(Orders) BY <1>6 DEF Window!Acts
  <2>2. win.open BY <2>1
  <2>3. o.do = "size" => o.to \in Spans BY <2>1, SomeSpans DEF Orders
  <2>4. WinTyped(win') /\ win'.open
    <3>1. PICK full \in BOOLEAN, normal \in Spans :
            win' = [win EXCEPT !.mode = IF full THEN "fullscreen" ELSE "windowed",
                               !.normal = normal, !.size = IF full THEN ScreenSize ELSE normal]
      BY <1>6, <2>3 DEF Window!Acts, WinTyped
    <3> QED BY <2>2, <3>1, SomeSpans DEF WinTyped
  <2>5. events' \in Seq(Spans)
    <3>1. events' = events \/ events' = Append(events, win'.size) BY <1>6 DEF Window!Acts, Window!Tells
    <3>2. win'.size \in Spans BY <2>4 DEF WinTyped
    <3>3. Append(events, win'.size) \in Seq(Spans) BY <3>2
    <3> QED BY <3>1, <3>3
  <2>6. orders' = Tail(orders) /\ UNCHANGED <<asked, answers, dirty, flags, rect, frame, freeze>>
    BY <1>6 DEF Window!Acts, Window!askVars, Window!sizeVars
  <2> QED BY <2>1, <2>4, <2>5, <2>6
<1>7. ASSUME NEW size \in WindowSizes, Window!UserResizes(size) PROVE WindowTyped'
  <2>1. size \in Spans
    BY <1>7, WindowAssumption DEF Window!UserResizes, Spans, AllLie
  <2>2. WinTyped(win') /\ win'.open BY <1>7, <2>1 DEF Window!UserResizes, WinTyped
  <2>3. events' \in Seq(Spans) BY <1>7, <2>1 DEF Window!UserResizes, Window!Tells
  <2> QED BY <1>7, <2>2, <2>3 DEF Window!UserResizes, Window!askVars, Window!sizeVars
<1>8. CASE Window!Measure
  <2>1. /\ win.open /\ asked' = asked - 1 /\ asked > 0 /\ answers' = Append(answers, win.size)
        /\ UNCHANGED <<win, orders, events, dirty, flags, rect, frame, freeze>>
    BY <1>8 DEF Window!Measure, Window!windowVars, Window!sizeVars
  <2> QED BY <2>1 DEF WinTyped
<1>9. CASE Window!WindowResized
  <2>1. /\ events # <<>> /\ events' = Tail(events) /\ asked' \in {asked, asked + 1}
        /\ UNCHANGED <<win, orders, answers, dirty, flags, rect, frame, freeze>>
    BY <1>9 DEF Window!WindowResized, Window!Asks, Window!askVars, Window!sizeVars
  <2> QED BY <2>1
<1>10. CASE Window!LayoutDirty
  <2>1. /\ dirty # {} /\ dirty' = dirty \ {0} /\ asked' = asked + 1
        /\ UNCHANGED <<win, orders, events, answers, flags, rect, frame, freeze>>
    BY <1>10 DEF Window!LayoutDirty, Window!windowVars, Window!sizeVars
  <2>2. asked \in Nat /\ dirty \subseteq 0..SettleTime /\ (~win.open => dirty = {}) OBVIOUS
  <2>3. win.open BY <2>1, <2>2
  <2>4. dirty' \subseteq 0..SettleTime BY <2>1, <2>2
  <2>5. asked' \in Nat BY <2>1, <2>2
  <2> QED BY <2>1, <2>3, <2>4, <2>5
<1>11. CASE Window!PlayerLayout
  <2> DEFINE new == Window!Stage(Head(answers))
  <2>1. /\ answers # <<>> /\ answers' = Tail(answers) /\ rect' \in {rect, new}
        /\ UNCHANGED <<win, orders, events, asked, dirty, flags, freeze>>
    BY <1>11 DEF Window!PlayerLayout, Window!windowVars
  <2>2. Head(answers) \in Spans BY <2>1
  <2>3. new \in Spans /\ new[1] > 0 /\ new[2] > 0 BY <2>2, StageOfASize
  <2> QED BY <2>1, <2>3
<1>12. CASE Window!Pull
  <2>1. UNCHANGED <<win, orders, events, asked, answers, dirty, flags, rect, freeze>>
    BY <1>12 DEF Window!Pull, Window!windowVars, Window!askVars
  <2> QED BY <2>1
<1>13. CASE Window!Tick
  <2>1. freeze' \in 0..FreezeTime
    <3>1. freeze' = IF freeze = 0 THEN 0 ELSE freeze - 1 BY <1>13 DEF Window!Tick, Window!Less
    <3>2. freeze \in 0..FreezeTime /\ FreezeTime \in Nat BY WindowAssumption
    <3> QED BY <3>1, <3>2
  <2>2. dirty' \subseteq 0..SettleTime
    <3>1. dirty' = {d - 1 : d \in dirty} /\ 0 \notin dirty BY <1>13 DEF Window!Tick
    <3>2. \A d \in dirty : d - 1 \in 0..SettleTime BY <3>1, WindowAssumption
    <3> QED BY <3>1, <3>2
  <2>3. dirty = {} => dirty' = {} BY <1>13 DEF Window!Tick
  <2> QED BY <1>13, <2>1, <2>2, <2>3 DEF Window!Tick, Window!windowVars, Window!sizeVars
<1>14. CASE UNCHANGED Window!vars BY <1>14 DEF Window!vars
<1> QED BY <1>1, <1>2, <1>3, <1>4, <1>5, <1>6, <1>7, <1>8, <1>9, <1>10, <1>11, <1>12, <1>13, <1>14
  DEF Window!Next

LEMMA WindowTracks ==
  ASSUME WindowTyped, Resettles, Tracked, "fast" \notin WindowFaults, [Window!Next]_(Window!vars)
  PROVE  Resettles' /\ Tracked'
<1>0. /\ dirty \subseteq 0..SettleTime /\ freeze \in 0..FreezeTime /\ asked \in Nat
      /\ events \in Seq(Spans) /\ answers \in Seq(Spans)
      /\ ~win.open => orders = <<>> /\ events = <<>> /\ asked = 0 /\ answers = <<>> /\ dirty = {}
  BY DEF WindowTyped
<1>1. CASE Window!Open
  <2>1. freeze' = 0 /\ asked' = asked + 1
    BY <1>1 DEF Window!Open, Window!Asks
  <2> QED BY <1>0, <2>1 DEF Resettles, Tracked
<1>2. CASE Window!Close
  <2>1. ~win'.open BY <1>2 DEF Window!Close, Window!NoWindow
  <2> QED BY <2>1 DEF Resettles, Tracked
<1>3. CASE Window!ToggleFullscreen \/ Window!TogglePip
  <2>1. freeze' = FreezeTime /\ SettleTime \in dirty'
    BY <1>3 DEF Window!ToggleFullscreen, Window!TogglePip, Window!Settles
  <2> QED BY <2>1, WindowAssumption DEF Resettles, Tracked
<1>4. CASE Window!Acts \/ \E size \in WindowSizes : Window!UserResizes(size)
  <2>1. UNCHANGED <<asked, answers, dirty, rect, freeze>>
    BY <1>4 DEF Window!Acts, Window!UserResizes, Window!askVars, Window!sizeVars
  <2>2. win'.open = win.open
    BY <1>4 DEF Window!Acts, Window!UserResizes, WindowTyped, WinTyped
  <2>3. \/ win'.size = win.size /\ events' = events
        \/ events' = Append(events, win'.size)
    <3>1. CASE Window!Acts BY <3>1 DEF Window!Acts, Window!Tells
    <3>2. ASSUME NEW size \in WindowSizes, Window!UserResizes(size)
          PROVE  events' = Append(events, size) /\ win'.size = size
      BY <3>2 DEF Window!UserResizes, Window!Tells, WindowTyped, WinTyped
    <3> QED BY <1>4, <3>1, <3>2
  <2>4. CASE events' = Append(events, win'.size)
    <3>1. events' # <<>> BY <1>0, <2>4
    <3> QED BY <2>1, <2>2, <3>1 DEF Resettles, Tracked
  <2>5. CASE win'.size = win.size /\ events' = events
    BY <2>1, <2>2, <2>5 DEF Resettles, Tracked
  <2> QED BY <2>3, <2>4, <2>5
<1>5. CASE Window!Measure
  <2>1. /\ asked' = asked - 1 /\ answers' = Append(answers, win.size)
        /\ UNCHANGED <<win, orders, events, dirty, flags, rect, frame, freeze>>
    BY <1>5 DEF Window!Measure, Window!windowVars, Window!sizeVars
  <2>2. win.size \in Spans BY DEF WindowTyped, WinTyped
  <2>3. answers' # <<>> /\ answers'[Len(answers')] = win.size BY <1>0, <2>1, <2>2
  <2> QED BY <2>1, <2>3 DEF Resettles, Tracked
<1>6. CASE Window!WindowResized
  <2>1. /\ events # <<>>
        /\ IF freeze > 0 /\ (rect # Window!NoSize => Window!Wide(rect) = Window!Wide(Head(events)))
           THEN asked' = asked ELSE asked' = asked + 1
        /\ UNCHANGED <<win, dirty, freeze>>
    BY <1>6 DEF Window!WindowResized, Window!Asks, Window!askVars
  <2>2. win.open BY <1>0, <2>1
  <2>3. freeze > 0 => dirty # {} BY <2>2 DEF Resettles
  <2>4. asked' > 0 \/ dirty' # {} BY <1>0, <2>1, <2>3
  <2> QED BY <2>1, <2>4 DEF Resettles, Tracked
<1>7. CASE Window!LayoutDirty
  <2>1. asked' = asked + 1 /\ dirty' = dirty \ {0} /\ UNCHANGED <<win, freeze>>
    BY <1>7 DEF Window!LayoutDirty, Window!windowVars
  <2>2. Resettles'
    <3> SUFFICES ASSUME win.open, freeze > 0 PROVE \E d \in dirty' : d > freeze
      BY <2>1 DEF Resettles
    <3>1. PICK d \in dirty : d > freeze BY DEF Resettles
    <3>2. d # 0 BY <1>0, <3>1
    <3> QED BY <2>1, <3>1, <3>2
  <2>3. asked' > 0 BY <1>0, <2>1
  <2> QED BY <2>2, <2>3 DEF Tracked
<1>8. CASE Window!PlayerLayout
  <2> DEFINE new == Window!Stage(Head(answers))
             flip == rect # Window!NoSize /\ Window!Wide(rect) # Window!Wide(new)
             sticks == freeze > 0 /\ ~flip /\ ~(rect # Window!NoSize /\ Window!Large(rect, new)) /\ ~flags.pip
  <2>1. /\ answers # <<>> /\ answers' = Tail(answers)
        /\ rect' = IF sticks \/ (rect # Window!NoSize /\ Window!Keeps(rect, new)) THEN rect ELSE new
        /\ UNCHANGED <<win, events, asked, dirty, freeze>>
    BY <1>8 DEF Window!PlayerLayout, Window!windowVars
  <2>2. win.open BY <1>0, <2>1
  <2>3. Resettles' BY <2>1 DEF Resettles
  <2>4. CASE dirty # {} \/ asked > 0 \/ events # <<>> BY <2>1, <2>3, <2>4 DEF Tracked
  <2>5. CASE dirty = {} /\ ~(asked > 0) /\ events = <<>>
    <3>1. answers[Len(answers)] = win.size BY <2>1, <2>2, <2>5 DEF Tracked
    <3>2. freeze = 0 BY <1>0, <2>2, <2>5 DEF Resettles
    <3>3. CASE Len(answers) > 1
      <4>0. /\ Len(Tail(answers)) = Len(answers) - 1
            /\ \A i \in 1..(Len(answers) - 1) : Tail(answers)[i] = answers[i + 1]
        BY <1>0, <2>1
      <4>1. Tail(answers) # <<>> /\ Tail(answers)[Len(Tail(answers))] = answers[Len(answers)]
        <5>1. Len(answers) \in Nat /\ Len(answers) - 1 \in 1..(Len(answers) - 1) BY <1>0, <3>3
        <5>2. Tail(answers)[Len(answers) - 1] = answers[Len(answers) - 1 + 1] BY <4>0, <5>1
        <5>3. Len(Tail(answers)) > 0 BY <4>0, <5>1
        <5>4. Tail(answers) # <<>> BY <5>3
        <5>5. Len(answers) - 1 + 1 = Len(answers) BY <5>1
        <5> QED BY <4>0, <5>2, <5>4, <5>5
      <4> QED BY <2>1, <2>3, <3>1, <4>1 DEF Tracked
    <3>4. CASE ~(Len(answers) > 1)
      <4>0. Len(answers) = 1
        <5>1. Len(answers) \in Nat BY <1>0
        <5>2. Len(answers) # 0 BY <1>0, <2>1, EmptySeq
        <5> QED BY <3>4, <5>1, <5>2
      <4>1. Len(answers) = 1 /\ Tail(answers) = <<>> /\ Head(answers) = win.size
        <5>1. Head(answers) = answers[1] BY <1>0, <2>1
        <5>2. Len(Tail(answers)) = 0 /\ Tail(answers) \in Seq(Spans) BY <1>0, <2>1, <4>0
        <5>3. Tail(answers) = <<>> BY <5>2, EmptySeq
        <5> QED BY <3>1, <4>0, <5>1, <5>3
      <4>2. ~sticks BY <3>2
      <4>3. new = Window!Stage(win.size) BY <4>1
      <4>4. win.size \in Spans BY DEF WindowTyped, WinTyped
      <4>5. new # Window!NoSize /\ new[1] \in Nat /\ new[2] \in Nat
        BY <4>3, <4>4, StageOfASize DEF Spans
      <4>6. Window!Keeps(new, new) BY <4>5, KeepsItself
      <4> HIDE DEF sticks, new
      <4>7. rect' # Window!NoSize /\ Window!Keeps(rect', new) BY <2>1, <4>2, <4>5, <4>6
      <4> QED BY <2>1, <2>3, <4>1, <4>3, <4>7 DEF Tracked
    <3> QED BY <3>3, <3>4
  <2> QED BY <1>0, <2>4, <2>5
<1>9. CASE Window!Tick
  <2>1. /\ 0 \notin dirty /\ freeze' = Window!Less(freeze) /\ dirty' = {d - 1 : d \in dirty}
        /\ UNCHANGED <<win, events, asked, answers, rect>>
    BY <1>9 DEF Window!Tick, Window!windowVars, Window!sizeVars
  <2>2. Resettles'
    <3> SUFFICES ASSUME win.open, freeze' > 0 PROVE \E d \in dirty' : d > freeze'
      BY <2>1 DEF Resettles
    <3>1. freeze > 0 /\ freeze' = freeze - 1 BY <1>0, <2>1, WindowAssumption DEF Window!Less
    <3>2. PICK d \in dirty : d > freeze BY <3>1 DEF Resettles
    <3>3. d - 1 > freeze' BY <1>0, <3>1, <3>2, WindowAssumption
    <3> QED BY <2>1, <3>2, <3>3
  <2>3. dirty # {} => dirty' # {} BY <2>1
  <2> QED BY <2>1, <2>2, <2>3 DEF Tracked
<1>10. CASE Window!ToggleOntop
  <2>1. /\ win'.open = win.open /\ win'.size = win.size
        /\ UNCHANGED <<events, asked, answers, dirty, rect, freeze>>
    BY <1>10 DEF Window!ToggleOntop, Window!askVars, Window!sizeVars, WindowTyped, WinTyped
  <2> QED BY <2>1 DEF Resettles, Tracked
<1>11. CASE Window!Pull \/ UNCHANGED Window!vars
  <2>1. UNCHANGED <<win, events, asked, answers, dirty, rect, freeze>>
    BY <1>11 DEF Window!Pull, Window!vars, Window!windowVars, Window!askVars
  <2> QED BY <2>1 DEF Resettles, Tracked
<1> QED BY <1>1, <1>2, <1>3, <1>4, <1>5, <1>6, <1>7, <1>8, <1>9, <1>10, <1>11 DEF Window!Next

LEMMA WindowTypes == Window!Spec => []WindowTyped
<1>1. Window!Init => WindowTyped BY WindowInit
<1>2. WindowTyped /\ [Window!Next]_(Window!vars) => WindowTyped' BY WindowKeepsTypes
<1> QED BY <1>1, <1>2, PTL DEF Window!Spec

\* However modes, sizes, questions and answers cross, the stage is in the end that of the
\* window (apply_player_layout), unless one window follows another while a mode settles.
THEOREM StageSettles == "fast" \notin WindowFaults => (Window!Spec => []Window!RectSettles)
<1> SUFFICES ASSUME "fast" \notin WindowFaults PROVE Window!Spec => []Window!RectSettles OBVIOUS
<1>1. Window!Init => Resettles /\ Tracked BY WindowInit
<1>2. WindowTyped /\ Resettles /\ Tracked /\ [Window!Next]_(Window!vars) => (Resettles /\ Tracked)'
  BY WindowTracks
<1>3. Tracked => Window!RectSettles BY DEF Tracked, Window!RectSettles, Window!Quiet
<1> QED BY <1>1, <1>2, <1>3, WindowTypes, PTL DEF Window!Spec

LEMMA NoOrders == 1..0 = {}
OBVIOUS

FlagsTold == flags.fullscreen \in BOOLEAN /\ flags.ontop \in BOOLEAN /\ ModeTold /\ LevelTold

\* One more order: only an order for a mode tells of another.
LEMMA OneMoreOrder ==
  ASSUME orders \in Seq(Orders), NEW o \in Orders, orders' = Append(orders, o), win'.open = win.open,
         win'.mode = win.mode, ModeTold, IF o.do = "mode" THEN o.to = Told' ELSE Told' = Told
  PROVE  ModeTold'
<1>1. /\ Len(orders) \in Nat /\ Len(orders') = Len(orders) + 1 /\ orders'[Len(orders) + 1] = o
      /\ \A i \in 1..Len(orders) : orders'[i] = orders[i]
  OBVIOUS
<1>2. ASSUME NEW i \in 1..Len(orders'), orders'[i].do = "mode",
             \A j \in 1..Len(orders') : j > i => orders'[j].do # "mode"
      PROVE  orders'[i].to = Told'
  <2>1. CASE i = Len(orders) + 1 BY <1>1, <1>2, <2>1
  <2>2. CASE i \in 1..Len(orders)
    <3>1. Len(orders) + 1 \in 1..Len(orders') /\ Len(orders) + 1 > i BY <1>1, <2>2
    <3>2. o.do # "mode" BY <1>1, <1>2, <3>1
    <3>3. \A j \in 1..Len(orders) : j > i => orders[j].do # "mode"
      <4> TAKE j \in 1..Len(orders)
      <4>1. j \in 1..Len(orders') /\ orders'[j] = orders[j] BY <1>1
      <4> QED BY <1>2, <4>1
    <3>4. orders[i].do = "mode" /\ orders'[i] = orders[i] BY <1>1, <1>2, <2>2
    <3>5. orders[i].to = Told BY <2>2, <3>3, <3>4 DEF ModeTold
    <3> QED BY <3>2, <3>4, <3>5
  <2> QED BY <1>1, <2>1, <2>2
<1>3. ASSUME win'.open, \A i \in 1..Len(orders') : orders'[i].do # "mode" PROVE win'.mode = Told'
  <2>1. Len(orders) + 1 \in 1..Len(orders') BY <1>1
  <2>2. o.do # "mode" BY <1>1, <1>3, <2>1
  <2>3. \A i \in 1..Len(orders) : orders[i].do # "mode"
    <3> TAKE i \in 1..Len(orders)
    <3>1. i \in 1..Len(orders') /\ orders'[i] = orders[i] BY <1>1
    <3> QED BY <1>3, <3>1
  <2> QED BY <1>3, <2>2, <2>3 DEF ModeTold
<1> QED BY <1>2, <1>3 DEF ModeTold

\* One order less: the window is in the mode it asked for.
LEMMA OneOrderLess ==
  ASSUME WindowTyped, ModeTold, Window!Acts PROVE ModeTold'
<1> DEFINE o == Head(orders)
<1>1. /\ orders \in Seq(Orders) /\ orders # <<>> /\ orders' = Tail(orders)
      /\ flags' = flags /\ win'.open = win.open
  BY DEF Window!Acts, WindowTyped, WinTyped
<1>2. /\ Len(orders) \in Nat /\ Len(orders) > 0 /\ Len(orders') = Len(orders) - 1 /\ o = orders[1] /\ o \in Orders
      /\ \A i \in 1..Len(orders') : orders'[i] = orders[i + 1]
  BY <1>1, HeadTailProperties, EmptySeq
<1>3. Told' = Told BY <1>1 DEF Told
<1>4. win'.mode = IF o.do = "mode" THEN o.to ELSE win.mode
  BY <1>2 DEF Window!Acts, WindowTyped, WinTyped, Orders
<1>5. win.open BY <1>1 DEF WindowTyped
<1> HIDE DEF o
<1>6. ASSUME NEW i \in 1..Len(orders'), \A j \in 1..Len(orders') : j > i => orders'[j].do # "mode"
      PROVE  \A j \in 1..Len(orders) : j > i + 1 => orders[j].do # "mode"
  <2> SUFFICES ASSUME NEW j \in 1..Len(orders), j > i + 1 PROVE orders[j].do # "mode" OBVIOUS
  <2>1. j - 1 \in 1..Len(orders') /\ j - 1 > i /\ j - 1 + 1 = j BY <1>2
  <2>2. orders'[j - 1] = orders[j] BY <1>2, <2>1
  <2> QED BY <1>6, <2>1, <2>2
<1>7. ASSUME NEW i \in 1..Len(orders'), orders'[i].do = "mode",
             \A j \in 1..Len(orders') : j > i => orders'[j].do # "mode"
      PROVE  orders'[i].to = Told'
  <2>1. i + 1 \in 1..Len(orders) /\ orders[i + 1] = orders'[i] BY <1>2
  <2>2. \A j \in 1..Len(orders) : j > i + 1 => orders[j].do # "mode" BY <1>6, <1>7
  <2> QED BY <1>3, <1>7, <2>1, <2>2 DEF ModeTold
<1>8. ASSUME \A i \in 1..Len(orders') : orders'[i].do # "mode" PROVE win'.mode = Told'
  <2>1. \A j \in 1..Len(orders) : j > 1 => orders[j].do # "mode"
    <3> SUFFICES ASSUME NEW j \in 1..Len(orders), j > 1 PROVE orders[j].do # "mode" OBVIOUS
    <3>1. j - 1 \in 1..Len(orders') /\ j - 1 + 1 = j BY <1>2
    <3>2. orders'[j - 1] = orders[j] BY <1>2, <3>1
    <3> QED BY <1>8, <3>1, <3>2
  <2>2. 1 \in 1..Len(orders) BY <1>2
  <2>3. CASE o.do = "mode" BY <1>2, <1>3, <1>4, <2>1, <2>2, <2>3 DEF ModeTold
  <2>4. CASE o.do # "mode"
    <3>1. \A j \in 1..Len(orders) : orders[j].do # "mode"
      <4> TAKE j \in 1..Len(orders)
      <4>1. j = 1 \/ j > 1 BY <1>2
      <4> QED BY <1>2, <2>1, <2>4, <4>1
    <3> QED BY <1>3, <1>4, <1>5, <2>4, <3>1 DEF ModeTold
  <2> QED BY <2>3, <2>4
<1> QED BY <1>7, <1>8 DEF ModeTold

LEMMA WindowTells ==
  ASSUME WindowTyped, FlagsTold, "closed in pip" \notin WindowFaults, [Window!Next]_(Window!vars)
  PROVE  FlagsTold'
<1> USE DEF FlagsTold
<1>0. /\ DOMAIN flags = {"fullscreen", "pip", "ontop"} /\ orders \in Seq(Orders)
      /\ DOMAIN win = {"open", "size", "normal", "mode", "level"} /\ win.level \in {"normal", "top"}
      /\ ~win.open => orders = <<>>
  BY DEF WindowTyped, WinTyped
<1>1. CASE Window!Open
  <2>1. /\ win'.open /\ win'.mode = "windowed" /\ win'.level = "normal"
        /\ orders' = <<>> /\ ~win.open
    BY <1>0, <1>1 DEF Window!Open, Window!NoWindow
  <2>2. ~flags'.fullscreen /\ flags'.fullscreen \in BOOLEAN /\ flags'.ontop = flags.ontop
    BY <1>0, <1>1 DEF Window!Open
  <2>3. 1..Len(orders') = {}
    <3>1. Len(orders') = 0 BY <2>1
    <3> QED BY <3>1, NoOrders
  <2>4. ModeTold' BY <2>1, <2>2, <2>3 DEF ModeTold, Told
  <2>5. LevelTold' BY <2>1, <2>2 DEF LevelTold
  <2> QED BY <2>2, <2>4, <2>5
<1>2. CASE Window!Close
  <2>1. ~win'.open /\ orders' = <<>> /\ ~flags.ontop BY <1>2 DEF Window!Close, Window!NoWindow
  <2>2. flags'.fullscreen \in BOOLEAN /\ flags'.ontop = flags.ontop BY <1>0, <1>2 DEF Window!Close
  <2>3. 1..Len(orders') = {}
    <3>1. Len(orders') = 0 BY <2>1
    <3> QED BY <3>1, NoOrders
  <2>4. ModeTold' BY <2>1, <2>3 DEF ModeTold
  <2>5. LevelTold' BY <2>1, <2>2 DEF LevelTold
  <2> QED BY <2>2, <2>4, <2>5
<1>3. CASE Window!ToggleFullscreen
  <2> DEFINE o == [do |-> "mode", to |-> IF flags.fullscreen THEN "windowed" ELSE "fullscreen"]
  <2>1. o \in Orders BY DEF Orders
  <2>2. orders' = Append(orders, o) /\ win' = win BY <1>3 DEF Window!ToggleFullscreen, Window!Order
  <2>3. /\ flags'.fullscreen \in BOOLEAN /\ (flags'.fullscreen <=> ~flags.fullscreen)
        /\ flags'.ontop = flags.ontop
    BY <1>0, <1>3 DEF Window!ToggleFullscreen
  <2>4. o.do = "mode" /\ o.to = Told' BY <2>3 DEF Told
  <2>5. ModeTold' BY <1>0, <2>1, <2>2, <2>4, OneMoreOrder
  <2> QED BY <2>2, <2>3, <2>5 DEF LevelTold
<1>4. CASE Window!TogglePip
  <2> DEFINE o == [do |-> "size", to |-> IF flags.pip THEN OpeningSize ELSE SmallSize]
  <2>1. o \in Orders /\ o.do # "mode" BY DEF Orders
  <2>2. /\ orders' = Append(orders, o) /\ win.open /\ win'.open = win.open /\ win'.mode = win.mode
        /\ win'.level = IF flags.pip THEN "normal" ELSE "top"
    BY <1>0, <1>4 DEF Window!TogglePip, Window!Order
  <2>3. /\ flags'.fullscreen = flags.fullscreen
        /\ flags'.ontop \in BOOLEAN /\ (flags'.ontop <=> ~flags.pip)
    BY <1>0, <1>4 DEF Window!TogglePip
  <2>4. Told' = Told BY <2>3 DEF Told
  <2>5. ModeTold' BY <1>0, <2>1, <2>2, <2>4, OneMoreOrder
  <2>6. LevelTold' BY <2>2, <2>3 DEF LevelTold
  <2> QED BY <2>3, <2>5, <2>6
<1>5. CASE Window!ToggleOntop
  <2>1. /\ win.open /\ win'.open = win.open /\ win'.mode = win.mode /\ orders' = orders
        /\ win'.level = IF flags.ontop THEN "normal" ELSE "top"
    BY <1>0, <1>5 DEF Window!ToggleOntop
  <2>2. /\ flags'.fullscreen = flags.fullscreen
        /\ flags'.ontop \in BOOLEAN /\ (flags'.ontop <=> ~flags.ontop)
    BY <1>0, <1>5 DEF Window!ToggleOntop
  <2>3. ModeTold' BY <2>1, <2>2 DEF ModeTold, Told
  <2>4. LevelTold' BY <2>1, <2>2 DEF LevelTold
  <2> QED BY <2>2, <2>3, <2>4
<1>6. CASE Window!Acts
  <2>1. ModeTold' BY <1>6, OneOrderLess
  <2>2. win'.open = win.open /\ win'.level = win.level /\ flags' = flags BY <1>0, <1>6 DEF Window!Acts
  <2> QED BY <2>1, <2>2 DEF LevelTold
<1>7. ASSUME NEW size \in WindowSizes, Window!UserResizes(size) PROVE FlagsTold'
  <2>1. /\ win'.open = win.open /\ win'.level = win.level /\ win'.mode = win.mode
        /\ UNCHANGED <<flags, orders>>
    BY <1>0, <1>7 DEF Window!UserResizes
  <2> QED BY <2>1 DEF ModeTold, LevelTold, Told
<1>8. CASE UNCHANGED <<win, orders, flags>> BY <1>8 DEF ModeTold, LevelTold, Told
<1>9. CASE Window!Measure \/ Window!WindowResized \/ Window!LayoutDirty \/ Window!PlayerLayout
           \/ Window!Pull \/ Window!Tick \/ UNCHANGED Window!vars
  <2>1. UNCHANGED <<win, orders, flags>>
    BY <1>9 DEF Window!Measure, Window!WindowResized, Window!LayoutDirty, Window!PlayerLayout,
                Window!Pull, Window!Tick, Window!vars, Window!windowVars
  <2> QED BY <1>8, <2>1
<1> QED BY <1>1, <1>2, <1>3, <1>4, <1>5, <1>6, <1>7, <1>9 DEF Window!Next

\* What the controls say of full screen and of the window above the others is so, when
\* nothing is under way, unless the window is closed in picture in picture.
THEOREM FlagsTellTheWindow == "closed in pip" \notin WindowFaults => (Window!Spec => []Window!FlagsHold)
<1> SUFFICES ASSUME "closed in pip" \notin WindowFaults PROVE Window!Spec => []Window!FlagsHold OBVIOUS
<1>1. Window!Init => FlagsTold
  <2>1. ASSUME Window!Init PROVE flags.fullscreen \in BOOLEAN /\ flags.ontop \in BOOLEAN
    <3>1. flags = [fullscreen |-> FALSE, pip |-> FALSE, ontop |-> FALSE] BY <2>1 DEF Window!Init
    <3> QED BY <3>1
  <2> QED BY <2>1, WindowInit DEF FlagsTold
<1>2. WindowTyped /\ FlagsTold /\ [Window!Next]_(Window!vars) => FlagsTold' BY WindowTells
<1>3. ASSUME WindowTyped, FlagsTold PROVE Window!FlagsHold
  <2> SUFFICES ASSUME Window!Quiet
               PROVE  /\ flags.fullscreen = (win.mode = "fullscreen")
                      /\ flags.ontop = (win.level = "top")
    BY DEF Window!FlagsHold
  <2>1. win.open /\ orders = <<>> BY DEF Window!Quiet
  <2>2. win.mode = Told
    <3>1. 1..Len(orders) = {}
      <4>1. Len(orders) = 0 BY <2>1
      <4> QED BY <4>1, NoOrders
    <3> QED BY <1>3, <2>1, <3>1 DEF FlagsTold, ModeTold
  <2>3. flags.fullscreen <=> win.mode = "fullscreen" BY <2>2 DEF Told
  <2>4. flags.ontop <=> win.level = "top" BY <1>3, <2>1 DEF FlagsTold, LevelTold
  <2> QED BY <1>3, <2>3, <2>4 DEF FlagsTold
<1> QED BY <1>1, <1>2, <1>3, WindowTypes, PTL DEF Window!Spec

\* The picture that is asked for has the shape of the stage and is asked again at the same
\* size (soft_present_wh), where neither the windows nor the monitor stand upright.
THEOREM PicturesFitTheStage == AllLie => (Window!Spec => []Window!FrameFits)
<1> SUFFICES ASSUME AllLie PROVE Window!Spec => []Window!FrameFits OBVIOUS
<1>1. ASSUME WindowTyped PROVE Window!FrameFits
  <2> SUFFICES ASSUME rect # Window!NoSize, freeze = 0
               PROVE  /\ Window!SameShape(Window!Request(frame), Window!Capped(rect))
                      /\ Window!Request(Window!Request(frame)) = Window!Request(frame)
    BY DEF Window!FrameFits
  <2>1. rect[1] \in Nat /\ rect[2] \in Nat /\ rect[1] > 0 /\ rect[2] > 0 /\ Window!Wide(rect)
    BY <1>1 DEF WindowTyped, Spans
  <2>2. Window!Wide(MainSize) BY DEF AllLie
  <2>3. Window!Wanted = Window!Capped(rect) BY <2>1, <2>2 DEF Window!Wanted
  <2>4. Window!SameShape(Window!Wanted, Window!Wanted)
    <3>1. Window!Wanted[1] \in Nat /\ Window!Wanted[2] \in Nat BY <2>1, <2>3, CappedIsASize
    <3> QED BY <3>1, KeepsItself
  <2>5. \/ Window!Request(frame) = Window!Wanted
        \/ Window!Request(frame) = frame /\ Window!Keeps(frame, Window!Wanted)
    BY DEF Window!Request
  <2>6. Window!SameShape(Window!Request(frame), Window!Wanted) BY <2>4, <2>5 DEF Window!Keeps
  <2>7. Window!Request(Window!Wanted) = Window!Wanted BY DEF Window!Request
  <2> QED BY <2>3, <2>5, <2>6, <2>7
<1> QED BY <1>1, WindowTypes, PTL

-----------------------------------------------------------------------------
(***************************************************************************)
(* Episodes.  The queue is that of the episode that plays because every    *)
(* play arms it anew, from the open page or from itself; a preload begins  *)
(* by removing what an earlier one left.                                   *)
(***************************************************************************)
CONSTANTS Series, LastEpisode, EpisodeFaults

VARIABLES page, playing, local, queue, idx, armed, job, prefetched, files

Episodes == INSTANCE Episodes WITH Last <- LastEpisode, Faults <- EpisodeFaults

\* The next episode follows the one that plays, and one file is read ahead:
\* NextFollows and OnePreload of Episodes.
EpisodesFollow == part = "episodes" => Episodes!NextFollows /\ Episodes!OnePreload

\* A preload that runs has removed what was preloaded before it.
PreloadsApart ==
  /\ files = {prefetched} \ {Episodes!NoEpisode}
  /\ job # Episodes!NoEpisode => prefetched = Episodes!NoEpisode

EpisodesInStep == Episodes!NextFollows /\ PreloadsApart

LEMMA EpisodesInit == Episodes!Init => EpisodesInStep
BY DEF Episodes!Init, EpisodesInStep, PreloadsApart, Episodes!NextFollows

\* What is armed for an episode is the place of that episode, or nothing.
LEMMA PlayFollows ==
  ASSUME NEW u, Episodes!Play(u) PROVE Episodes!NextFollows' /\ UNCHANGED <<page, Episodes!preload>>
BY DEF Episodes!Play, Episodes!Arm, Episodes!NextFollows

LEMMA EpisodesStep == EpisodesInStep /\ [Episodes!Next]_Episodes!vars => EpisodesInStep'
<1> SUFFICES ASSUME EpisodesInStep, [Episodes!Next]_Episodes!vars PROVE EpisodesInStep'
  OBVIOUS
<1>1. ASSUME NEW u, Episodes!Play(u) PROVE EpisodesInStep'
  BY <1>1, PlayFollows DEF EpisodesInStep, PreloadsApart, Episodes!preload
<1>2. ASSUME NEW n, Episodes!PlayEpisode(n) PROVE EpisodesInStep'
  BY <1>1, <1>2 DEF Episodes!PlayEpisode
<1>3. CASE Episodes!Next1 \/ Episodes!Previous
  BY <1>1, <1>3 DEF Episodes!Next1, Episodes!Previous, Episodes!Neighbour
<1>4. CASE Episodes!PlayFilm
  BY <1>4 DEF Episodes!PlayFilm, EpisodesInStep, PreloadsApart, Episodes!NextFollows, Episodes!preload,
    Episodes!Urls, Episodes!Film
<1>5. CASE Episodes!PlayChannel
  BY <1>5 DEF Episodes!PlayChannel, EpisodesInStep, PreloadsApart, Episodes!NextFollows,
    Episodes!preload, Episodes!Urls
<1>6. CASE Episodes!Stop
  BY <1>6 DEF Episodes!Stop, EpisodesInStep, PreloadsApart, Episodes!NextFollows, Episodes!preload,
    Episodes!Urls, Episodes!NoEpisode
<1>7. CASE Episodes!Prefetch
  <2>1. Episodes!NextFollows' BY <1>7 DEF Episodes!Prefetch, EpisodesInStep, Episodes!NextFollows, Episodes!Urls
  <2>2. PreloadsApart' BY <1>7 DEF Episodes!Prefetch, EpisodesInStep, PreloadsApart, Episodes!preload
  <2> QED BY <2>1, <2>2 DEF EpisodesInStep
<1>8. CASE Episodes!Preloaded
  BY <1>8 DEF Episodes!Preloaded, EpisodesInStep, PreloadsApart, Episodes!NextFollows, Episodes!Urls
<1>9. CASE Episodes!PreloadFails
  BY <1>9 DEF Episodes!PreloadFails, EpisodesInStep, PreloadsApart, Episodes!NextFollows, Episodes!Urls
<1>10. ASSUME NEW s, Episodes!OpenSeries(s) PROVE EpisodesInStep'
  BY <1>10 DEF Episodes!OpenSeries, EpisodesInStep, PreloadsApart, Episodes!NextFollows,
    Episodes!preload, Episodes!Urls
<1>11. CASE Episodes!CloseSeriesDetail
  BY <1>11 DEF Episodes!CloseSeriesDetail, EpisodesInStep, PreloadsApart, Episodes!NextFollows,
    Episodes!preload, Episodes!Urls
<1>12. CASE UNCHANGED Episodes!vars
  BY <1>12 DEF Episodes!vars, EpisodesInStep, PreloadsApart, Episodes!NextFollows, Episodes!preload,
    Episodes!Urls
<1> QED
  BY <1>2, <1>3, <1>4, <1>5, <1>6, <1>7, <1>8, <1>9, <1>10, <1>11, <1>12 DEF Episodes!Next

\* Next plays the episode that follows the one that plays, whatever pages were opened
\* meanwhile (arm_series_queue_for_url), and one file at most is read ahead, the one that
\* is said to be there (maybe_prefetch_next_episode): for any series, of any length, and
\* pages of other series included.
THEOREM EpisodesAreFollowed == Episodes!Spec => []EpisodesFollow
<1>1. EpisodesInStep => EpisodesFollow
  <2> SUFFICES ASSUME EpisodesInStep PROVE Episodes!NextFollows /\ Episodes!OnePreload
    BY DEF EpisodesFollow
  <2>1. files = {} \/ files = {prefetched} BY DEF EpisodesInStep, PreloadsApart
  <2>2. Cardinality(files) <= 1 BY <2>1, AtMostOne
  <2>3. Episodes!Cardinality(files) = Cardinality(files)
    BY DEF Episodes!Cardinality, Cardinality
  <2> QED BY <2>2, <2>3 DEF EpisodesInStep, PreloadsApart, Episodes!OnePreload
<1> QED BY <1>1, EpisodesInit, EpisodesStep, PTL DEF Episodes!Spec

\* While no page of another series is opened, the open page is that of the queue.
PageIsTheQueues == page # "none" /\ queue # "none" => page = queue

LEMMA PageStep ==
  ASSUME "browse" \notin EpisodeFaults, PageIsTheQueues, [Episodes!Next]_Episodes!vars
  PROVE  PageIsTheQueues' /\ (Episodes!QueueStays)
<1>1. ASSUME NEW u, Episodes!Play(u) PROVE PageIsTheQueues'
  BY <1>1 DEF Episodes!Play, Episodes!Arm, PageIsTheQueues
<1>2. PageIsTheQueues'
  BY <1>1 DEF PageIsTheQueues, Episodes!Next, Episodes!vars, Episodes!OpenSeries, Episodes!CloseSeriesDetail,
    Episodes!PlayEpisode, Episodes!Next1, Episodes!Previous, Episodes!Neighbour, Episodes!PlayFilm,
    Episodes!PlayChannel, Episodes!Stop, Episodes!Prefetch, Episodes!Preloaded, Episodes!PreloadFails
<1>3. ASSUME NEW d \in {1, -1}, Episodes!Neighbour(d) PROVE queue' = queue
  BY <1>3 DEF Episodes!Neighbour, Episodes!Play, Episodes!Arm, PageIsTheQueues
<1>4. Episodes!QueueStays
  BY <1>3 DEF Episodes!QueueStays, Episodes!Next1, Episodes!Previous
<1> QED BY <1>2, <1>4

\* Next and previous stay in the series (playlist_neighbor) while no page of another one
\* is opened.
THEOREM QueueIsKept ==
  "browse" \notin EpisodeFaults => (Episodes!Spec => [][Episodes!QueueStays]_Episodes!vars)
<1> SUFFICES ASSUME "browse" \notin EpisodeFaults
             PROVE  Episodes!Spec => [][Episodes!QueueStays]_Episodes!vars
  OBVIOUS
<1>1. Episodes!Init => PageIsTheQueues BY DEF Episodes!Init, PageIsTheQueues
<1>2. PageIsTheQueues /\ [Episodes!Next]_Episodes!vars => PageIsTheQueues' /\ [Episodes!QueueStays]_Episodes!vars
  BY PageStep
<1> QED BY <1>1, <1>2, PTL DEF Episodes!Spec

-----------------------------------------------------------------------------
(***************************************************************************)
(* The stage.  The uploads of the present generation are at most one, the  *)
(* stage is busy exactly when it is there, and shown, under way, waiting   *)
(* and not yet pulled follow one another in the stream that plays; every   *)
(* change of stream raises the generation, so that none is left for the    *)
(* next one.                                                               *)
(***************************************************************************)
CONSTANTS StagePlays, StagePictures, StageGens, StageFaults

ASSUME StageAssumption == StagePlays \in Nat /\ StagePictures \in Nat

VARIABLES screened, plays, decoded, taken, ended, player, windows, timers, stage, uploads, gpu

Stage == INSTANCE Stage WITH
  playing <- screened, MaxPlays <- StagePlays, MaxPictures <- StagePictures, MaxGen <- StageGens,
  Faults <- StageFaults

\* What is stopped shows nothing and leaves no window: StoppedIsBlank and
\* StoppedIsClosed of Stage.
StoppedIsOver == part = "stage" => Stage!StoppedIsBlank /\ Stage!StoppedIsClosed

PlayerTyped(w) == DOMAIN w = {"id", "gen", "blank"} /\ w.id \in 0..StagePlays /\ w.gen \in Nat
WindowsTyped(w) ==
  w \in [open : SUBSET (1..StagePlays), opening : SUBSET (1..StagePlays), closed : SUBSET (1..StagePlays)]
StageShaped(w) ==
  /\ DOMAIN w = {"gen", "busy", "pending", "shown"}
  /\ w.gen \in Nat /\ w.pending \in Stage!Pictures /\ w.shown \in Stage!Pictures
GpuTyped(w) == DOMAIN w = {"ready", "shown"} /\ w.shown \in Stage!Pictures
StreamTyped ==
  /\ plays \in 0..StagePlays /\ screened \in 0..plays
  /\ decoded \in 0..StagePictures /\ taken \in 0..decoded /\ ended \in BOOLEAN

StageTyped ==
  /\ StreamTyped
  /\ PlayerTyped(player) /\ WindowsTyped(windows) /\ timers \subseteq [gen : Nat, plays : Nat]
  /\ StageShaped(stage) /\ GpuTyped(gpu) /\ uploads \subseteq [gen : Nat, pic : Stage!Pictures]

\* What the stage and the card show, and what is on its way to them.
Newest(p) ==
  /\ p.stream <= plays /\ (p.stream = 0 => p = Stage!NoPicture)
  /\ p.stream = screened => p.n <= taken

UploadsInOrder ==
  /\ \A u \in uploads : u.gen <= stage.gen
  /\ \A u, v \in uploads : u.gen = stage.gen /\ v.gen = stage.gen => u = v
  /\ stage.busy <=> \E u \in uploads : u.gen = stage.gen
  /\ stage.pending # Stage!NoPicture =>
       stage.busy /\ stage.pending.stream = screened /\ screened # 0 /\ stage.pending.n <= taken
  /\ \A u \in uploads : u.gen = stage.gen =>
       /\ u.pic.stream = screened /\ screened # 0 /\ u.pic.n <= taken
       /\ stage.pending # Stage!NoPicture => u.pic.n < stage.pending.n
       /\ stage.shown.stream = screened => stage.shown.n < u.pic.n
  /\ Newest(stage.shown) /\ Newest(gpu.shown)

BlankShowsNothing ==
  player.blank => screened = 0 /\ stage.shown = Stage!NoPicture /\ gpu.shown = Stage!NoPicture

StageInOrder == StageTyped /\ UploadsInOrder /\ BlankShowsNothing

LEMMA StageInit == Stage!Init => StageInOrder
<1> SUFFICES ASSUME Stage!Init PROVE StageInOrder
  OBVIOUS
<1> USE StageAssumption DEF Stage!NoPicture
<1>1. Stage!NoPicture \in Stage!Pictures BY DEF Stage!Pictures
<1>2. StageTyped
  <2>1. StreamTyped
    <3>1. ended \in BOOLEAN BY Zenon DEF Stage!Init
    <3> QED BY <3>1 DEF Stage!Init, StreamTyped
  <2>2. PlayerTyped(player) /\ WindowsTyped(windows) /\ timers = {} /\ uploads = {}
    BY DEF Stage!Init, PlayerTyped, WindowsTyped
  <2>3. StageShaped(stage) /\ GpuTyped(gpu) BY <1>1 DEF Stage!Init, StageShaped, GpuTyped
  <2> QED BY <2>1, <2>2, <2>3 DEF StageTyped
<1>3. UploadsInOrder BY DEF Stage!Init, UploadsInOrder, Newest
<1>4. BlankShowsNothing BY DEF Stage!Init, BlankShowsNothing
<1> QED BY <1>2, <1>3, <1>4 DEF StageInOrder

\* A stream ends or another is opened: what was under way is of an earlier generation.
LEMMA InvalidateKeepsOrder ==
  ASSUME StageInOrder,
         Stage!Invalidate(TRUE) \/ (Stage!Invalidate(FALSE) /\ (player'.blank => player.blank)),
         taken' = 0, plays' \in Nat, plays <= plays', screened' \in {0, plays'},
         screened' # 0 => plays < plays',
         player'.blank => screened' = 0
  PROVE  /\ UploadsInOrder' /\ BlankShowsNothing'
         /\ StageShaped(stage') /\ GpuTyped(gpu') /\ uploads' = uploads
<1> USE DEF Stage!NoPicture
<1>0. /\ plays \in Nat /\ plays' \in Nat /\ screened \in Nat /\ taken \in Nat
      /\ stage.gen \in Nat /\ \A u \in uploads : u.gen \in Nat
  BY StageAssumption DEF StageInOrder, StageTyped, StreamTyped, StageShaped
<1>1. /\ stage.shown \in Stage!Pictures /\ gpu.shown \in Stage!Pictures
      /\ Stage!NoPicture \in Stage!Pictures
      /\ \A p \in Stage!Pictures : p.stream \in Nat /\ p.n \in Nat
  BY StageAssumption DEF StageInOrder, StageTyped, StageShaped, GpuTyped, Stage!Pictures
<1>2. /\ stage'.gen = stage.gen + 1 /\ ~stage'.busy /\ stage'.pending = Stage!NoPicture
      /\ stage'.shown \in {stage.shown, Stage!NoPicture}
      /\ DOMAIN stage' = {"gen", "busy", "pending", "shown"}
      /\ uploads' = uploads
  BY DEF Stage!Invalidate
<1>3. gpu'.shown \in {gpu.shown, Stage!NoPicture} /\ DOMAIN gpu' = {"ready", "shown"}
  BY DEF Stage!Invalidate, StageInOrder, StageTyped, GpuTyped
<1>4. StageShaped(stage') /\ GpuTyped(gpu')
  BY <1>0, <1>1, <1>2, <1>3 DEF StageShaped, GpuTyped
<1>5. \A u \in uploads' : u.gen < stage'.gen
  BY <1>0, <1>2 DEF StageInOrder, UploadsInOrder
<1>6. ASSUME NEW p \in Stage!Pictures, Newest(p) PROVE Newest(p)'
  BY <1>0, <1>1, <1>6 DEF Newest
<1>7. Newest(Stage!NoPicture)' BY <1>0 DEF Newest
<1>8. Newest(stage.shown)' /\ Newest(gpu.shown)'
  BY <1>1, <1>2, <1>3, <1>6, <1>7 DEF StageInOrder, UploadsInOrder, Newest
<1>9. UploadsInOrder'
  BY <1>0, <1>2, <1>5, <1>8 DEF UploadsInOrder
<1>10. BlankShowsNothing'
  <2>1. CASE Stage!Invalidate(TRUE)
    <3>1. stage'.shown = Stage!NoPicture /\ gpu'.shown = Stage!NoPicture
      BY <2>1 DEF Stage!Invalidate, StageInOrder, StageTyped, GpuTyped
    <3> QED BY <3>1 DEF BlankShowsNothing
  <2>2. CASE Stage!Invalidate(FALSE) /\ (player'.blank => player.blank)
    <3>1. stage'.shown = stage.shown /\ gpu'.shown = gpu.shown
      BY <2>2 DEF Stage!Invalidate, StageInOrder, StageTyped, GpuTyped
    <3> QED BY <2>2, <3>1 DEF BlankShowsNothing, StageInOrder
  <2> QED BY <2>1, <2>2
<1> QED BY <1>2, <1>4, <1>9, <1>10

\* A session that ends and clears the stage, whatever becomes of the window.
LEMMA StopKeepsOrder ==
  ASSUME StageInOrder, Stage!SessionStops, Stage!Invalidate(TRUE),
         PlayerTyped(player'), WindowsTyped(windows'), timers' \subseteq [gen : Nat, plays : Nat]
  PROVE  StageInOrder'
<1>1. StreamTyped /\ plays \in Nat
  BY StageAssumption DEF StageInOrder, StageTyped, StreamTyped
<1>2. screened' = 0 /\ decoded' = 0 /\ taken' = 0 /\ plays' = plays BY DEF Stage!SessionStops
<1>3. /\ UploadsInOrder' /\ BlankShowsNothing'
      /\ StageShaped(stage') /\ GpuTyped(gpu') /\ uploads' = uploads
  BY <1>1, <1>2, InvalidateKeepsOrder
<1>4. ended' \in BOOLEAN BY Zenon DEF Stage!SessionStops
<1>5. StreamTyped' BY <1>1, <1>2, <1>4, StageAssumption DEF StreamTyped
<1>6. StageTyped' BY <1>3, <1>5 DEF StageInOrder, StageTyped
<1> QED BY <1>3, <1>6 DEF StageInOrder

\* Nothing but the windows and the timers changes.
LEMMA WindowsKeepOrder ==
  ASSUME StageInOrder, UNCHANGED <<Stage!streamVars, Stage!stageVars>>,
         PlayerTyped(player'), player'.blank => player.blank,
         WindowsTyped(windows'), timers' \subseteq [gen : Nat, plays : Nat]
  PROVE  StageInOrder'
<1> USE DEF Stage!streamVars, Stage!stageVars
<1>1. StageTyped' BY DEF StageInOrder, StageTyped, StreamTyped, StageShaped, GpuTyped
<1>2. UploadsInOrder' BY DEF StageInOrder, UploadsInOrder, Newest
<1>3. BlankShowsNothing' BY DEF StageInOrder, BlankShowsNothing
<1> QED BY <1>1, <1>2, <1>3 DEF StageInOrder

LEMMA PlayKeepsOrder == StageInOrder /\ Stage!Play => StageInOrder'
<1> SUFFICES ASSUME StageInOrder, Stage!Play PROVE StageInOrder'
  OBVIOUS
<1>0. StageTyped /\ StreamTyped /\ plays \in Nat
  BY StageAssumption DEF StageInOrder, StageTyped, StreamTyped
<1>1. /\ plays' = plays + 1 /\ plays < StagePlays /\ screened' \in {0, plays'}
      /\ decoded' = 0 /\ taken' = 0 /\ Stage!Invalidate(FALSE) /\ timers' = timers
      /\ windows' = IF player.id # 0 THEN windows
                    ELSE [windows EXCEPT !.opening = @ \cup {plays + 1}, !.open = @ \cup {plays + 1}]
  BY DEF Stage!Play
<1>2. PlayerTyped(player') /\ ~player'.blank
  BY <1>0 DEF Stage!Play, Stage!PlayBumpsGen, StageTyped, PlayerTyped
<1>3. /\ UploadsInOrder' /\ BlankShowsNothing'
      /\ StageShaped(stage') /\ GpuTyped(gpu') /\ uploads' = uploads
  <2>1. /\ plays' \in Nat /\ plays <= plays' /\ (screened' # 0 => plays < plays')
        /\ player'.blank => player.blank /\ screened' = 0
    BY <1>0, <1>1, <1>2
  <2> QED BY <1>1, <2>1, InvalidateKeepsOrder, Zenon
<1>4. WindowsTyped(windows')
  <2>1. CASE player.id # 0 BY <1>0, <1>1, <2>1 DEF StageTyped
  <2>2. CASE player.id = 0
    <3>1. windows' = [open |-> windows.open \cup {plays + 1}, opening |-> windows.opening \cup {plays + 1},
                      closed |-> windows.closed]
      BY <1>0, <1>1, <2>2 DEF StageTyped, WindowsTyped
    <3>2. plays + 1 \in 1..StagePlays BY <1>0, <1>1, StageAssumption
    <3> QED BY <1>0, <3>1, <3>2 DEF StageTyped, WindowsTyped
  <2> QED BY <2>1, <2>2
<1>5. ended' \in BOOLEAN BY Zenon DEF Stage!Play
<1>6. StreamTyped' BY <1>0, <1>1, <1>5, StageAssumption DEF StreamTyped
<1>7. StageTyped' BY <1>0, <1>1, <1>2, <1>3, <1>4, <1>6 DEF StageTyped
<1> QED BY <1>3, <1>7 DEF StageInOrder

LEMMA EndKeepsOrder == StageInOrder /\ Stage!EndSeen => StageInOrder'
<1> SUFFICES ASSUME StageInOrder, Stage!EndSeen PROVE StageInOrder'
  OBVIOUS
<1>0. StageTyped /\ StreamTyped /\ plays \in Nat
  BY StageAssumption DEF StageInOrder, StageTyped, StreamTyped
<1>1. /\ screened' = 0 /\ decoded' = 0 /\ taken' = 0 /\ plays' = plays
      /\ Stage!Invalidate(FALSE) /\ player' = player /\ windows' = windows /\ timers' = timers
  BY DEF Stage!EndSeen, Stage!SessionStops, Stage!windowVars
<1>2. /\ UploadsInOrder' /\ BlankShowsNothing'
      /\ StageShaped(stage') /\ GpuTyped(gpu') /\ uploads' = uploads
  <2>1. /\ plays' \in Nat /\ plays <= plays' /\ screened' \in {0, plays'}
        /\ (screened' # 0 => plays < plays')
        /\ player'.blank => player.blank
    BY <1>0, <1>1
  <2> QED BY <1>1, <2>1, InvalidateKeepsOrder, Zenon
<1>3. ended' \in BOOLEAN BY Zenon DEF Stage!EndSeen, Stage!SessionStops
<1>4. StreamTyped' BY <1>0, <1>1, <1>3, StageAssumption DEF StreamTyped
<1>5. StageTyped' BY <1>0, <1>1, <1>2, <1>4 DEF StageTyped
<1> QED BY <1>2, <1>5 DEF StageInOrder

LEMMA EngineKeepsOrder ==
  ASSUME StageInOrder, Stage!EngineDecodes \/ Stage!EngineEnds \/ Stage!GpuReady PROVE StageInOrder'
<1> USE StageAssumption
<1>0. StageTyped /\ UploadsInOrder /\ BlankShowsNothing BY DEF StageInOrder
<1>1. CASE Stage!EngineDecodes
  <2>1. UNCHANGED <<screened, plays, taken, ended, player, windows, timers, stage, uploads, gpu>>
        /\ decoded' = decoded + 1 /\ decoded < StagePictures
    BY <1>1 DEF Stage!EngineDecodes, Stage!windowVars, Stage!stageVars
  <2>2. StreamTyped' BY <1>0, <2>1 DEF StageTyped, StreamTyped
  <2> QED
    BY <1>0, <2>1, <2>2 DEF StageInOrder, StageTyped, UploadsInOrder, BlankShowsNothing, Newest
<1>2. CASE Stage!EngineEnds
  <2>1. UNCHANGED <<screened, plays, decoded, taken, player, windows, timers, stage, uploads, gpu>>
    BY <1>2 DEF Stage!EngineEnds, Stage!windowVars, Stage!stageVars
  <2>2. ended' \in BOOLEAN BY <1>2, Zenon DEF Stage!EngineEnds
  <2>3. StreamTyped' BY <1>0, <2>1, <2>2 DEF StageTyped, StreamTyped
  <2> QED
    BY <1>0, <2>1, <2>3 DEF StageInOrder, StageTyped, UploadsInOrder, BlankShowsNothing, Newest
<1>3. CASE Stage!GpuReady
  <2>1. UNCHANGED <<screened, plays, decoded, taken, ended, player, windows, timers, stage, uploads>>
    BY <1>3 DEF Stage!GpuReady, Stage!streamVars, Stage!windowVars
  <2>2. GpuTyped(gpu') /\ gpu'.shown = gpu.shown BY <1>0, <1>3 DEF Stage!GpuReady, StageTyped, GpuTyped
  <2> QED
    BY <1>0, <2>1, <2>2 DEF StageInOrder, StageTyped, StreamTyped, UploadsInOrder, BlankShowsNothing, Newest
<1> QED BY <1>1, <1>2, <1>3

LEMMA TickKeepsOrder == StageInOrder /\ Stage!TickUploads => StageInOrder'
<1> SUFFICES ASSUME StageInOrder, Stage!TickUploads PROVE StageInOrder'
  OBVIOUS
<1>0. StageTyped /\ UploadsInOrder /\ BlankShowsNothing BY DEF StageInOrder
<1>1. /\ screened \in Nat \ {0} /\ screened <= plays /\ plays \in Nat /\ plays <= StagePlays
      /\ taken \in Nat /\ decoded \in Nat /\ taken < decoded /\ decoded <= StagePictures
  BY <1>0, StageAssumption DEF Stage!TickUploads, Stage!Fresh, StageTyped, StreamTyped
<1>2. /\ UNCHANGED <<screened, plays, decoded, ended, player, windows, timers, gpu>>
      /\ taken' = decoded /\ (stage.busy => stage.pending = Stage!NoPicture)
  BY DEF Stage!TickUploads, Stage!windowVars
<1>3. ~player.blank BY <1>0, <1>1 DEF BlankShowsNothing
<1>4. StreamTyped' BY <1>0, <1>1, <1>2 DEF StageTyped, StreamTyped
<1>5. /\ Stage!Picture \in Stage!Pictures /\ Stage!Picture # Stage!NoPicture
      /\ Stage!Picture.stream = screened /\ Stage!Picture.n = decoded
  BY <1>1, StageAssumption DEF Stage!Picture, Stage!Pictures, Stage!NoPicture
<1>6. CASE stage.busy
  <2>1. stage' = [stage EXCEPT !.pending = Stage!Picture] /\ uploads' = uploads
    BY <1>6 DEF Stage!TickUploads
  <2>2. StageShaped(stage') /\ stage'.pending = Stage!Picture /\ stage'.gen = stage.gen
        /\ stage'.shown = stage.shown /\ (stage'.busy <=> stage.busy)
    BY <1>0, <1>5, <2>1 DEF StageTyped, StageShaped
  <2>3. \A u \in uploads : u.gen = stage.gen => u.pic.n \in Nat
    BY <1>0 DEF StageTyped, Stage!Pictures
  <2>4. \A p \in Stage!Pictures : p.n \in Nat BY DEF Stage!Pictures
  <2>5. StageTyped' BY <1>0, <1>2, <1>4, <2>1, <2>2 DEF StageTyped
  <2>6. Newest(stage.shown)' /\ Newest(gpu.shown)'
    BY <1>0, <1>1, <1>2, <2>2, <2>4 DEF UploadsInOrder, Newest, StageTyped, StageShaped, GpuTyped
  <2>7. UploadsInOrder'
    BY <1>0, <1>1, <1>2, <1>5, <1>6, <2>1, <2>2, <2>3, <2>6 DEF UploadsInOrder
  <2>8. BlankShowsNothing' BY <1>2, <1>3 DEF BlankShowsNothing
  <2> QED BY <2>5, <2>7, <2>8 DEF StageInOrder
<1>7. CASE ~stage.busy
  <2> DEFINE new == [gen |-> stage.gen, pic |-> Stage!Picture]
  <2>1. stage' = [stage EXCEPT !.busy = TRUE] /\ uploads' = uploads \cup {new}
    BY <1>7 DEF Stage!TickUploads, Stage!Upload
  <2>2. StageShaped(stage') /\ stage'.pending = stage.pending /\ stage'.gen = stage.gen
        /\ stage'.shown = stage.shown /\ stage'.busy
    BY <1>0, <2>1 DEF StageTyped, StageShaped
  <2>3. new \in [gen : Nat, pic : Stage!Pictures] BY <1>0, <1>5 DEF StageTyped, StageShaped
  <2>4. \A p \in Stage!Pictures : p.n \in Nat BY DEF Stage!Pictures
  <2>5. StageTyped' BY <1>0, <1>2, <1>4, <2>1, <2>2, <2>3 DEF StageTyped
  <2>6. Newest(stage.shown)' /\ Newest(gpu.shown)'
    BY <1>0, <1>1, <1>2, <2>2, <2>4 DEF UploadsInOrder, Newest, StageTyped, StageShaped, GpuTyped
  <2>7. \A u \in uploads : u.gen # stage.gen BY <1>0, <1>7 DEF UploadsInOrder
  <2>8. stage.pending = Stage!NoPicture BY <1>0, <1>7 DEF UploadsInOrder
  <2>9. stage.shown.stream = screened => stage.shown.n < decoded
    BY <1>0, <1>1, <2>4 DEF UploadsInOrder, Newest, StageTyped, StageShaped
  <2>10. new.gen = stage.gen /\ new.pic.stream = screened /\ new.pic.n = decoded BY <1>5
  <2>11. stage.gen \in Nat BY <1>0 DEF StageTyped, StageShaped
  <2> HIDE DEF new
  <2>12. UploadsInOrder'
    BY <1>0, <1>1, <1>2, <2>1, <2>2, <2>6, <2>7, <2>8, <2>9, <2>10, <2>11 DEF UploadsInOrder
  <2>13. BlankShowsNothing' BY <1>2, <1>3 DEF BlankShowsNothing
  <2> QED BY <2>5, <2>12, <2>13 DEF StageInOrder
<1> QED BY <1>6, <1>7

LEMMA PresentKeepsOrder ==
  ASSUME StageInOrder, Stage!PresentStageFrame PROVE StageInOrder' /\ Stage!ShowsNewer
<1>0. StageTyped /\ UploadsInOrder /\ BlankShowsNothing BY DEF StageInOrder
<1>1. /\ screened \in Nat \ {0} /\ screened <= plays /\ plays \in Nat /\ plays <= StagePlays
      /\ taken \in Nat /\ decoded \in Nat /\ taken < decoded /\ decoded <= StagePictures
  BY <1>0, StageAssumption DEF Stage!PresentStageFrame, Stage!Fresh, StageTyped, StreamTyped
<1>2. /\ UNCHANGED <<screened, plays, decoded, ended, player, windows, timers, uploads>>
      /\ taken' = decoded
  BY DEF Stage!PresentStageFrame, Stage!windowVars
<1>3. ~player.blank BY <1>0, <1>1 DEF BlankShowsNothing
<1>4. StreamTyped' BY <1>0, <1>1, <1>2 DEF StageTyped, StreamTyped
<1>5. /\ Stage!Picture \in Stage!Pictures /\ Stage!Picture # Stage!NoPicture
      /\ Stage!Picture.stream = screened /\ Stage!Picture.n = decoded
  BY <1>1, StageAssumption DEF Stage!Picture, Stage!Pictures, Stage!NoPicture
<1>6. GpuTyped(gpu') /\ gpu'.shown = Stage!Picture
  BY <1>0, <1>5 DEF Stage!PresentStageFrame, StageTyped, GpuTyped
<1>7. \A p \in Stage!Pictures : p.n \in Nat BY DEF Stage!Pictures
<1>8. gpu.shown.stream = screened => decoded > gpu.shown.n
  BY <1>0, <1>1, <1>7 DEF UploadsInOrder, Newest, StageTyped, GpuTyped
<1>9. Newest(gpu.shown)' BY <1>1, <1>2, <1>5, <1>6 DEF Newest
<1>10. Stage!NoPicture \in Stage!Pictures BY StageAssumption DEF Stage!NoPicture, Stage!Pictures
<1>11. CASE stage' = stage
  <2>1. StageTyped' BY <1>0, <1>2, <1>4, <1>6, <1>11 DEF StageTyped
  <2>2. Newest(stage.shown)'
    BY <1>0, <1>1, <1>2, <1>7, <1>11 DEF UploadsInOrder, Newest, StageTyped, StageShaped
  <2>3. stage.pending.n \in Nat /\ \A u \in uploads : u.pic.n \in Nat
    BY <1>0, <1>7 DEF StageTyped, StageShaped
  <2>4. UploadsInOrder' BY <1>0, <1>1, <1>2, <1>9, <1>11, <2>2, <2>3 DEF UploadsInOrder
  <2>5. BlankShowsNothing' BY <1>2, <1>3 DEF BlankShowsNothing
  <2>6. Stage!ShowsNewer BY <1>5, <1>6, <1>8, <1>11 DEF Stage!ShowsNewer, Stage!Newer
  <2> QED BY <2>1, <2>4, <2>5, <2>6 DEF StageInOrder
<1>12. CASE stage' = [gen |-> stage.gen + 1, busy |-> FALSE, pending |-> Stage!NoPicture, shown |-> Stage!NoPicture]
  <2>1. StageShaped(stage') /\ stage'.gen = stage.gen + 1 /\ ~stage'.busy
        /\ stage'.pending = Stage!NoPicture /\ stage'.shown = Stage!NoPicture
    BY <1>0, <1>10, <1>12 DEF StageTyped, StageShaped
  <2>2. StageTyped' BY <1>0, <1>2, <1>4, <1>6, <2>1 DEF StageTyped
  <2>3. \A u \in uploads' : u.gen < stage'.gen
    BY <1>0, <1>2, <2>1 DEF UploadsInOrder, StageTyped, StageShaped
  <2>4. Newest(stage.shown)' BY <1>1, <1>2, <2>1 DEF Newest, Stage!NoPicture
  <2>5. stage.gen \in Nat /\ stage'.gen \in Nat /\ \A u \in uploads' : u.gen \in Nat
    BY <1>0, <1>2, <2>1 DEF StageTyped, StageShaped
  <2>6. UploadsInOrder' BY <1>2, <1>9, <2>1, <2>3, <2>4, <2>5 DEF UploadsInOrder
  <2>7. BlankShowsNothing' BY <1>2, <1>3 DEF BlankShowsNothing
  <2>8. Stage!ShowsNewer BY <1>5, <1>6, <1>8, <2>1 DEF Stage!ShowsNewer, Stage!Newer
  <2> QED BY <2>2, <2>6, <2>7, <2>8 DEF StageInOrder
<1> QED BY <1>11, <1>12 DEF Stage!PresentStageFrame

\* The next picture, if there is one, and whether it was pulled for that.
LEMMA NextIsNewest ==
  ASSUME StageInOrder, screened # 0
  PROVE  \/ /\ stage.pending # Stage!NoPicture /\ Stage!NextPicture = stage.pending
         \/ /\ stage.pending = Stage!NoPicture /\ Stage!NextPicture # Stage!NoPicture
            /\ Stage!NextPicture \in Stage!Pictures /\ taken < decoded
            /\ Stage!NextPicture.stream = screened /\ Stage!NextPicture.n = decoded
         \/ stage.pending = Stage!NoPicture /\ Stage!NextPicture = Stage!NoPicture
<1>1. /\ screened \in Nat \ {0} /\ screened <= plays /\ plays \in Nat /\ plays <= StagePlays
      /\ decoded \in Nat /\ decoded <= StagePictures
  BY StageAssumption DEF StageInOrder, StageTyped, StreamTyped
<1>2. /\ Stage!Picture \in Stage!Pictures /\ Stage!Picture # Stage!NoPicture
      /\ Stage!Picture.stream = screened /\ Stage!Picture.n = decoded
  BY <1>1, StageAssumption DEF Stage!Picture, Stage!Pictures, Stage!NoPicture
<1>3. taken \in Nat BY StageAssumption DEF StageInOrder, StageTyped, StreamTyped
<1> QED BY <1>1, <1>2, <1>3 DEF Stage!NextPicture, Stage!Fresh

LEMMA UploadEndsInOrder ==
  ASSUME StageInOrder, Stage!VideoFrameAllocated PROVE StageInOrder' /\ Stage!ShowsNewer
<1>0. StageTyped /\ UploadsInOrder /\ BlankShowsNothing BY DEF StageInOrder
<1>1. PICK u \in uploads :
        IF ~Stage!Wanted(u)
        THEN uploads' = uploads \ {u} /\ UNCHANGED <<Stage!streamVars, Stage!windowVars, stage, gpu>>
        ELSE LET next == Stage!NextPicture
             IN /\ \E fresh \in {u.pic, stage.shown} :
                     stage' = [stage EXCEPT !.shown = fresh, !.busy = next # Stage!NoPicture,
                                            !.pending = IF next = @ THEN Stage!NoPicture ELSE @]
                /\ uploads' = (uploads \ {u}) \cup
                     {[gen |-> stage.gen, pic |-> p] : p \in {next} \ {Stage!NoPicture}}
                /\ taken' = IF next # Stage!NoPicture /\ next # stage.pending THEN decoded ELSE taken
                /\ UNCHANGED <<screened, plays, decoded, ended, Stage!windowVars, gpu>>
  BY DEF Stage!VideoFrameAllocated
<1>2. CASE u.gen # stage.gen
  <2>1. uploads' = uploads \ {u} /\ UNCHANGED <<screened, plays, decoded, taken, ended, player, windows, timers, stage, gpu>>
    BY <1>1, <1>2 DEF Stage!Wanted, Stage!streamVars, Stage!windowVars
  <2>2. StageTyped' BY <1>0, <2>1 DEF StageTyped, StreamTyped
  <2>3. UploadsInOrder' BY <1>0, <1>2, <2>1 DEF UploadsInOrder, Newest
  <2>4. BlankShowsNothing' BY <1>0, <2>1 DEF BlankShowsNothing
  <2>5. Stage!ShowsNewer BY <2>1 DEF Stage!ShowsNewer, Stage!Newer
  <2> QED BY <2>2, <2>3, <2>4, <2>5 DEF StageInOrder
<1>3. CASE u.gen = stage.gen
  <2> DEFINE next == Stage!NextPicture
             new == [gen |-> stage.gen, pic |-> next]
  <2>1. PICK fresh \in {u.pic, stage.shown} :
          stage' = [stage EXCEPT !.shown = fresh, !.busy = next # Stage!NoPicture,
                                 !.pending = IF next = @ THEN Stage!NoPicture ELSE @]
    BY <1>1, <1>3 DEF Stage!Wanted
  <2>2. /\ uploads' = (uploads \ {u}) \cup
             {[gen |-> stage.gen, pic |-> p] : p \in {next} \ {Stage!NoPicture}}
        /\ taken' = IF next # Stage!NoPicture /\ next # stage.pending THEN decoded ELSE taken
        /\ UNCHANGED <<screened, plays, decoded, ended, player, windows, timers, gpu>>
    BY <1>1, <1>3 DEF Stage!Wanted, Stage!windowVars
  <2>3. /\ screened \in Nat \ {0} /\ screened <= plays /\ plays \in Nat /\ plays <= StagePlays
        /\ taken \in Nat /\ decoded \in Nat /\ taken <= decoded /\ decoded <= StagePictures
    BY <1>0, <1>3, StageAssumption DEF UploadsInOrder, StageTyped, StreamTyped
  <2>4. ~player.blank BY <1>0, <2>3 DEF BlankShowsNothing
  <2>5. /\ stage.gen \in Nat /\ stage.pending \in Stage!Pictures /\ stage.shown \in Stage!Pictures
        /\ u.pic \in Stage!Pictures /\ Stage!NoPicture \in Stage!Pictures
        /\ \A p \in Stage!Pictures : p.n \in Nat
        /\ DOMAIN stage = {"gen", "busy", "pending", "shown"}
    BY <1>0, StageAssumption DEF StageTyped, StageShaped, Stage!Pictures, Stage!NoPicture
  <2>6. /\ stage'.gen = stage.gen /\ stage'.shown = fresh /\ (stage'.busy <=> next # Stage!NoPicture)
        /\ stage'.pending = IF next = stage.pending THEN Stage!NoPicture ELSE stage.pending
        /\ DOMAIN stage' = {"gen", "busy", "pending", "shown"}
    BY <2>1, <2>5
  <2>7. \A v \in uploads : v.gen = stage.gen => v = u BY <1>0, <1>3 DEF UploadsInOrder
  <2>8. /\ u.pic.stream = screened /\ u.pic.n <= taken
        /\ stage.pending # Stage!NoPicture => u.pic.n < stage.pending.n
        /\ stage.shown.stream = screened => stage.shown.n < u.pic.n
    BY <1>0, <1>3 DEF UploadsInOrder
  <2>9. Stage!ShowsNewer
    BY <2>2, <2>5, <2>6, <2>8 DEF Stage!ShowsNewer, Stage!Newer
  <2>10. BlankShowsNothing' BY <2>2, <2>4 DEF BlankShowsNothing
  <2>11. fresh \in Stage!Pictures /\ fresh.stream <= plays /\ (fresh.stream = 0 => fresh = Stage!NoPicture)
         /\ (fresh.stream = screened => fresh.n <= u.pic.n)
    BY <1>0, <2>3, <2>5, <2>8 DEF UploadsInOrder, Newest
  <2>12. taken <= taken' /\ taken' \in 0..decoded BY <2>2, <2>3
  <2>13. StreamTyped' BY <1>0, <2>2, <2>3, <2>12 DEF StageTyped, StreamTyped
  <2>14. Newest(stage.shown)' /\ Newest(gpu.shown)'
    <3>1. Newest(stage.shown)' BY <2>2, <2>3, <2>5, <2>6, <2>8, <2>11, <2>12 DEF Newest
    <3>2. gpu.shown.n \in Nat BY <1>0, <2>5 DEF StageTyped, GpuTyped
    <3>3. Newest(gpu.shown)' BY <1>0, <2>2, <2>3, <2>12, <3>2 DEF UploadsInOrder, Newest
    <3> QED BY <3>1, <3>3
  <2>15. next \in Stage!Pictures
    BY <2>3, <2>5, NextIsNewest
  <2>16. StageShaped(stage') BY <2>5, <2>6, <2>11 DEF StageShaped
  <2>17. uploads' \subseteq [gen : Nat, pic : Stage!Pictures]
    BY <1>0, <2>2, <2>5, <2>15 DEF StageTyped
  <2>18. StageTyped' BY <1>0, <2>2, <2>13, <2>16, <2>17 DEF StageTyped
  <2>19. UploadsInOrder'
    <3>1. CASE next = Stage!NoPicture
      <4>1. stage.pending = Stage!NoPicture BY <2>3, <3>1, NextIsNewest
      <4>2. uploads' = uploads \ {u} /\ taken' = taken BY <2>2, <3>1
      <4> HIDE DEF next
      <4> QED BY <1>0, <2>2, <2>6, <2>7, <2>14, <3>1, <4>1, <4>2 DEF UploadsInOrder
    <3>2. CASE next # Stage!NoPicture
      <4>1. uploads' = (uploads \ {u}) \cup {new} BY <2>2, <3>2
      <4>2. new.gen = stage.gen /\ new.pic = next OBVIOUS
      <4>3. next.stream = screened /\ next.n <= taken' /\ u.pic.n < next.n /\ stage'.pending = Stage!NoPicture
        <5>1. CASE stage.pending # Stage!NoPicture /\ next = stage.pending
          BY <1>0, <2>2, <2>5, <2>6, <2>8, <5>1 DEF UploadsInOrder
        <5>2. CASE stage.pending = Stage!NoPicture /\ taken < decoded /\ next.stream = screened /\ next.n = decoded
          <6>1. taken' = decoded BY <2>2, <3>2, <5>2
          <6> QED BY <2>3, <2>5, <2>6, <2>8, <3>2, <5>2, <6>1
        <5> QED BY <2>3, <3>2, <5>1, <5>2, NextIsNewest
      <4>4. fresh.stream = screened => fresh.n < next.n
        BY <2>5, <2>8, <2>11, <2>15, <4>3
      <4>5. \A v \in uploads' : v.gen = stage.gen => v = new BY <2>7, <4>1
      <4>6. \A v \in uploads' : v.gen <= stage.gen
        BY <1>0, <2>5, <4>1, <4>2 DEF UploadsInOrder
      <4>7. new \in uploads' BY <4>1
      <4> HIDE DEF next, new
      <4> QED BY <2>2, <2>3, <2>6, <2>14, <3>2, <4>2, <4>3, <4>4, <4>5, <4>6, <4>7 DEF UploadsInOrder
    <3> QED BY <3>1, <3>2
  <2> QED BY <2>9, <2>10, <2>18, <2>19 DEF StageInOrder
<1> QED BY <1>2, <1>3

LEMMA ClosedIsTyped ==
  ASSUME NEW w, PlayerTyped(w) PROVE PlayerTyped([w EXCEPT !.id = 0, !.blank = TRUE])
<1> DEFINE v == [w EXCEPT !.id = 0, !.blank = TRUE]
<1>1. DOMAIN v = {"id", "gen", "blank"} BY DEF PlayerTyped
<1>2. v.id = 0 /\ v.gen = w.gen BY DEF PlayerTyped
<1>3. 0 \in 0..StagePlays BY StageAssumption
<1> HIDE DEF v
<1>4. PlayerTyped(v) BY <1>1, <1>2, <1>3 DEF PlayerTyped
<1> QED BY <1>4 DEF v

LEMMA StageStep ==
  ASSUME StageInOrder, [Stage!Next]_(Stage!vars) PROVE StageInOrder' /\ Stage!ShowsNewer
<1>0. StageTyped /\ BlankShowsNothing BY DEF StageInOrder
<1>1. ASSUME stage'.shown \in {stage.shown, Stage!NoPicture}, gpu'.shown \in {gpu.shown, Stage!NoPicture}
      PROVE  Stage!ShowsNewer
  BY <1>1 DEF Stage!ShowsNewer, Stage!Newer
<1>2. ASSUME Stage!Invalidate(TRUE) \/ Stage!Invalidate(FALSE) PROVE Stage!ShowsNewer
  <2>1. stage'.shown \in {stage.shown, Stage!NoPicture} BY <1>2 DEF Stage!Invalidate
  <2>2. gpu'.shown \in {gpu.shown, Stage!NoPicture}
    BY <1>0, <1>2 DEF Stage!Invalidate, StageTyped, GpuTyped
  <2> QED BY <1>1, <2>1, <2>2
<1>3. ASSUME stage' = stage, gpu' = gpu PROVE Stage!ShowsNewer BY <1>1, <1>3
<1>4. ASSUME UNCHANGED <<Stage!streamVars, Stage!stageVars>> PROVE Stage!ShowsNewer
  BY <1>3, <1>4 DEF Stage!stageVars
<1>5. CASE Stage!Play
  <2>1. Stage!Invalidate(FALSE) BY <1>5 DEF Stage!Play
  <2> QED BY <1>2, <1>5, <2>1, PlayKeepsOrder
<1>6. CASE Stage!Stop
  <2>1. Stage!SessionStops /\ Stage!Invalidate(TRUE) BY <1>6 DEF Stage!Stop
  <2>2. PlayerTyped(player') /\ WindowsTyped(windows')
    BY <1>0, <1>6 DEF Stage!Stop, StageTyped, PlayerTyped
  <2>3. timers' \subseteq [gen : Nat, plays : Nat]
    <3>1. player.gen + 1 \in Nat /\ plays \in Nat
      BY <1>0, StageAssumption DEF StageTyped, StreamTyped, PlayerTyped
    <3> QED BY <1>0, <1>6, <3>1 DEF Stage!Stop, StageTyped
  <2> QED BY <1>2, <2>1, <2>2, <2>3, StopKeepsOrder
<1>7. CASE Stage!CloseDeferred
  <2>1. PICK t \in timers :
          /\ timers' = timers \ {t}
          /\ IF t.gen # player.gen
             THEN UNCHANGED <<Stage!streamVars, Stage!stageVars, player, windows>>
             ELSE Stage!SessionStops /\ Stage!Invalidate(TRUE) /\ Stage!Close
    BY <1>7 DEF Stage!CloseDeferred
  <2>2. timers' \subseteq [gen : Nat, plays : Nat] BY <1>0, <2>1 DEF StageTyped
  <2>3. CASE t.gen # player.gen
    <3>1. UNCHANGED <<Stage!streamVars, Stage!stageVars>> /\ player' = player /\ windows' = windows
      BY <2>1, <2>3
    <3> QED BY <1>0, <1>4, <2>2, <3>1, WindowsKeepOrder DEF StageTyped
  <2>4. CASE t.gen = player.gen
    <3>1. PlayerTyped(player') BY <1>0, <2>1, <2>4, ClosedIsTyped DEF Stage!Close, StageTyped
    <3>2. WindowsTyped(windows')
      <4>1. windows' = [open |-> windows.open \ {player.id}, opening |-> windows.opening,
                        closed |-> windows.closed \cup ({player.id} \ {0})]
        BY <1>0, <2>1, <2>4 DEF Stage!Close, StageTyped, WindowsTyped
      <4>2. {player.id} \ {0} \subseteq 1..StagePlays
        BY <1>0, StageAssumption DEF StageTyped, PlayerTyped
      <4> QED BY <1>0, <4>1, <4>2 DEF StageTyped, WindowsTyped
    <3> QED BY <1>2, <2>1, <2>2, <2>4, <3>1, <3>2, StopKeepsOrder
  <2> QED BY <2>3, <2>4
<1>8. CASE Stage!CloseNow
  <2>1. /\ Stage!SessionStops /\ Stage!Invalidate(TRUE) /\ timers' = timers /\ player.id # 0
        /\ player' = [id |-> 0, gen |-> player.gen + 1, blank |-> TRUE]
        /\ windows' = [windows EXCEPT !.open = @ \ {player.id}, !.closed = @ \cup {player.id}]
    BY <1>8 DEF Stage!CloseNow
  <2>2. PlayerTyped(player')
    BY <1>0, <2>1, StageAssumption DEF StageTyped, PlayerTyped
  <2>3. WindowsTyped(windows')
    <3>1. windows' = [open |-> windows.open \ {player.id}, opening |-> windows.opening,
                      closed |-> windows.closed \cup {player.id}]
      BY <1>0, <2>1 DEF StageTyped, WindowsTyped
    <3>2. player.id \in 1..StagePlays
      BY <1>0, <2>1, StageAssumption DEF StageTyped, PlayerTyped
    <3> QED BY <1>0, <3>1, <3>2 DEF StageTyped, WindowsTyped
  <2> QED BY <1>0, <1>2, <2>1, <2>2, <2>3, StopKeepsOrder DEF StageTyped
<1>9. CASE Stage!WindowOpened
  <2>1. PICK w \in windows.opening :
          /\ windows' = [windows EXCEPT !.opening = @ \ {w}]
          /\ player' = [player EXCEPT !.id = w]
          /\ UNCHANGED <<Stage!streamVars, Stage!stageVars, timers>>
    BY <1>9 DEF Stage!WindowOpened
  <2>2. WindowsTyped(windows') BY <1>0, <2>1 DEF StageTyped, WindowsTyped
  <2>3. w \in 0..StagePlays BY <1>0, StageAssumption DEF StageTyped, WindowsTyped
  <2>4. PlayerTyped(player') /\ (player'.blank => player.blank)
    BY <1>0, <2>1, <2>3 DEF StageTyped, PlayerTyped
  <2>5. UNCHANGED <<Stage!streamVars, Stage!stageVars>> /\ timers' = timers BY <2>1
  <2> QED BY <1>0, <1>4, <2>2, <2>4, <2>5, WindowsKeepOrder DEF StageTyped
<1>10. CASE Stage!UserCloses
  <2>1. PICK w \in windows.open \ windows.opening :
          /\ windows' = [windows EXCEPT !.open = @ \ {w}, !.closed = @ \cup {w}]
          /\ UNCHANGED <<Stage!streamVars, Stage!stageVars, player, timers>>
    BY <1>10 DEF Stage!UserCloses
  <2>2. WindowsTyped(windows')
    <3>1. windows' = [open |-> windows.open \ {w}, opening |-> windows.opening,
                      closed |-> windows.closed \cup {w}]
      BY <1>0, <2>1 DEF StageTyped, WindowsTyped
    <3> QED BY <1>0, <3>1 DEF StageTyped, WindowsTyped
  <2>3. UNCHANGED <<Stage!streamVars, Stage!stageVars>> /\ timers' = timers /\ player' = player BY <2>1
  <2> QED BY <1>0, <1>4, <2>2, <2>3, WindowsKeepOrder DEF StageTyped
<1>11. CASE Stage!WindowClosed
  <2>1. PICK w \in windows.closed :
          /\ windows' = [windows EXCEPT !.closed = @ \ {w}]
          /\ IF player.id = w
             THEN Stage!SessionStops /\ Stage!Invalidate(TRUE) /\ player' = [player EXCEPT !.id = 0, !.blank = TRUE]
             ELSE UNCHANGED <<Stage!streamVars, Stage!stageVars, player>>
          /\ UNCHANGED timers
    BY <1>11 DEF Stage!WindowClosed
  <2>2. WindowsTyped(windows') BY <1>0, <2>1 DEF StageTyped, WindowsTyped
  <2>3. CASE player.id = w
    <3>1. PlayerTyped(player') BY <1>0, <2>1, <2>3, ClosedIsTyped DEF StageTyped
    <3> QED BY <1>0, <1>2, <2>1, <2>2, <2>3, <3>1, StopKeepsOrder DEF StageTyped
  <2>4. CASE player.id # w
    <3>1. UNCHANGED <<Stage!streamVars, Stage!stageVars>> /\ timers' = timers /\ player' = player
      BY <2>1, <2>4
    <3> QED BY <1>0, <1>4, <2>2, <3>1, WindowsKeepOrder DEF StageTyped
  <2> QED BY <2>3, <2>4
<1>12. CASE Stage!EngineDecodes \/ Stage!EngineEnds \/ Stage!GpuReady
  <2>1. StageInOrder' BY <1>12, EngineKeepsOrder
  <2>2. stage' = stage /\ gpu'.shown = gpu.shown
    BY <1>0, <1>12 DEF Stage!EngineDecodes, Stage!EngineEnds, Stage!GpuReady, Stage!stageVars,
                       StageTyped, GpuTyped
  <2> QED BY <1>1, <2>1, <2>2
<1>13. CASE Stage!EndSeen
  <2>1. Stage!Invalidate(FALSE) BY <1>13 DEF Stage!EndSeen
  <2> QED BY <1>2, <1>13, <2>1, EndKeepsOrder
<1>14. CASE Stage!TickUploads
  <2>1. stage'.shown = stage.shown /\ gpu' = gpu
    BY <1>0, <1>14 DEF Stage!TickUploads, StageTyped, StageShaped
  <2> QED BY <1>1, <1>14, <2>1, TickKeepsOrder
<1>15. CASE UNCHANGED Stage!vars
  <2>1. UNCHANGED <<Stage!streamVars, Stage!stageVars>>
        /\ player' = player /\ windows' = windows /\ timers' = timers
    BY <1>15 DEF Stage!vars, Stage!streamVars, Stage!stageVars
  <2> QED BY <1>0, <1>4, <2>1, WindowsKeepOrder DEF StageTyped
<1> QED
  BY <1>5, <1>6, <1>7, <1>8, <1>9, <1>10, <1>11, <1>12, <1>13, <1>14, <1>15,
     UploadEndsInOrder, PresentKeepsOrder DEF Stage!Next

-----------------------------------------------------------------------------
(***************************************************************************)
(* The windows.  A window has the number of the stream it was opened for;  *)
(* a close that is due is for the streams before the generation it notes.  *)
(***************************************************************************)
WindowsNamed ==
  /\ windows.opening \subseteq windows.open /\ player.id \notin windows.opening /\ player.id <= plays
  /\ windows.open \cup windows.closed \subseteq 1..plays
  /\ windows.open \cap windows.closed = {}
TimersOfPlays == \A t \in timers : t.gen <= player.gen /\ (t.gen = player.gen => t.plays = plays)

\* For a user who waits until a window has opened: one window at a time, and one
\* that was stopped has its close due.
WindowsInStep ==
  /\ windows.open \subseteq {player.id} \cup windows.opening
  /\ \A a, b \in windows.opening : a = b
  /\ windows.opening # {} => ~player.blank /\ player.id = 0 /\ \A t \in timers : t.gen # player.gen
  /\ player.blank /\ player.id # 0 => \E t \in timers : t.gen = player.gen

\* What a step does to the windows, the timers and the number of streams.
WindowStep ==
  \/ Stage!Play
  \/ Stage!Stop
  \/ Stage!CloseDeferred
  \/ Stage!CloseNow
  \/ Stage!WindowOpened
  \/ Stage!UserCloses
  \/ Stage!WindowClosed
  \/ plays' = plays /\ player' = player /\ windows' = windows /\ timers' = timers

LEMMA StepsOfWindows == [Stage!Next]_(Stage!vars) => WindowStep
<1>1. Stage!EngineDecodes \/ Stage!EngineEnds \/ Stage!EndSeen \/ Stage!TickUploads
      \/ Stage!GpuReady \/ Stage!PresentStageFrame \/ UNCHANGED Stage!vars
      => plays' = plays /\ player' = player /\ windows' = windows /\ timers' = timers
  BY DEF Stage!EngineDecodes, Stage!EngineEnds, Stage!EndSeen, Stage!SessionStops, Stage!TickUploads,
    Stage!GpuReady, Stage!PresentStageFrame, Stage!vars, Stage!windowVars, Stage!streamVars
<1>2. Stage!VideoFrameAllocated
      => plays' = plays /\ player' = player /\ windows' = windows /\ timers' = timers
  BY DEF Stage!VideoFrameAllocated, Stage!windowVars, Stage!streamVars
<1> QED BY <1>1, <1>2 DEF Stage!Next, WindowStep

WindowsTypedAll ==
  /\ PlayerTyped(player) /\ WindowsTyped(windows) /\ timers \subseteq [gen : Nat, plays : Nat]
  /\ plays \in Nat

LEMMA PlayOfWindows ==
  ASSUME WindowsTypedAll, WindowsNamed, TimersOfPlays, Stage!Play
  PROVE  /\ WindowsNamed' /\ TimersOfPlays'
         /\ "fast" \notin StageFaults /\ WindowsInStep => WindowsInStep'
<1>1. /\ plays' = plays + 1 /\ timers' = timers
      /\ windows' = IF player.id # 0 THEN windows
                    ELSE [windows EXCEPT !.opening = @ \cup {plays + 1}, !.open = @ \cup {plays + 1}]
      /\ windows.opening = {} \/ "fast" \in StageFaults
  BY DEF Stage!Play
<1>2. player'.id = player.id /\ player'.gen = player.gen + 1 /\ ~player'.blank
  BY DEF Stage!Play, Stage!PlayBumpsGen, WindowsTypedAll, PlayerTyped
<1>3. player.gen \in Nat /\ player.id \in Nat /\ plays \in Nat /\ \A t \in timers : t.gen \in Nat
  BY StageAssumption DEF WindowsTypedAll, PlayerTyped
<1>4. \A t \in timers' : t.gen < player'.gen BY <1>1, <1>2, <1>3 DEF TimersOfPlays
<1>5. TimersOfPlays' BY <1>1, <1>2, <1>3, <1>4 DEF TimersOfPlays
<1>6. CASE player.id # 0
  <2>1. windows' = windows BY <1>1, <1>6
  <2>2. 1..plays \subseteq 1..plays' BY <1>1, <1>3
  <2>3. WindowsNamed' BY <1>1, <1>2, <1>3, <2>1, <2>2 DEF WindowsNamed
  <2> QED BY <1>1, <1>2, <1>5, <1>6, <2>1, <2>3 DEF WindowsInStep
<1>7. CASE player.id = 0
  <2>1. /\ windows'.opening = windows.opening \cup {plays + 1}
        /\ windows'.open = windows.open \cup {plays + 1} /\ windows'.closed = windows.closed
    BY <1>1, <1>7 DEF WindowsTypedAll, WindowsTyped
  <2>2. 1..plays' = 1..plays \cup {plays + 1} /\ plays + 1 \notin 1..plays BY <1>1, <1>3
  <2>3. plays + 1 # 0 BY <1>3
  <2>4. WindowsNamed' BY <1>1, <1>2, <1>3, <1>7, <2>1, <2>2, <2>3 DEF WindowsNamed
  <2>5. ASSUME "fast" \notin StageFaults, WindowsInStep PROVE WindowsInStep'
    <3>1. windows'.opening = {plays + 1} BY <1>1, <2>1, <2>5
    <3>2. windows.open \subseteq {player.id} BY <1>1, <2>5 DEF WindowsInStep
    <3>3. \A t \in timers' : t.gen # player'.gen BY <1>1, <1>2, <1>3, <1>4
    <3> QED BY <1>2, <1>7, <2>1, <3>1, <3>2, <3>3 DEF WindowsInStep
  <2> QED BY <1>5, <2>4, <2>5
<1> QED BY <1>6, <1>7

LEMMA StopOfWindows ==
  ASSUME WindowsTypedAll, WindowsNamed, TimersOfPlays, Stage!Stop
  PROVE  /\ WindowsNamed' /\ TimersOfPlays'
         /\ "fast" \notin StageFaults /\ WindowsInStep => WindowsInStep'
<1>1. /\ plays' = plays /\ windows' = windows
      /\ timers' = timers \cup {[gen |-> player.gen + 1, plays |-> plays]}
      /\ windows.opening = {} \/ "fast" \in StageFaults
  BY DEF Stage!Stop, Stage!SessionStops
<1>2. player'.id = player.id /\ player'.gen = player.gen + 1 /\ player'.blank
  BY DEF Stage!Stop, WindowsTypedAll, PlayerTyped
<1>3. player.gen \in Nat /\ player.id \in Nat /\ plays \in Nat /\ \A t \in timers : t.gen \in Nat
  BY StageAssumption DEF WindowsTypedAll, PlayerTyped
<1>4. TimersOfPlays' BY <1>1, <1>2, <1>3 DEF TimersOfPlays
<1>5. WindowsNamed' BY <1>1, <1>2, <1>3 DEF WindowsNamed
<1>6. \E t \in timers' : t.gen = player'.gen
  <2>1. [gen |-> player.gen + 1, plays |-> plays] \in timers' BY <1>1
  <2> QED BY <1>2, <2>1
<1> QED BY <1>1, <1>2, <1>4, <1>5, <1>6 DEF WindowsInStep

\* The window of the player closes: none is left if it was the only one.
LEMMA CloseOfWindows ==
  ASSUME WindowsTypedAll, WindowsNamed, plays' = plays, timers' \in SUBSET timers,
         windows'.opening = windows.opening, windows'.open = windows.open \ {player.id},
         windows'.closed = windows.closed \cup ({player.id} \ {0}), player'.id = 0
  PROVE  /\ WindowsNamed'
         /\ WindowsInStep /\ windows.opening = {} => WindowsInStep'
<1>1. player.id \in Nat /\ plays \in Nat
  BY StageAssumption DEF WindowsTypedAll, PlayerTyped
<1>2. 0 \notin windows'.opening BY <1>1 DEF WindowsNamed
<1>3. {player.id} \ {0} \subseteq 1..plays BY <1>1 DEF WindowsNamed
<1>4. WindowsNamed' BY <1>1, <1>2, <1>3 DEF WindowsNamed
<1>5. ASSUME WindowsInStep, windows.opening = {} PROVE WindowsInStep'
  <2>1. windows'.open = {} BY <1>5 DEF WindowsInStep
  <2> QED BY <1>5, <2>1 DEF WindowsInStep
<1> QED BY <1>4, <1>5

LEMMA WindowsOfAStep ==
  ASSUME WindowsTypedAll, WindowsNamed, TimersOfPlays, WindowStep
  PROVE  /\ WindowsNamed' /\ TimersOfPlays'
         /\ "fast" \notin StageFaults /\ WindowsInStep => WindowsInStep'
<1>0. /\ player.gen \in Nat /\ player.id \in Nat /\ plays \in Nat /\ \A t \in timers : t.gen \in Nat
      /\ DOMAIN player = {"id", "gen", "blank"}
  BY StageAssumption DEF WindowsTypedAll, PlayerTyped
<1>1. CASE Stage!CloseDeferred
  <2>1. PICK t \in timers :
          /\ timers' = timers \ {t}
          /\ IF t.gen # player.gen
             THEN UNCHANGED <<Stage!streamVars, Stage!stageVars, player, windows>>
             ELSE Stage!SessionStops /\ Stage!Invalidate(TRUE) /\ Stage!Close
    BY <1>1 DEF Stage!CloseDeferred
  <2>2. CASE t.gen # player.gen
    <3>1. plays' = plays /\ player' = player /\ windows' = windows /\ timers' = timers \ {t}
      BY <2>1, <2>2 DEF Stage!streamVars
    <3>2. WindowsNamed' BY <3>1 DEF WindowsNamed
    <3>3. TimersOfPlays' BY <3>1 DEF TimersOfPlays
    <3>4. ASSUME WindowsInStep PROVE WindowsInStep' BY <2>2, <3>1, <3>4 DEF WindowsInStep
    <3> QED BY <3>2, <3>3, <3>4
  <2>3. CASE t.gen = player.gen
    <3>1. /\ plays' = plays /\ timers' \in SUBSET timers /\ timers' = timers \ {t}
          /\ player' = [player EXCEPT !.id = 0, !.blank = TRUE]
      BY <2>1, <2>3 DEF Stage!SessionStops, Stage!Close
    <3>2. player'.id = 0 /\ player'.gen = player.gen BY <1>0, <3>1
    <3>3. /\ windows'.opening = windows.opening /\ windows'.open = windows.open \ {player.id}
          /\ windows'.closed = windows.closed \cup ({player.id} \ {0})
      BY <2>1, <2>3 DEF Stage!Close, WindowsTypedAll, WindowsTyped
    <3>4. TimersOfPlays' BY <3>1, <3>2 DEF TimersOfPlays
    <3>5. WindowsInStep => windows.opening = {} BY <2>3 DEF WindowsInStep
    <3>6. WindowsNamed' /\ (WindowsInStep /\ windows.opening = {} => WindowsInStep')
      BY <3>1, <3>2, <3>3, CloseOfWindows
    <3> QED BY <3>4, <3>5, <3>6
  <2> QED BY <2>2, <2>3
<1>2. CASE Stage!CloseNow
  <2>1. /\ plays' = plays /\ timers' = timers /\ timers' \in SUBSET timers /\ player.id # 0
        /\ player' = [id |-> 0, gen |-> player.gen + 1, blank |-> TRUE]
        /\ windows' = [windows EXCEPT !.open = @ \ {player.id}, !.closed = @ \cup {player.id}]
        /\ windows.opening = {} \/ "fast" \in StageFaults
    BY <1>2 DEF Stage!CloseNow, Stage!SessionStops
  <2>2. player'.id = 0 /\ player'.gen = player.gen + 1 BY <2>1
  <2>3. /\ windows'.opening = windows.opening /\ windows'.open = windows.open \ {player.id}
        /\ windows'.closed = windows.closed \cup ({player.id} \ {0})
    BY <2>1 DEF WindowsTypedAll, WindowsTyped
  <2>4. TimersOfPlays' BY <1>0, <2>1, <2>2 DEF TimersOfPlays
  <2>5. WindowsNamed' /\ (WindowsInStep /\ windows.opening = {} => WindowsInStep')
    BY <2>1, <2>2, <2>3, CloseOfWindows
  <2> QED BY <2>1, <2>4, <2>5
<1>3. CASE Stage!WindowOpened
  <2>1. PICK w \in windows.opening :
          /\ windows' = [windows EXCEPT !.opening = @ \ {w}]
          /\ player' = [player EXCEPT !.id = w]
          /\ UNCHANGED <<Stage!streamVars, Stage!stageVars, timers>>
    BY <1>3 DEF Stage!WindowOpened
  <2>2. plays' = plays /\ timers' = timers BY <2>1 DEF Stage!streamVars
  <2>3. player'.id = w /\ player'.gen = player.gen /\ player'.blank = player.blank BY <1>0, <2>1
  <2>4. /\ windows'.opening = windows.opening \ {w} /\ windows'.open = windows.open
        /\ windows'.closed = windows.closed
    BY <2>1 DEF WindowsTypedAll, WindowsTyped
  <2>5. w \in 1..plays BY DEF WindowsNamed
  <2>6. WindowsNamed' BY <1>0, <2>2, <2>3, <2>4, <2>5 DEF WindowsNamed
  <2>7. TimersOfPlays' BY <2>2, <2>3 DEF TimersOfPlays
  <2>8. ASSUME WindowsInStep PROVE WindowsInStep'
    <3>1. windows.opening = {w} /\ player.id = 0 /\ ~player.blank BY <2>8 DEF WindowsInStep
    <3>2. windows'.opening = {} BY <2>4, <3>1
    <3>3. 0 \notin windows.open BY <1>0 DEF WindowsNamed
    <3>4. windows'.open \subseteq {w} BY <2>4, <2>8, <3>1, <3>3 DEF WindowsInStep
    <3> QED BY <2>3, <3>1, <3>2, <3>4 DEF WindowsInStep
  <2> QED BY <2>6, <2>7, <2>8
<1>4. CASE Stage!UserCloses
  <2>1. PICK w \in windows.open \ windows.opening :
          /\ windows' = [windows EXCEPT !.open = @ \ {w}, !.closed = @ \cup {w}]
          /\ UNCHANGED <<Stage!streamVars, Stage!stageVars, player, timers>>
    BY <1>4 DEF Stage!UserCloses
  <2>2. plays' = plays /\ timers' = timers /\ player' = player BY <2>1 DEF Stage!streamVars
  <2>3. /\ windows'.opening = windows.opening /\ windows'.open = windows.open \ {w}
        /\ windows'.closed = windows.closed \cup {w}
    BY <2>1 DEF WindowsTypedAll, WindowsTyped
  <2>4. WindowsNamed' BY <2>2, <2>3 DEF WindowsNamed
  <2>5. TimersOfPlays' BY <2>2 DEF TimersOfPlays
  <2>6. ASSUME WindowsInStep PROVE WindowsInStep' BY <2>2, <2>3, <2>6 DEF WindowsInStep
  <2> QED BY <2>4, <2>5, <2>6
<1>5. CASE Stage!WindowClosed
  <2>1. PICK w \in windows.closed :
          /\ windows' = [windows EXCEPT !.closed = @ \ {w}]
          /\ IF player.id = w
             THEN Stage!SessionStops /\ Stage!Invalidate(TRUE) /\ player' = [player EXCEPT !.id = 0, !.blank = TRUE]
             ELSE UNCHANGED <<Stage!streamVars, Stage!stageVars, player>>
          /\ UNCHANGED timers
    BY <1>5 DEF Stage!WindowClosed
  <2>2. plays' = plays /\ timers' = timers BY <2>1 DEF Stage!SessionStops, Stage!streamVars
  <2>3. /\ windows'.opening = windows.opening /\ windows'.open = windows.open
        /\ windows'.closed = windows.closed \ {w}
    BY <2>1 DEF WindowsTypedAll, WindowsTyped
  <2>4. w \in 1..plays /\ w \notin windows.open /\ 0 \notin windows.opening BY <1>0 DEF WindowsNamed
  <2>5. CASE player.id = w
    <3>1. player'.id = 0 /\ player'.gen = player.gen BY <1>0, <2>1, <2>5
    <3>2. WindowsNamed' BY <1>0, <2>2, <2>3, <2>4, <3>1 DEF WindowsNamed
    <3>3. TimersOfPlays' BY <2>2, <3>1 DEF TimersOfPlays
    <3>4. ASSUME WindowsInStep PROVE WindowsInStep'
      <4>1. windows.opening = {} /\ windows.open = {}
        BY <1>0, <2>4, <2>5, <3>4 DEF WindowsInStep
      <4> QED BY <2>3, <3>1, <4>1 DEF WindowsInStep
    <3> QED BY <3>2, <3>3, <3>4
  <2>6. CASE player.id # w
    <3>1. player' = player BY <2>1, <2>6
    <3>2. WindowsNamed' BY <2>2, <2>3, <3>1 DEF WindowsNamed
    <3>3. TimersOfPlays' BY <2>2, <3>1 DEF TimersOfPlays
    <3>4. ASSUME WindowsInStep PROVE WindowsInStep' BY <2>2, <2>3, <3>1, <3>4 DEF WindowsInStep
    <3> QED BY <3>2, <3>3, <3>4
  <2> QED BY <2>5, <2>6
<1>6. CASE plays' = plays /\ player' = player /\ windows' = windows /\ timers' = timers
  BY <1>6 DEF WindowsNamed, TimersOfPlays, WindowsInStep
<1> QED
  BY <1>1, <1>2, <1>3, <1>4, <1>5, <1>6, PlayOfWindows, StopOfWindows DEF WindowStep

StageFollows == StageInOrder /\ WindowsNamed /\ TimersOfPlays

LEMMA StageFollowsInit == Stage!Init => StageFollows /\ WindowsInStep
<1>1. ASSUME Stage!Init PROVE WindowsNamed /\ TimersOfPlays /\ WindowsInStep
  BY <1>1 DEF Stage!Init, WindowsNamed, TimersOfPlays, WindowsInStep
<1> QED BY <1>1, StageInit DEF StageFollows

LEMMA StageFollowsStep ==
  ASSUME StageFollows, [Stage!Next]_(Stage!vars)
  PROVE  /\ StageFollows'
         /\ "fast" \notin StageFaults /\ WindowsInStep => WindowsInStep'
<1>1. StageInOrder /\ WindowsNamed /\ TimersOfPlays BY DEF StageFollows
<1>2. WindowsTypedAll
  BY <1>1, StageAssumption DEF StageInOrder, StageTyped, StreamTyped, WindowsTypedAll
<1>3. WindowStep BY StepsOfWindows
<1>4. StageInOrder' BY <1>1, StageStep
<1> QED BY <1>1, <1>2, <1>3, <1>4, WindowsOfAStep DEF StageFollows

\* The state of the player window has its type; with it, one upload at most is
\* under way for the stage, and the stage is busy exactly when one is
\* (video_upload_busy, app.rs).
THEOREM StageIsTyped == Stage!Spec => []Stage!TypeOK
<1>1. ASSUME StageFollows PROVE Stage!TypeOK
  <2>1. StageTyped /\ UploadsInOrder /\ windows.opening \subseteq windows.open
    BY <1>1 DEF StageFollows, StageInOrder, WindowsNamed
  <2>2. Stage!Cardinality(Stage!OfThisStage) = Cardinality(Stage!OfThisStage)
    BY DEF Stage!Cardinality, Cardinality
  <2>3. Cardinality(Stage!OfThisStage) = IF stage.busy THEN 1 ELSE 0
    <3>1. CASE stage.busy
      <4>1. PICK u \in uploads : u.gen = stage.gen BY <2>1, <3>1 DEF UploadsInOrder
      <4>2. Stage!OfThisStage = {u} BY <2>1, <4>1 DEF UploadsInOrder, Stage!OfThisStage
      <4> QED BY <3>1, <4>2, FS_Singleton
    <3>2. CASE ~stage.busy
      <4>1. Stage!OfThisStage = {} BY <2>1, <3>2 DEF UploadsInOrder, Stage!OfThisStage
      <4> QED BY <3>2, <4>1, FS_EmptySet
    <3> QED BY <3>1, <3>2
  <2> QED
    BY <2>1, <2>2, <2>3 DEF Stage!TypeOK, StageTyped, StreamTyped, PlayerTyped, StageShaped,
      GpuTyped, UploadsInOrder
<1>2. Stage!Init => StageFollows BY StageFollowsInit
<1>3. StageFollows /\ [Stage!Next]_(Stage!vars) => StageFollows' BY StageFollowsStep
<1> QED BY <1>1, <1>2, <1>3, PTL DEF Stage!Spec

\* A picture that comes on the stage is of the stream that plays and newer than
\* those it showed: VideoFrameAllocated drops the upload of an earlier
\* generation, and the one of the present is ahead of what is shown.
THEOREM PicturesFollow == Stage!Spec => Stage!PicturesInOrder
<1>1. Stage!Init => StageInOrder BY StageInit
<1>2. StageInOrder /\ [Stage!Next]_(Stage!vars) => StageInOrder' BY StageStep
<1>3. StageInOrder /\ [Stage!Next]_(Stage!vars) => [Stage!ShowsNewer]_(Stage!vars) BY StageStep
<1> QED BY <1>1, <1>2, <1>3, PTL DEF Stage!Spec, Stage!PicturesInOrder

\* A close that is late, or of a window that is not the player's, leaves the
\* stream opened since alone (ClosePlayerWindowDeferred, WindowClosed).
THEOREM ClosesSpareThePlay == Stage!Spec => Stage!CloseSparesPlay
<1>1. ASSUME StageFollows PROVE Stage!SparesNewPlay
  <2>1. ASSUME Stage!CloseDeferred, \A t \in timers \ timers' : t.plays # plays
        PROVE  screened' = screened
    <3>1. PICK t \in timers :
            /\ timers' = timers \ {t}
            /\ IF t.gen # player.gen
               THEN UNCHANGED <<Stage!streamVars, Stage!stageVars, player, windows>>
               ELSE Stage!SessionStops /\ Stage!Invalidate(TRUE) /\ Stage!Close
      BY <2>1 DEF Stage!CloseDeferred
    <3>2. t.plays # plays BY <2>1, <3>1
    <3>3. t.gen # player.gen BY <1>1, <3>2 DEF StageFollows, TimersOfPlays
    <3> QED BY <3>1, <3>3 DEF Stage!streamVars
  <2>2. ASSUME Stage!WindowClosed, player.id \notin windows.closed PROVE screened' = screened
    BY <2>2 DEF Stage!WindowClosed, Stage!streamVars
  <2> QED BY <2>1, <2>2 DEF Stage!SparesNewPlay
<1>2. Stage!Init => StageFollows BY StageFollowsInit
<1>3. StageFollows /\ [Stage!Next]_(Stage!vars) => StageFollows' BY StageFollowsStep
<1>4. StageFollows /\ [Stage!Next]_(Stage!vars) => [Stage!SparesNewPlay]_(Stage!vars) BY <1>1
<1> QED BY <1>2, <1>3, <1>4, PTL DEF Stage!Spec, Stage!CloseSparesPlay

\* A player that was stopped shows nothing, and has no window once what is due
\* is done, for a user who waits until a window has opened.
THEOREM StoppedStaysOver ==
  ASSUME "fast" \notin StageFaults PROVE Stage!Spec => []StoppedIsOver
<1>1. ASSUME StageFollows, WindowsInStep PROVE StoppedIsOver
  <2>1. Stage!StoppedIsBlank
    BY <1>1 DEF StageFollows, StageInOrder, BlankShowsNothing, Stage!StoppedIsBlank
  <2>2. ASSUME Stage!Rest, player.blank PROVE windows.open = {}
    <3>1. timers = {} /\ windows.opening = {} BY <2>2 DEF Stage!Rest
    <3>2. player.id = 0 BY <1>1, <2>2, <3>1 DEF WindowsInStep
    <3>3. plays \in Nat
      BY <1>1, StageAssumption DEF StageFollows, StageInOrder, StageTyped, StreamTyped
    <3>4. 0 \notin windows.open BY <1>1, <3>3 DEF StageFollows, WindowsNamed
    <3> QED BY <1>1, <3>1, <3>2, <3>4 DEF WindowsInStep
  <2> QED BY <2>1, <2>2 DEF StoppedIsOver, Stage!StoppedIsClosed
<1>2. Stage!Init => StageFollows /\ WindowsInStep BY StageFollowsInit
<1>3. StageFollows /\ WindowsInStep /\ [Stage!Next]_(Stage!vars) => (StageFollows /\ WindowsInStep)'
  BY StageFollowsStep
<1> QED BY <1>1, <1>2, <1>3, PTL DEF Stage!Spec

-----------------------------------------------------------------------------
(***************************************************************************)
(* The slots of the pictures.  A slot that somebody has is busy and not    *)
(* given back, two frames of the attached set have different slots, and    *)
(* the presenter is never at work in one of them.                          *)
(***************************************************************************)
CONSTANTS FrameSlots, FrameSets, FramePictures, FrameFaults

ASSUME FramesAssumption ==
  FrameSlots \in Nat \ {0} /\ FrameSets \in Nat \ {0} /\ FramePictures \in Nat

VARIABLES four, present, content, pump, held

Frames == INSTANCE FramePump WITH
  c <- four, N <- FrameSlots, MaxSets <- FrameSets, MaxFrames <- FramePictures,
  Faults <- FrameFaults

Framed == [set : Frames!Sets, slot : Frames!Slots, n : 1..FramePictures]
Owned == held \cup ({pump.latest} \ {Frames!NoFrame})

SlotsTyped ==
  /\ DOMAIN four = {"set", "need", "busy", "last", "ready"}
  /\ four.set \in 0..four.need /\ four.need \in Frames!Sets /\ four.busy \subseteq Frames!Slots
  /\ four.last \in {-1} \cup Frames!Slots /\ four.ready \in Framed \cup {Frames!NoFrame}
PresenterTyped ==
  present \in [at : {"idle", "copy", "publish"}, n : 0..FramePictures, size : Frames!Sets,
               slot : {-1} \cup Frames!Slots]
PumpTyped ==
  /\ DOMAIN pump = {"mask", "latest"}
  /\ pump.mask \subseteq four.busy /\ pump.latest \in Framed \cup {Frames!NoFrame}
ContentTyped == content \in [Frames!Sets -> [Frames!Slots -> Nat]]

FramesTyped == SlotsTyped /\ PresenterTyped /\ PumpTyped /\ ContentTyped /\ held \subseteq Framed

SlotsOwned ==
  /\ \A f \in Owned : f.set <= four.set /\ (f.set = four.set => f.slot \in four.busy \ pump.mask)
  /\ \A f, g \in Owned : f.set = four.set /\ g.set = four.set /\ f.slot = g.slot => f = g
  /\ pump.latest \notin held
  /\ four.ready # Frames!NoFrame =>
       four.ready.set = four.set /\ four.ready.slot = four.last /\ four.last \notin four.busy
  /\ present.at # "idle" =>
       four.set # 0 /\ present.n # 0 /\ present.slot \in Frames!Slots \ (four.busy \cup {four.last})

FramesInOrder == FramesTyped /\ SlotsOwned

\* What the slots hold, when none is attached between a copy and its publication.
ContentHeld ==
  /\ \A f \in Owned \cup ({four.ready} \ {Frames!NoFrame}) : content[f.set][f.slot] = f.n
  /\ present.at = "publish" => four.set = present.size /\ content[four.set][present.slot] = present.n

LEMMA FramesInit == Frames!Init => FramesInOrder /\ ContentHeld
<1> SUFFICES ASSUME Frames!Init PROVE FramesInOrder /\ ContentHeld
  OBVIOUS
<1>0. Owned = {} /\ four.ready = Frames!NoFrame /\ present.at = "idle"
  BY DEF Frames!Init, Owned
<1>1. SlotsTyped BY FramesAssumption DEF Frames!Init, SlotsTyped, Frames!Sets, Frames!Slots
<1>2. PresenterTyped BY FramesAssumption DEF Frames!Init, PresenterTyped, Frames!Sets, Frames!Slots
<1>3. PumpTyped BY DEF Frames!Init, PumpTyped
<1>4. ContentTyped BY DEF Frames!Init, ContentTyped
<1>5. FramesTyped BY <1>1, <1>2, <1>3, <1>4 DEF FramesTyped, Frames!Init
<1>6. SlotsOwned BY <1>0 DEF SlotsOwned, Frames!Init
<1>7. ContentHeld BY <1>0 DEF ContentHeld
<1> QED BY <1>5, <1>6, <1>7 DEF FramesInOrder

\* The slot the presenter picks is one of the card's, neither busy nor shown last.
LEMMA PickedIsFree ==
  ASSUME FramesTyped, NEW free, free = Frames!Pick(four.busy, four.last), free # {}
  PROVE  (four.last + Frames!Min(free) + FrameSlots) % FrameSlots \in Frames!Slots \ (four.busy \cup {four.last})
<1>0. FrameSlots \in Nat /\ FrameSlots # 0 /\ four.last \in -1..FrameSlots
  BY FramesAssumption DEF FramesTyped, SlotsTyped, Frames!Slots
<1>1. free \subseteq Nat BY DEF Frames!Pick
<1>2. \E m \in free : \A k \in free : m <= k BY <1>1, LeastNumber
<1>3. Frames!Min(free) \in free BY <1>2 DEF Frames!Min
<1>4. Frames!Min(free) \in 1..FrameSlots
      /\ (four.last + Frames!Min(free) + FrameSlots) % FrameSlots \notin four.busy \cup {four.last}
  BY <1>3 DEF Frames!Pick
<1>5. (four.last + Frames!Min(free) + FrameSlots) % FrameSlots \in 0..(FrameSlots - 1)
  BY <1>0, <1>4
<1> QED BY <1>4, <1>5 DEF Frames!Slots

\* The presenter and the decoder.
LEMMA PresenterKeepsSlots ==
  ASSUME FramesInOrder, Frames!Resize \/ Frames!PresenterPicks
  PROVE  /\ FramesInOrder' /\ (ContentHeld => ContentHeld')
         /\ (Frames!NoSlotLost => Frames!NoSlotLost')
<1>0. FramesTyped /\ SlotsOwned BY DEF FramesInOrder
<1>1. CASE Frames!Resize
  <2>1. /\ UNCHANGED <<present, content, pump, held>>
        /\ four' = [four EXCEPT !.need = @ + 1] /\ four.need < FrameSets
    BY <1>1 DEF Frames!Resize
  <2>2. /\ four'.set = four.set /\ four'.busy = four.busy /\ four'.last = four.last
        /\ four'.ready = four.ready /\ four'.need = four.need + 1
        /\ DOMAIN four' = {"set", "need", "busy", "last", "ready"}
    BY <1>0, <2>1 DEF FramesTyped, SlotsTyped
  <2>3. four'.need \in Frames!Sets /\ four.set \in 0..four'.need
    BY <1>0, <2>1, <2>2, FramesAssumption DEF FramesTyped, SlotsTyped, Frames!Sets
  <2>4. SlotsTyped' BY <1>0, <2>2, <2>3 DEF FramesTyped, SlotsTyped
  <2>5. FramesTyped' BY <1>0, <2>1, <2>2, <2>4 DEF FramesTyped, PresenterTyped, PumpTyped, ContentTyped
  <2>6. SlotsOwned' BY <1>0, <2>1, <2>2 DEF SlotsOwned, Owned
  <2>7. ContentHeld => ContentHeld' BY <2>1, <2>2 DEF ContentHeld, Owned
  <2>8. Frames!NoSlotLost => Frames!NoSlotLost' BY <2>1, <2>2 DEF Frames!NoSlotLost
  <2> QED BY <2>5, <2>6, <2>7, <2>8 DEF FramesInOrder
<1>2. CASE Frames!PresenterPicks
  <2> DEFINE free == Frames!Pick(four.busy, four.last)
  <2>1. /\ UNCHANGED <<four, content, pump, held>>
        /\ present.at = "idle" /\ present.n < FramePictures /\ four.set # 0
    BY <1>2 DEF Frames!PresenterPicks
  <2>2. PICK size \in present.size..four.need :
          present' = IF free = {} THEN [present EXCEPT !.n = @ + 1, !.size = size]
                     ELSE [at |-> "copy", n |-> present.n + 1, size |-> size,
                           slot |-> (four.last + Frames!Min(free) + FrameSlots) % FrameSlots]
    BY <1>2 DEF Frames!PresenterPicks
  <2>3. size \in Frames!Sets /\ present.n + 1 \in 0..FramePictures /\ present.n + 1 # 0
    BY <1>0, <2>1, <2>2, FramesAssumption DEF FramesTyped, SlotsTyped, PresenterTyped, Frames!Sets
  <2>4. CASE free = {}
    <3>1. PresenterTyped' BY <1>0, <2>2, <2>3, <2>4 DEF FramesTyped, PresenterTyped
    <3>2. present'.at = "idle" BY <1>0, <2>1, <2>2, <2>4 DEF FramesTyped, PresenterTyped
    <3>3. FramesTyped' BY <1>0, <2>1, <3>1 DEF FramesTyped, SlotsTyped, PumpTyped, ContentTyped
    <3>4. SlotsOwned' BY <1>0, <2>1, <3>2 DEF SlotsOwned, Owned
    <3>5. ContentHeld => ContentHeld' BY <2>1, <3>2 DEF ContentHeld, Owned
    <3>6. Frames!NoSlotLost => Frames!NoSlotLost' BY <2>1 DEF Frames!NoSlotLost
    <3> QED BY <3>3, <3>4, <3>5, <3>6 DEF FramesInOrder
  <2>5. CASE free # {}
    <3> DEFINE picked == (four.last + Frames!Min(free) + FrameSlots) % FrameSlots
    <3>1. picked \in Frames!Slots \ (four.busy \cup {four.last})
      BY <1>0, <2>5, PickedIsFree
    <3>2. present' = [at |-> "copy", n |-> present.n + 1, size |-> size, slot |-> picked]
      BY <2>2, <2>5
    <3> HIDE DEF picked, free
    <3>3. PresenterTyped' BY <2>3, <3>1, <3>2 DEF PresenterTyped
    <3>4. present'.at = "copy" /\ present'.n = present.n + 1 /\ present'.slot = picked BY <3>2
    <3>5. FramesTyped' BY <1>0, <2>1, <3>3 DEF FramesTyped, SlotsTyped, PumpTyped, ContentTyped
    <3>6. SlotsOwned' BY <1>0, <2>1, <2>3, <3>1, <3>4 DEF SlotsOwned, Owned
    <3>7. ContentHeld => ContentHeld' BY <2>1, <3>4 DEF ContentHeld, Owned
    <3>8. Frames!NoSlotLost => Frames!NoSlotLost' BY <2>1 DEF Frames!NoSlotLost
    <3> QED BY <3>5, <3>6, <3>7, <3>8 DEF FramesInOrder
  <2> QED BY <2>4, <2>5
<1> QED BY <1>1, <1>2

\* A copy is made into the slot picked, if the slots attached are of its size.
LEMMA CopyKeepsSlots ==
  ASSUME FramesInOrder, Frames!PresenterCopies
  PROVE  /\ FramesInOrder' /\ (ContentHeld => ContentHeld')
         /\ (Frames!NoSlotLost => Frames!NoSlotLost')
<1>0. FramesTyped /\ SlotsOwned BY DEF FramesInOrder
<1>1. UNCHANGED <<four, pump, held>> /\ present.at = "copy" BY DEF Frames!PresenterCopies
<1>2. Owned' = Owned BY <1>1 DEF Owned
<1>3. /\ four.set # 0 /\ present.slot \in Frames!Slots \ (four.busy \cup {four.last})
      /\ present.n \in Nat /\ four.set \in Nat
  BY <1>0, <1>1, FramesAssumption DEF FramesTyped, SlotsTyped, PresenterTyped, SlotsOwned, Frames!Sets
<1>4. Frames!NoSlotLost => Frames!NoSlotLost' BY <1>1 DEF Frames!NoSlotLost
<1>5. CASE four.set = present.size
  <2>1. /\ content' = [content EXCEPT ![four.set][present.slot] = present.n]
        /\ present' = [present EXCEPT !.at = "publish"]
    BY <1>5 DEF Frames!PresenterCopies
  <2>2. /\ present'.at = "publish" /\ present'.n = present.n /\ present'.size = present.size
        /\ present'.slot = present.slot /\ PresenterTyped'
    BY <1>0, <2>1 DEF FramesTyped, PresenterTyped
  <2>3. four.set \in Frames!Sets BY <1>0, <1>5 DEF FramesTyped, PresenterTyped
  <2>4. /\ ContentTyped' /\ content'[four.set][present.slot] = present.n
        /\ \A s \in Frames!Sets, k \in Frames!Slots :
             s # four.set \/ k # present.slot => content'[s][k] = content[s][k]
    BY <1>0, <1>3, <2>1, <2>3 DEF FramesTyped, ContentTyped
  <2>5. FramesTyped' BY <1>0, <1>1, <2>2, <2>4 DEF FramesTyped, SlotsTyped, PumpTyped
  <2>6. SlotsOwned' BY <1>0, <1>1, <1>2, <2>2 DEF SlotsOwned
  <2>7. ASSUME ContentHeld PROVE ContentHeld'
    <3>1. ASSUME NEW f \in Owned \cup ({four.ready} \ {Frames!NoFrame}) PROVE content'[f.set][f.slot] = f.n
      <4>1. f.set \in Frames!Sets /\ f.slot \in Frames!Slots
        BY <1>0, <3>1 DEF FramesTyped, SlotsTyped, PumpTyped, Owned, Framed
      <4>2. f.set # four.set \/ f.slot # present.slot
        BY <1>0, <1>3, <3>1 DEF SlotsOwned
      <4>3. content[f.set][f.slot] = f.n BY <2>7, <3>1 DEF ContentHeld
      <4> QED BY <2>4, <4>1, <4>2, <4>3
    <3> QED BY <1>1, <1>2, <1>5, <2>2, <2>4, <3>1 DEF ContentHeld
  <2> QED BY <1>4, <2>5, <2>6, <2>7 DEF FramesInOrder
<1>6. CASE four.set # present.size
  <2>1. content' = content /\ present' = [present EXCEPT !.at = "idle"]
    BY <1>6 DEF Frames!PresenterCopies
  <2>2. present'.at = "idle" /\ PresenterTyped' BY <1>0, <2>1 DEF FramesTyped, PresenterTyped
  <2>3. FramesTyped' BY <1>0, <1>1, <2>1, <2>2 DEF FramesTyped, SlotsTyped, PumpTyped, ContentTyped
  <2>4. SlotsOwned' BY <1>0, <1>1, <1>2, <2>2 DEF SlotsOwned
  <2>5. ContentHeld => ContentHeld' BY <1>1, <1>2, <2>1, <2>2 DEF ContentHeld
  <2> QED BY <1>4, <2>3, <2>4, <2>5 DEF FramesInOrder
<1> QED BY <1>5, <1>6

LEMMA PublishKeepsSlots ==
  ASSUME FramesInOrder, Frames!PresenterPublishes
  PROVE  /\ FramesInOrder' /\ (ContentHeld => ContentHeld')
         /\ (Frames!NoSlotLost => Frames!NoSlotLost')
<1>0. FramesTyped /\ SlotsOwned BY DEF FramesInOrder
<1> DEFINE given == [set |-> four.set, slot |-> present.slot, n |-> present.n]
<1>1. /\ UNCHANGED <<content, pump, held>> /\ present.at = "publish"
      /\ four' = [four EXCEPT !.last = present.slot, !.ready = given]
      /\ present' = [present EXCEPT !.at = "idle"]
  BY DEF Frames!PresenterPublishes
<1>2. Owned' = Owned BY <1>1 DEF Owned
<1>3. /\ four'.set = four.set /\ four'.need = four.need /\ four'.busy = four.busy
      /\ four'.last = present.slot /\ four'.ready = given
      /\ DOMAIN four' = {"set", "need", "busy", "last", "ready"}
  BY <1>0, <1>1 DEF FramesTyped, SlotsTyped
<1>4. present'.at = "idle" /\ PresenterTyped' BY <1>0, <1>1 DEF FramesTyped, PresenterTyped
<1>5. present.slot \in Frames!Slots \ four.busy /\ four.set # 0 /\ present.n # 0
  BY <1>0, <1>1 DEF SlotsOwned
<1>6. four.set \in Frames!Sets /\ present.n \in 1..FramePictures
  BY <1>0, <1>5, FramesAssumption DEF FramesTyped, SlotsTyped, PresenterTyped, Frames!Sets
<1>7. given \in Framed /\ given.set = four.set /\ given.slot = present.slot /\ given.n = present.n
  BY <1>5, <1>6 DEF Framed
<1> HIDE DEF given
<1>8. FramesTyped' BY <1>0, <1>1, <1>3, <1>4, <1>5, <1>7 DEF FramesTyped, SlotsTyped, PumpTyped, ContentTyped
<1>9. SlotsOwned' BY <1>0, <1>1, <1>2, <1>3, <1>4, <1>5, <1>7 DEF SlotsOwned
<1>10. ContentHeld => ContentHeld' BY <1>1, <1>2, <1>3, <1>4, <1>7 DEF ContentHeld
<1>11. Frames!NoSlotLost => Frames!NoSlotLost' BY <1>1, <1>3 DEF Frames!NoSlotLost
<1> QED BY <1>8, <1>9, <1>10, <1>11 DEF FramesInOrder

\* Other slots are attached: nobody has a frame of them yet.
LEMMA AttachKeepsSlots ==
  ASSUME FramesInOrder, Frames!Attach
  PROVE  /\ FramesInOrder' /\ ("resize" \notin FrameFaults /\ ContentHeld => ContentHeld')
         /\ Frames!NoSlotLost'
<1>0. FramesTyped /\ SlotsOwned BY DEF FramesInOrder
<1>1. /\ UNCHANGED <<present, content, held>> /\ four.set # four.need
      /\ present.at # "publish" \/ "resize" \in FrameFaults
      /\ four' = [four EXCEPT !.set = four.need, !.busy = {}, !.last = -1, !.ready = Frames!NoFrame]
      /\ pump' = [pump EXCEPT !.mask = {}]
  BY DEF Frames!Attach
<1>2. /\ four'.set = four.need /\ four'.need = four.need /\ four'.busy = {}
      /\ four'.last = -1 /\ four'.ready = Frames!NoFrame
      /\ DOMAIN four' = {"set", "need", "busy", "last", "ready"}
  BY <1>0, <1>1 DEF FramesTyped, SlotsTyped
<1>3. pump'.mask = {} /\ pump'.latest = pump.latest /\ DOMAIN pump' = {"mask", "latest"}
  BY <1>0, <1>1 DEF FramesTyped, PumpTyped
<1>4. Owned' = Owned BY <1>1, <1>3 DEF Owned
<1>5. four.need \in Nat /\ four.need # 0 /\ four.set \in Nat /\ four.set < four.need
  BY <1>0, <1>1, FramesAssumption DEF FramesTyped, SlotsTyped, Frames!Sets
<1>6. \A f \in Owned : f.set \in Nat /\ f.set <= four.set
  BY <1>0, FramesAssumption DEF SlotsOwned, FramesTyped, PumpTyped, Owned, Framed, Frames!Sets
<1>7. FramesTyped'
  BY <1>0, <1>1, <1>2, <1>3, <1>5 DEF FramesTyped, SlotsTyped, PresenterTyped, PumpTyped, ContentTyped
<1>8. \A f \in Owned' : f.set <= four'.set /\ f.set # four'.set BY <1>2, <1>4, <1>5, <1>6
<1>9. present.at # "idle" => present.slot \in Frames!Slots /\ present.slot # -1 /\ present.n # 0
  BY <1>0, FramesAssumption DEF SlotsOwned, Frames!Slots
<1>10. SlotsOwned' BY <1>0, <1>1, <1>2, <1>3, <1>5, <1>8, <1>9 DEF SlotsOwned
<1>11. "resize" \notin FrameFaults /\ ContentHeld => ContentHeld'
  BY <1>1, <1>2, <1>4 DEF ContentHeld
<1>12. Frames!NoSlotLost' BY <1>2 DEF Frames!NoSlotLost
<1> QED BY <1>7, <1>10, <1>11, <1>12 DEF FramesInOrder

\* What is published becomes the latest frame; the one it replaces is given back.
LEMMA PullKeepsSlots ==
  ASSUME FramesInOrder, Frames!Pull
  PROVE  /\ FramesInOrder' /\ (ContentHeld => ContentHeld')
         /\ (Frames!NoSlotLost => Frames!NoSlotLost')
<1>0. FramesTyped /\ SlotsOwned BY DEF FramesInOrder
<1> DEFINE given == four.ready
<1>1. /\ UNCHANGED <<present, content, held>> /\ given # Frames!NoFrame
      /\ four' = [four EXCEPT !.busy = @ \cup {given.slot}, !.ready = Frames!NoFrame]
      /\ pump' = [latest |-> given, mask |-> pump.mask \cup Frames!ReleasedBy(pump.latest)]
  BY DEF Frames!Pull, Frames!Pulled
<1>2. /\ four'.set = four.set /\ four'.need = four.need /\ four'.busy = four.busy \cup {given.slot}
      /\ four'.last = four.last /\ four'.ready = Frames!NoFrame
      /\ DOMAIN four' = {"set", "need", "busy", "last", "ready"}
  BY <1>0, <1>1 DEF FramesTyped, SlotsTyped
<1>3. /\ pump'.latest = given /\ DOMAIN pump' = {"mask", "latest"}
      /\ pump'.mask = pump.mask \cup Frames!ReleasedBy(pump.latest)
  BY <1>1
<1>4. given \in Framed /\ given.slot \in Frames!Slots BY <1>0, <1>1 DEF FramesTyped, SlotsTyped, Framed
<1>5. given.set = four.set /\ given.slot = four.last /\ given.slot \notin four.busy
  BY <1>0, <1>1 DEF SlotsOwned
<1> HIDE DEF given
<1>6. Owned' = held \cup {given} BY <1>1, <1>3 DEF Owned
<1>7. Frames!ReleasedBy(pump.latest) \subseteq four.busy
      /\ \A f \in held : f.set = four.set => f.slot \notin Frames!ReleasedBy(pump.latest)
  <2>1. CASE pump.latest = Frames!NoFrame
    <3>1. Frames!ReleasedBy(pump.latest) = {} BY <2>1 DEF Frames!ReleasedBy, Frames!NoFrame
    <3> QED BY <3>1
  <2>2. CASE pump.latest # Frames!NoFrame
    <3>1. pump.latest \in Owned /\ held \subseteq Owned BY <2>2 DEF Owned
    <3> QED BY <1>0, <3>1 DEF SlotsOwned, Frames!ReleasedBy
  <2> QED BY <2>1, <2>2
<1>8. FramesTyped'
  <2>1. SlotsTyped' BY <1>0, <1>2, <1>4 DEF FramesTyped, SlotsTyped
  <2>2. PumpTyped' BY <1>0, <1>2, <1>3, <1>4, <1>7 DEF FramesTyped, PumpTyped
  <2> QED BY <1>0, <1>1, <2>1, <2>2 DEF FramesTyped, PresenterTyped, ContentTyped
<1>9. SlotsOwned'
  <2>1. \A f \in held : f.set <= four.set /\ (f.set = four.set => f.slot \in four'.busy \ pump'.mask)
    BY <1>0, <1>2, <1>3, <1>7 DEF SlotsOwned, Owned
  <2>2. given.slot \in four'.busy \ pump'.mask
    BY <1>0, <1>2, <1>3, <1>5, <1>7 DEF FramesTyped, PumpTyped
  <2>3. given.set <= four.set
    BY <1>0, <1>5, FramesAssumption DEF FramesTyped, SlotsTyped, Frames!Sets
  <2>4. \A f \in held : f.set = four.set => f.slot # given.slot
    BY <1>0, <1>5 DEF SlotsOwned, Owned
  <2>5. \A f, g \in held : f.set = four.set /\ g.set = four.set /\ f.slot = g.slot => f = g
    BY <1>0 DEF SlotsOwned, Owned
  <2>6. given \notin held BY <1>5, <2>4
  <2>7. present'.at # "idle" =>
          four'.set # 0 /\ present'.n # 0 /\ present'.slot \in Frames!Slots \ (four'.busy \cup {four'.last})
    BY <1>0, <1>1, <1>2, <1>5 DEF SlotsOwned
  <2> QED BY <1>1, <1>2, <1>3, <1>5, <1>6, <2>1, <2>2, <2>3, <2>4, <2>5, <2>6, <2>7 DEF SlotsOwned
<1>10. ContentHeld => ContentHeld'
  BY <1>1, <1>2, <1>6 DEF ContentHeld, Owned, given
<1>11. ASSUME Frames!NoSlotLost PROVE Frames!NoSlotLost'
  <2>1. \A k \in four.busy :
          k \in pump.mask \/ \E f \in held \cup {pump.latest} : f.set = four.set /\ f.slot = k
    BY <1>11 DEF Frames!NoSlotLost
  <2>2. \A k \in four.busy : k # -1 BY <1>0, FramesAssumption DEF FramesTyped, SlotsTyped, Frames!Slots
  <2>3. ASSUME NEW k \in four'.busy
        PROVE  k \in pump'.mask \/ \E f \in held \cup {given} : f.set = four.set /\ f.slot = k
    BY <1>2, <1>3, <1>5, <2>1, <2>2, <2>3 DEF Frames!ReleasedBy
  <2> QED BY <1>1, <1>2, <1>3, <2>3 DEF Frames!NoSlotLost
<1> QED BY <1>8, <1>9, <1>10, <1>11 DEF FramesInOrder

\* The slots given back are forwarded to the card.
LEMMA ForwardKeepsSlots ==
  ASSUME FramesInOrder, Frames!Forward
  PROVE  /\ FramesInOrder' /\ (ContentHeld => ContentHeld')
         /\ (Frames!NoSlotLost => Frames!NoSlotLost')
<1>0. FramesTyped /\ SlotsOwned BY DEF FramesInOrder
<1>1. /\ UNCHANGED <<present, content, held>>
      /\ four' = [four EXCEPT !.busy = @ \ pump.mask] /\ pump' = [pump EXCEPT !.mask = {}]
  BY DEF Frames!Forward
<1>2. /\ four'.set = four.set /\ four'.need = four.need /\ four'.busy = four.busy \ pump.mask
      /\ four'.last = four.last /\ four'.ready = four.ready
      /\ DOMAIN four' = {"set", "need", "busy", "last", "ready"}
  BY <1>0, <1>1 DEF FramesTyped, SlotsTyped
<1>3. pump'.mask = {} /\ pump'.latest = pump.latest /\ DOMAIN pump' = {"mask", "latest"}
  BY <1>0, <1>1 DEF FramesTyped, PumpTyped
<1>4. Owned' = Owned BY <1>1, <1>3 DEF Owned
<1>5. FramesTyped'
  BY <1>0, <1>1, <1>2, <1>3 DEF FramesTyped, SlotsTyped, PresenterTyped, PumpTyped, ContentTyped
<1>6. SlotsOwned' BY <1>0, <1>1, <1>2, <1>3, <1>4 DEF SlotsOwned
<1>7. ContentHeld => ContentHeld' BY <1>1, <1>2, <1>4 DEF ContentHeld
<1>8. Frames!NoSlotLost => Frames!NoSlotLost' BY <1>1, <1>2, <1>3 DEF Frames!NoSlotLost
<1> QED BY <1>5, <1>6, <1>7, <1>8 DEF FramesInOrder

\* The interface takes the latest frame.
LEMMA TakeKeepsSlots ==
  ASSUME FramesInOrder, Frames!Take
  PROVE  /\ FramesInOrder' /\ (ContentHeld => ContentHeld')
         /\ (Frames!NoSlotLost => Frames!NoSlotLost')
<1>0. FramesTyped /\ SlotsOwned BY DEF FramesInOrder
<1>1. /\ UNCHANGED <<four, present, content>> /\ pump.latest # Frames!NoFrame
      /\ pump' = [pump EXCEPT !.latest = Frames!NoFrame] /\ held' = held \cup {pump.latest}
  BY DEF Frames!Take
<1>2. pump'.mask = pump.mask /\ pump'.latest = Frames!NoFrame /\ DOMAIN pump' = {"mask", "latest"}
  BY <1>0, <1>1 DEF FramesTyped, PumpTyped
<1>3. Owned' = Owned BY <1>1, <1>2 DEF Owned
<1>4. FramesTyped'
  BY <1>0, <1>1, <1>2 DEF FramesTyped, SlotsTyped, PresenterTyped, PumpTyped, ContentTyped
<1>5. Frames!NoFrame \notin held'
  BY <1>0, <1>1, FramesAssumption DEF FramesTyped, PumpTyped, Framed, Frames!NoFrame, Frames!Slots
<1>6. SlotsOwned' BY <1>0, <1>1, <1>2, <1>3, <1>5 DEF SlotsOwned
<1>7. ContentHeld => ContentHeld' BY <1>1, <1>3 DEF ContentHeld
<1>8. Frames!NoSlotLost => Frames!NoSlotLost' BY <1>1, <1>2 DEF Frames!NoSlotLost
<1> QED BY <1>4, <1>6, <1>7, <1>8 DEF FramesInOrder

\* A frame the interface drops gives its slot back, if its set is still attached.
LEMMA DropKeepsSlots ==
  ASSUME FramesInOrder, Frames!Drop
  PROVE  /\ FramesInOrder' /\ (ContentHeld => ContentHeld')
         /\ (Frames!NoSlotLost => Frames!NoSlotLost')
<1>0. FramesTyped /\ SlotsOwned BY DEF FramesInOrder
<1>1. PICK f \in held :
        /\ held' = held \ {f} /\ UNCHANGED <<four, present, content>>
        /\ pump' = [pump EXCEPT !.mask = @ \cup Frames!ReleasedBy(f)]
  BY DEF Frames!Drop, Frames!Dropped
<1>2. /\ pump'.mask = pump.mask \cup Frames!ReleasedBy(f) /\ pump'.latest = pump.latest
      /\ DOMAIN pump' = {"mask", "latest"}
  BY <1>0, <1>1 DEF FramesTyped, PumpTyped
<1>3. f # pump.latest BY <1>0, <1>1 DEF SlotsOwned
<1>4. Owned' = Owned \ {f} BY <1>1, <1>2, <1>3 DEF Owned
<1>5. f \in Owned BY DEF Owned
<1>6. Frames!ReleasedBy(f) \subseteq four.busy
      /\ \A g \in Owned \ {f} : g.set = four.set => g.slot \notin Frames!ReleasedBy(f)
  BY <1>0, <1>5 DEF SlotsOwned, Frames!ReleasedBy
<1>7. FramesTyped'
  BY <1>0, <1>1, <1>2, <1>6 DEF FramesTyped, SlotsTyped, PresenterTyped, PumpTyped, ContentTyped
<1>8. SlotsOwned' BY <1>0, <1>1, <1>2, <1>4, <1>6 DEF SlotsOwned
<1>9. ContentHeld => ContentHeld' BY <1>1, <1>4 DEF ContentHeld
<1>10. ASSUME Frames!NoSlotLost PROVE Frames!NoSlotLost'
  <2>1. \A k \in four.busy :
          k \in pump.mask \/ \E g \in held \cup {pump.latest} : g.set = four.set /\ g.slot = k
    BY <1>10 DEF Frames!NoSlotLost
  <2>2. \A k \in four.busy : k # -1 BY <1>0, FramesAssumption DEF FramesTyped, SlotsTyped, Frames!Slots
  <2>3. ASSUME NEW k \in four.busy
        PROVE  k \in pump'.mask \/ \E g \in held' \cup {pump'.latest} : g.set = four.set /\ g.slot = k
    BY <1>1, <1>2, <2>1, <2>2 DEF Frames!ReleasedBy
  <2> QED BY <1>1, <2>3 DEF Frames!NoSlotLost
<1> QED BY <1>7, <1>8, <1>9, <1>10 DEF FramesInOrder

LEMMA FramesStep ==
  ASSUME FramesInOrder, [Frames!Next]_(Frames!vars)
  PROVE  /\ FramesInOrder' /\ ("resize" \notin FrameFaults /\ ContentHeld => ContentHeld')
         /\ (Frames!NoSlotLost => Frames!NoSlotLost')
<1>1. CASE UNCHANGED Frames!vars
  <2>1. UNCHANGED <<four, present, content, pump, held>> BY <1>1 DEF Frames!vars
  <2>2. FramesTyped'
    BY <2>1 DEF FramesInOrder, FramesTyped, SlotsTyped, PresenterTyped, PumpTyped, ContentTyped
  <2>3. SlotsOwned' BY <2>1 DEF FramesInOrder, SlotsOwned, Owned
  <2>4. ContentHeld => ContentHeld' BY <2>1 DEF ContentHeld, Owned
  <2>5. Frames!NoSlotLost => Frames!NoSlotLost' BY <2>1 DEF Frames!NoSlotLost
  <2> QED BY <2>2, <2>3, <2>4, <2>5 DEF FramesInOrder
<1>2. CASE Frames!Resize \/ Frames!PresenterPicks BY <1>2, PresenterKeepsSlots
<1>3. CASE Frames!PresenterCopies BY <1>3, CopyKeepsSlots
<1>4. CASE Frames!PresenterPublishes BY <1>4, PublishKeepsSlots
<1>5. CASE Frames!Attach BY <1>5, AttachKeepsSlots
<1>6. CASE Frames!Pull BY <1>6, PullKeepsSlots
<1>7. CASE Frames!Forward BY <1>7, ForwardKeepsSlots
<1>8. CASE Frames!Take BY <1>8, TakeKeepsSlots
<1>9. CASE Frames!Drop BY <1>9, DropKeepsSlots
<1> QED BY <1>1, <1>2, <1>3, <1>4, <1>5, <1>6, <1>7, <1>8, <1>9 DEF Frames!Next

\* The four parties keep the types, and what is given back was taken
\* (flux_ffmpeg_gpu_release).
THEOREM FramesAreTyped == Frames!Spec => []Frames!TypeOK
<1>1. ASSUME FramesInOrder PROVE Frames!TypeOK
  <2>1. Frames!InUse \subseteq Framed
    BY <1>1 DEF FramesInOrder, FramesTyped, SlotsTyped, PumpTyped, Frames!InUse
  <2> QED
    BY <1>1, <2>1 DEF FramesInOrder, FramesTyped, SlotsTyped, PresenterTyped, PumpTyped, Framed,
      Frames!TypeOK
<1>2. Frames!Init => FramesInOrder BY FramesInit
<1>3. FramesInOrder /\ [Frames!Next]_(Frames!vars) => FramesInOrder' BY FramesStep
<1> QED BY <1>1, <1>2, <1>3, PTL DEF Frames!Spec

\* No slot is lost: what is busy is somebody's, or on its way back.
THEOREM SlotsComeBack == Frames!Spec => []Frames!NoSlotLost
<1>1. Frames!Init => Frames!NoSlotLost BY DEF Frames!Init, Frames!NoSlotLost
<1>2. Frames!Init => FramesInOrder BY FramesInit
<1>3. FramesInOrder /\ Frames!NoSlotLost /\ [Frames!Next]_(Frames!vars)
      => (FramesInOrder /\ Frames!NoSlotLost)'
  BY FramesStep
<1> QED BY <1>1, <1>2, <1>3, PTL DEF Frames!Spec

\* No picture is written over while anyone may show it ("Decode may overwrite
\* the slot once this is dropped", video_frame.rs:186), unless the slots are
\* replaced between a copy and its publication.
THEOREM PicturesStayWhole ==
  ASSUME "resize" \notin FrameFaults PROVE Frames!Spec => []Frames!Untorn
<1>1. ASSUME ContentHeld PROVE Frames!Untorn
  BY <1>1 DEF ContentHeld, Owned, Frames!Untorn, Frames!InUse
<1>2. Frames!Init => FramesInOrder /\ ContentHeld BY FramesInit
<1>3. FramesInOrder /\ ContentHeld /\ [Frames!Next]_(Frames!vars) => (FramesInOrder /\ ContentHeld)'
  BY FramesStep
<1> QED BY <1>1, <1>2, <1>3, PTL DEF Frames!Spec

-----------------------------------------------------------------------------
(***************************************************************************)
(* The ring of sound.  The argument: what was heard, what the thread holds *)
(* and what the ring holds rise one after the other, up to the last sample *)
(* made; what is stored goes behind the rest of it, around its end.        *)
(***************************************************************************)
CONSTANTS RingSize, PieceSize, FrameSizes, SamplesMade, SoundFaults

ASSUME SoundAssumption ==
  RingSize \in Nat \ {0} /\ PieceSize \in Nat \ {0} /\ FrameSizes \subseteq Nat

VARIABLES ring, made, writer, heard

Samples == INSTANCE AudioQueue WITH
  Cap <- RingSize, Piece <- PieceSize, Sizes <- FrameSizes, MaxSamples <- SamplesMade,
  Faults <- SoundFaults

\* Past the end of a ring one is at its start.
Wrap(x, c) == x % c
LEMMA AroundTheRing ==
  ASSUME NEW c \in Nat \ {0}, NEW x \in Nat, x < c + c
  PROVE  Wrap(x, c) = IF x < c THEN x ELSE x - c
<1>1. x < c => x % c = x OBVIOUS
<1>2. x >= c => x % c = x - c BY SMTT(30)
<1> QED BY <1>1, <1>2 DEF Wrap

Rising(s) == \A i, j \in 1..Len(s) : i < j => s[i] < s[j]
Before(s, t) == \A i \in 1..Len(s), j \in 1..Len(t) : s[i] < t[j]
UpTo(s, n) == \A i \in 1..Len(s) : s[i] <= n

RingTyped(q) ==
  /\ DOMAIN q = {"data", "r", "fill", "stop"}
  /\ q.data \in [Samples!Places -> Nat] /\ q.r \in Samples!Places /\ q.fill \in 0..RingSize
SoundTyped ==
  /\ RingTyped(ring) /\ made \in Nat /\ heard \in Seq(Nat)
  /\ DOMAIN writer = {"at", "tmp"} /\ writer.tmp \in Seq(Nat) /\ writer.at \in {"idle", "write", "ended"}
  /\ writer.at # "write" => writer.tmp = <<>>

\* What is heard, in the thread's hands and in the ring rises, up to the last sample made.
Sounds == Samples!Content(ring)
SoundInLine ==
  /\ Rising(heard) /\ Rising(writer.tmp) /\ Rising(Sounds)
  /\ Before(heard, writer.tmp) /\ Before(heard, Sounds) /\ Before(writer.tmp, Sounds)
  /\ UpTo(heard, made) /\ UpTo(writer.tmp, made) /\ UpTo(Sounds, made)

LEMMA RisesOn ==
  ASSUME NEW s \in Seq(Nat), NEW t \in Seq(Nat), Rising(s), Rising(t), Before(s, t)
  PROVE  Rising(s \o t)
<1> SUFFICES ASSUME NEW i \in 1..Len(s \o t), NEW j \in 1..Len(s \o t), i < j
             PROVE  (s \o t)[i] < (s \o t)[j]
  BY DEF Rising
<1>1. /\ Len(s) \in Nat /\ Len(t) \in Nat /\ Len(s \o t) = Len(s) + Len(t)
      /\ \A k \in 1..(Len(s) + Len(t)) : (s \o t)[k] = IF k <= Len(s) THEN s[k] ELSE t[k - Len(s)]
  OBVIOUS
<1>2. CASE j <= Len(s) BY <1>1, <1>2 DEF Rising
<1>3. CASE i <= Len(s) /\ j > Len(s)
  <2>1. i \in 1..Len(s) /\ j - Len(s) \in 1..Len(t) BY <1>1, <1>3
  <2>2. s[i] < t[j - Len(s)] BY <2>1 DEF Before
  <2> QED BY <1>1, <1>3, <2>2
<1>4. CASE i > Len(s)
  <2>1. i - Len(s) \in 1..Len(t) /\ j - Len(s) \in 1..Len(t) /\ i - Len(s) < j - Len(s) BY <1>1, <1>4
  <2>2. t[i - Len(s)] < t[j - Len(s)] BY <2>1 DEF Rising
  <2>3. /\ i \in 1..(Len(s) + Len(t)) /\ j \in 1..(Len(s) + Len(t))
        /\ ~(i <= Len(s)) /\ ~(j <= Len(s))
    BY <1>1, <1>4
  <2>4. (s \o t)[i] = t[i - Len(s)] /\ (s \o t)[j] = t[j - Len(s)] BY <1>1, <2>3
  <2> QED BY <2>2, <2>4
<1>5. j <= Len(s) \/ (i <= Len(s) /\ j > Len(s)) \/ i > Len(s)
  <2>1. Len(s) \in Nat BY <1>1
  <2>2. i \in Int /\ j \in Int OBVIOUS
  <2> QED BY <2>1, <2>2
<1> QED BY <1>2, <1>3, <1>4, <1>5, Zenon

LEMMA ComesAfter ==
  ASSUME NEW s \in Seq(Nat), NEW t \in Seq(Nat), NEW u \in Seq(Nat)
  PROVE  /\ Before(s, u) /\ Before(t, u) => Before(s \o t, u)
         /\ Before(s, t) /\ Before(s, u) => Before(s, t \o u)
         /\ \A n \in Nat : UpTo(s, n) /\ UpTo(t, n) => UpTo(s \o t, n)
<1>1. ASSUME NEW a \in Seq(Nat), NEW b \in Seq(Nat), NEW k \in 1..Len(a \o b)
      PROVE  \/ k \in 1..Len(a) /\ (a \o b)[k] = a[k]
             \/ k - Len(a) \in 1..Len(b) /\ (a \o b)[k] = b[k - Len(a)]
  <2>1. Len(a) \in Nat /\ Len(b) \in Nat /\ Len(a \o b) = Len(a) + Len(b) BY <1>1
  <2>2. (a \o b)[k] = IF k <= Len(a) THEN a[k] ELSE b[k - Len(a)] BY <1>1, <2>1
  <2> QED BY <1>1, <2>1, <2>2
<1>2. ASSUME Before(s, u), Before(t, u) PROVE Before(s \o t, u)
  <2> SUFFICES ASSUME NEW k \in 1..Len(s \o t), NEW j \in 1..Len(u) PROVE (s \o t)[k] < u[j]
    BY DEF Before
  <2>1. \/ k \in 1..Len(s) /\ (s \o t)[k] = s[k]
        \/ k - Len(s) \in 1..Len(t) /\ (s \o t)[k] = t[k - Len(s)]
    BY <1>1
  <2> QED BY <1>2, <2>1 DEF Before
<1>3. ASSUME Before(s, t), Before(s, u) PROVE Before(s, t \o u)
  <2> SUFFICES ASSUME NEW k \in 1..Len(t \o u), NEW j \in 1..Len(s) PROVE s[j] < (t \o u)[k]
    BY DEF Before
  <2>1. \/ k \in 1..Len(t) /\ (t \o u)[k] = t[k]
        \/ k - Len(t) \in 1..Len(u) /\ (t \o u)[k] = u[k - Len(t)]
    BY <1>1
  <2> QED BY <1>3, <2>1 DEF Before
<1>4. \A n \in Nat : UpTo(s, n) /\ UpTo(t, n) => UpTo(s \o t, n) BY <1>1 DEF UpTo
<1> QED BY <1>2, <1>3, <1>4

LEMMA ContentIsASequence ==
  ASSUME NEW q, RingTyped(q)
  PROVE  /\ Samples!Content(q) \in Seq(Nat) /\ Len(Samples!Content(q)) = q.fill
         /\ \A i \in 1..q.fill : Samples!Content(q)[i] = q.data[(q.r + i - 1) % RingSize]
<1>1. RingSize \in Nat \ {0} BY SoundAssumption
<1>2. q.fill \in Nat /\ q.r \in Nat BY <1>1 DEF RingTyped, Samples!Places
<1>3. \A i \in 1..q.fill : q.data[(q.r + i - 1) % RingSize] \in Nat
  <2> TAKE i \in 1..q.fill
  <2>1. q.r + i - 1 \in Nat BY <1>2
  <2>2. (q.r + i - 1) % RingSize \in Samples!Places BY <1>1, <2>1 DEF Samples!Places
  <2> QED BY <2>2 DEF RingTyped
<1> QED BY <1>2, <1>3 DEF Samples!Content

\* One may go around before or after.
LEMMA RoundTwice ==
  ASSUME NEW c \in Nat \ {0}, NEW r \in Nat, NEW n \in Nat, NEW i \in Nat,
         r < c, i >= 1, n + i <= c
  PROVE  (((r + n) % c) + i - 1) % c = (r + (i + n) - 1) % c
<1>1. PICK x \in Nat : x = r + n OBVIOUS
<1>2. PICK p \in Nat : p = Wrap(x, c) BY DEF Wrap
<1>3. p = IF x < c THEN x ELSE x - c
  <2>1. x < c + c BY <1>1
  <2> QED BY <1>2, <2>1, AroundTheRing
<1>4. PICK y \in Nat : y = p + i - 1 OBVIOUS
<1>5. PICK z \in Nat : z = r + (i + n) - 1 OBVIOUS
<1>6. z < c + c /\ y < c + c BY <1>1, <1>3, <1>4, <1>5
<1>7. y = z \/ y = z - c BY <1>1, <1>3, <1>4, <1>5
<1>8. Wrap(y, c) = Wrap(z, c)
  <2>1. Wrap(y, c) = IF y < c THEN y ELSE y - c BY <1>6, AroundTheRing
  <2>2. Wrap(z, c) = IF z < c THEN z ELSE z - c BY <1>6, AroundTheRing
  <2>3. y = z - c => y < c BY <1>6
  <2> QED BY <1>6, <1>7, <2>1, <2>2, <2>3
<1> QED BY <1>1, <1>2, <1>4, <1>5, <1>8 DEF Wrap

\* A place of the ring, told from where what is new begins, is past its end or its place
\* in it.
PlaceOf(c, r, i) == (r + i - 1) % c
BehindEnd(c, r, f, p) == (p + c - ((r + f) % c)) % c
LEMMA PlacesApart ==
  ASSUME NEW c \in Nat \ {0}, NEW r \in Nat, NEW f \in Nat, NEW n \in Nat, r < c, f + n <= c,
         NEW i \in 1..(f + n)
  PROVE  /\ PlaceOf(c, r, i) \in 0..(c - 1)
         /\ IF i <= f THEN ~(BehindEnd(c, r, f, PlaceOf(c, r, i)) < n)
                      ELSE BehindEnd(c, r, f, PlaceOf(c, r, i)) = i - 1 - f
<1>1. PICK x \in Nat : x = r + i - 1 OBVIOUS
<1>2. PICK p \in Nat : p = Wrap(x, c) BY DEF Wrap
<1>3. p = IF x < c THEN x ELSE x - c
  <2>1. x < c + c BY <1>1
  <2> QED BY <1>2, <2>1, AroundTheRing
<1>4. PICK y \in Nat : y = r + f OBVIOUS
<1>5. PICK tail \in Nat : tail = Wrap(y, c) BY DEF Wrap
<1>6. tail = IF y < c THEN y ELSE y - c
  <2>1. y < c + c BY <1>4
  <2> QED BY <1>5, <2>1, AroundTheRing
<1>7. p < c /\ tail < c BY <1>1, <1>3, <1>4, <1>6
<1>8. PICK z \in Nat : z = p + c - tail BY <1>7
<1>9. PICK at \in Nat : at = Wrap(z, c) BY DEF Wrap
<1>10. at = IF z < c THEN z ELSE z - c
  <2>1. z < c + c BY <1>7, <1>8
  <2> QED BY <1>9, <2>1, AroundTheRing
<1>11. IF i <= f THEN ~(at < n) ELSE at = i - 1 - f
  BY <1>1, <1>3, <1>4, <1>6, <1>7, <1>8, <1>10
<1>12. p = PlaceOf(c, r, i) BY <1>1, <1>2 DEF PlaceOf, Wrap
<1>13. at = BehindEnd(c, r, f, p) BY <1>4, <1>5, <1>8, <1>9 DEF BehindEnd, Wrap
<1>14. p \in 0..(c - 1) BY <1>7
<1> QED BY <1>11, <1>12, <1>13, <1>14

\* The samples put behind those of the ring are there, behind them.
LEMMA StoredBehind ==
  ASSUME NEW q, RingTyped(q), NEW s \in Seq(Nat), Samples!Fits(q, s)
  PROVE  /\ RingTyped(Samples!Store(q, s))
         /\ Samples!Content(Samples!Store(q, s)) = Samples!Content(q) \o s
<1> DEFINE c == RingSize
           n == Len(s)
           tail == (q.r + q.fill) % c
           At(p) == (p + c - tail) % c
           new == Samples!Store(q, s)
<1>1. c \in Nat \ {0} /\ n \in Nat BY SoundAssumption
<1>2. q.fill \in Nat /\ q.r \in Nat /\ q.r < c /\ q.fill + n <= c
  BY <1>1 DEF RingTyped, Samples!Places, Samples!Fits
<1>3. tail \in Nat /\ tail < c BY <1>1, <1>2
<1>4. /\ new.fill = q.fill + n /\ new.r = q.r /\ DOMAIN new = {"data", "r", "fill", "stop"}
      /\ new.data = [p \in Samples!Places |-> IF At(p) < n THEN s[At(p) + 1] ELSE q.data[p]]
  BY DEF RingTyped, Samples!Store
<1>5. RingTyped(new)
  <2>1. ASSUME NEW p \in Samples!Places
        PROVE  (IF At(p) < n THEN s[At(p) + 1] ELSE q.data[p]) \in Nat
    <3>1. At(p) \in Nat BY <1>1, <1>3, <2>1 DEF Samples!Places
    <3>2. q.data[p] \in Nat BY <2>1 DEF RingTyped
    <3>3. At(p) < n => At(p) + 1 \in 1..n BY <1>1, <3>1
    <3> HIDE DEF At
    <3> QED BY <3>2, <3>3
  <2>2. new.data \in [Samples!Places -> Nat] BY <1>4, <2>1
  <2>3. new.r \in Samples!Places BY <1>4 DEF RingTyped
  <2>4. new.fill \in 0..RingSize BY <1>1, <1>2, <1>4
  <2> HIDE DEF new
  <2> QED BY <1>4, <2>2, <2>3, <2>4 DEF RingTyped
<1>6. ASSUME NEW i \in 1..(q.fill + n)
      PROVE  LET p == (q.r + i - 1) % c
             IN  p \in Samples!Places /\ IF i <= q.fill THEN ~(At(p) < n) ELSE At(p) = i - 1 - q.fill
  <2>1. PICK r \in Nat, f \in Nat : r = q.r /\ f = q.fill BY <1>2
  <2>2. r < c /\ f + n <= c /\ i \in 1..(f + n) BY <1>2, <2>1
  <2>3. /\ PlaceOf(c, r, i) \in 0..(c - 1)
        /\ IF i <= f THEN ~(BehindEnd(c, r, f, PlaceOf(c, r, i)) < n)
                     ELSE BehindEnd(c, r, f, PlaceOf(c, r, i)) = i - 1 - f
    <3> HIDE DEF c, n
    <3> QED BY <1>1, <2>2, PlacesApart
  <2>4. /\ PlaceOf(c, r, i) = (q.r + i - 1) % c
        /\ BehindEnd(c, r, f, PlaceOf(c, r, i)) = At((q.r + i - 1) % c)
    BY <2>1 DEF PlaceOf, BehindEnd
  <2> HIDE DEF At
  <2> QED BY <2>1, <2>3, <2>4 DEF Samples!Places
<1>7. /\ Samples!Content(q) \in Seq(Nat) /\ Len(Samples!Content(q)) = q.fill
      /\ \A i \in 1..q.fill : Samples!Content(q)[i] = q.data[(q.r + i - 1) % c]
  BY ContentIsASequence
<1>8. /\ Samples!Content(new) \in Seq(Nat) /\ Len(Samples!Content(new)) = q.fill + n
      /\ \A i \in 1..(q.fill + n) : Samples!Content(new)[i] = new.data[(q.r + i - 1) % c]
  <2> HIDE DEF new
  <2>1. /\ Samples!Content(new) \in Seq(Nat) /\ Len(Samples!Content(new)) = new.fill
        /\ \A i \in 1..new.fill : Samples!Content(new)[i] = new.data[(new.r + i - 1) % c]
    BY <1>5, ContentIsASequence
  <2> QED BY <1>4, <2>1
<1>12. new = Samples!Store(q, s) OBVIOUS
<1> HIDE DEF new
<1>9. ASSUME NEW i \in 1..(q.fill + n) PROVE Samples!Content(new)[i] = (Samples!Content(q) \o s)[i]
  <2> DEFINE p == (q.r + i - 1) % c
  <2>1. p \in Samples!Places /\ IF i <= q.fill THEN ~(At(p) < n) ELSE At(p) = i - 1 - q.fill BY <1>6
  <2>2. Samples!Content(new)[i] = IF At(p) < n THEN s[At(p) + 1] ELSE q.data[p] BY <1>4, <1>8, <2>1
  <2>3. (Samples!Content(q) \o s)[i] = IF i <= q.fill THEN Samples!Content(q)[i] ELSE s[i - q.fill]
    BY <1>1, <1>2, <1>7
  <2>4. CASE i <= q.fill
    <3>1. Samples!Content(q)[i] = q.data[p] BY <1>2, <1>7, <2>4
    <3> HIDE DEF At, p
    <3> QED BY <2>1, <2>2, <2>3, <2>4, <3>1
  <2>5. CASE ~(i <= q.fill)
    <3>1. At(p) = i - 1 - q.fill BY <2>1, <2>5
    <3> HIDE DEF At, p
    <3>2. At(p) < n /\ At(p) + 1 = i - q.fill BY <1>1, <1>2, <3>1
    <3>3. Samples!Content(new)[i] = s[i - q.fill] BY <2>2, <3>2
    <3> QED BY <2>3, <2>5, <3>3
  <2> QED BY <2>4, <2>5
<1>10. Samples!Content(q) \o s \in Seq(Nat) /\ Len(Samples!Content(q) \o s) = q.fill + n
  <2>1. Samples!Content(q) \in Seq(Nat) /\ s \in Seq(Nat) BY <1>7
  <2>2. /\ Samples!Content(q) \o s \in Seq(Nat)
        /\ Len(Samples!Content(q) \o s) = Len(Samples!Content(q)) + Len(s)
    BY <2>1, ConcatProperties
  <2> QED BY <1>7, <2>2
<1>11. Samples!Content(new) = Samples!Content(q) \o s BY <1>8, <1>9, <1>10, SeqEqual
<1> QED BY <1>5, <1>11, <1>12

LEMMA NothingRises ==
  ASSUME NEW s PROVE Rising(<<>>) /\ Before(s, <<>>) /\ Before(<<>>, s) /\ \A n : UpTo(<<>>, n)
<1>1. Len(<<>>) = 0 OBVIOUS
<1>2. 1..0 = {} OBVIOUS
<1> QED BY <1>1, <1>2 DEF Rising, Before, UpTo

LEMMA OnlyTheRingStops ==
  ASSUME NEW q, NEW t, RingTyped(q), t.data = q.data, t.r = q.r, t.fill = q.fill, DOMAIN t = DOMAIN q
  PROVE  RingTyped(t) /\ Samples!Content(t) = Samples!Content(q)
BY DEF RingTyped, Samples!Content

LEMMA SoundInit == Samples!Init => SoundTyped /\ SoundInLine
<1> SUFFICES ASSUME Samples!Init PROVE SoundTyped /\ SoundInLine OBVIOUS
<1>0. RingSize \in Nat \ {0} BY SoundAssumption
<1>1. RingTyped(ring)
  <2>1. 0 \in Samples!Places /\ 0 \in 0..RingSize BY <1>0 DEF Samples!Places
  <2>2. ring = [data |-> [p \in Samples!Places |-> 0], r |-> 0, fill |-> 0, stop |-> FALSE]
    BY DEF Samples!Init
  <2>3. ring.data \in [Samples!Places -> Nat] BY <2>2
  <2> QED BY <2>1, <2>2, <2>3 DEF RingTyped
<1>2. heard = <<>> /\ writer.tmp = <<>> /\ writer.at = "idle" /\ made \in Nat BY DEF Samples!Init
<1>3. Sounds = <<>>
  <2>1. ring.fill = 0 BY DEF Samples!Init
  <2>2. Sounds \in Seq(Nat) /\ Len(Sounds) = 0 BY <1>1, <2>1, ContentIsASequence DEF Sounds
  <2> QED BY <2>2, EmptySeq
<1>4. SoundTyped
  <2>1. DOMAIN writer = {"at", "tmp"} BY DEF Samples!Init
  <2> QED BY <1>1, <1>2, <2>1, EmptySeq DEF SoundTyped
<1>5. SoundInLine BY <1>2, <1>3, NothingRises DEF SoundInLine
<1> QED BY <1>4, <1>5

\* A frame comes after all that was made before it.
LEMMA FrameComesAfter ==
  ASSUME NEW m \in Nat, NEW n \in Nat
  PROVE  LET f == [i \in 1..n |-> m + i]
         IN  /\ f \in Seq(Nat) /\ Len(f) = n /\ Rising(f) /\ UpTo(f, m + n)
             /\ \A s \in Seq(Nat) : UpTo(s, m) => Before(s, f) /\ UpTo(s, m + n)
<1> DEFINE f == [i \in 1..n |-> m + i]
<1>1. f \in Seq(Nat) /\ Len(f) = n /\ \A i \in 1..n : f[i] = m + i
  <2>1. \A i \in 1..n : m + i \in Nat OBVIOUS
  <2> QED BY <2>1
<1> HIDE DEF f
<1>2. Rising(f)
  <2> SUFFICES ASSUME NEW i \in 1..n, NEW j \in 1..n, i < j PROVE f[i] < f[j] BY <1>1 DEF Rising
  <2> QED BY <1>1
<1>3. UpTo(f, m + n)
  <2> SUFFICES ASSUME NEW i \in 1..n PROVE f[i] <= m + n BY <1>1 DEF UpTo
  <2> QED BY <1>1
<1>4. ASSUME NEW s \in Seq(Nat), UpTo(s, m) PROVE Before(s, f) /\ UpTo(s, m + n)
  <2>1. \A i \in 1..Len(s) : s[i] \in Nat /\ s[i] <= m BY <1>4 DEF UpTo
  <2>2. ASSUME NEW i \in 1..Len(s), NEW j \in 1..n PROVE s[i] < f[j]
    <3>1. f[j] = m + j /\ j >= 1 /\ j \in Nat BY <1>1
    <3> QED BY <2>1, <3>1
  <2>3. ASSUME NEW i \in 1..Len(s) PROVE s[i] <= m + n BY <2>1
  <2> QED BY <1>1, <2>2, <2>3 DEF Before, UpTo
<1> QED BY <1>1, <1>2, <1>3, <1>4 DEF f

LEMMA SoundPushed ==
  ASSUME SoundTyped, SoundInLine, NEW n \in FrameSizes, Samples!Push(n)
  PROVE  SoundTyped' /\ SoundInLine'
<1> USE DEF Sounds
<1> DEFINE f == [i \in 1..n |-> made + i]
<1>1. /\ made' = made + n /\ UNCHANGED <<writer, heard>>
      /\ ring' = IF ring.stop \/ ~Samples!Fits(ring, f) THEN ring ELSE Samples!Store(ring, f)
  BY DEF Samples!Push
<1>2. made \in Nat /\ n \in Nat /\ heard \in Seq(Nat) /\ writer.tmp \in Seq(Nat) /\ RingTyped(ring)
  BY SoundAssumption DEF SoundTyped
<1>3. /\ f \in Seq(Nat) /\ Rising(f) /\ UpTo(f, made + n)
      /\ \A s \in Seq(Nat) : UpTo(s, made) => Before(s, f) /\ UpTo(s, made + n)
  BY <1>2, FrameComesAfter
<1> HIDE DEF f
<1>4. Sounds \in Seq(Nat) BY <1>2, ContentIsASequence
<1>5. RingTyped(ring') /\ (Sounds' = Sounds \/ Sounds' = Sounds \o f)
  BY <1>1, <1>2, <1>3, StoredBehind
<1>6. Before(heard, f) /\ Before(writer.tmp, f) /\ Before(Sounds, f)
  BY <1>2, <1>3, <1>4 DEF SoundInLine
<1>7. UpTo(heard, made + n) /\ UpTo(writer.tmp, made + n) /\ UpTo(Sounds, made + n)
  BY <1>2, <1>3, <1>4 DEF SoundInLine
<1>8. SoundTyped' BY <1>1, <1>2, <1>5 DEF SoundTyped
<1> HIDE DEF Sounds
<1>9. /\ Rising(Sounds \o f) /\ Before(heard, Sounds \o f) /\ Before(writer.tmp, Sounds \o f)
      /\ UpTo(Sounds \o f, made + n)
  <2>1. Rising(Sounds \o f) BY <1>3, <1>4, <1>6, RisesOn DEF SoundInLine
  <2>2. Before(heard, Sounds \o f) BY <1>2, <1>3, <1>4, <1>6, ComesAfter DEF SoundInLine
  <2>3. Before(writer.tmp, Sounds \o f) BY <1>2, <1>3, <1>4, <1>6, ComesAfter DEF SoundInLine
  <2>4. made + n \in Nat BY <1>2
  <2>5. UpTo(Sounds \o f, made + n) BY <1>3, <1>4, <1>7, <2>4, ComesAfter
  <2> QED BY <2>1, <2>2, <2>3, <2>5
<1>10. CASE Sounds' = Sounds BY <1>1, <1>7, <1>8, <1>10 DEF SoundInLine
<1>11. CASE Sounds' = Sounds \o f BY <1>1, <1>7, <1>8, <1>9, <1>11 DEF SoundInLine
<1> QED BY <1>5, <1>8, <1>10, <1>11 DEF Sounds

LEMMA SoundTaken ==
  ASSUME SoundTyped, SoundInLine, Samples!Take PROVE SoundTyped' /\ SoundInLine'
<1> DEFINE n == Samples!Min({ring.fill, PieceSize})
<1>0. RingSize \in Nat \ {0} /\ PieceSize \in Nat \ {0} BY SoundAssumption
<1>1. RingTyped(ring) /\ made \in Nat /\ heard \in Seq(Nat) /\ writer.tmp \in Seq(Nat) /\ writer.at = "idle"
  BY DEF SoundTyped, Samples!Take
<1>2. ring.fill \in Nat /\ ring.r \in Nat /\ ring.r < RingSize /\ ring.fill <= RingSize
  BY <1>0, <1>1 DEF RingTyped, Samples!Places
<1>3. Sounds \in Seq(Nat) /\ Len(Sounds) = ring.fill BY <1>1, ContentIsASequence DEF Sounds
<1>4. CASE ring.fill > 0
  <2>1. n \in Nat /\ n >= 1 /\ n <= ring.fill
    <3>1. \E x \in {ring.fill, PieceSize} : \A y \in {ring.fill, PieceSize} : x <= y BY <1>0, <1>2
    <3>2. n \in {ring.fill, PieceSize} /\ \A y \in {ring.fill, PieceSize} : n <= y
      BY <3>1 DEF Samples!Min
    <3> HIDE DEF n
    <3> QED BY <1>0, <1>2, <1>4, <3>2
  <2>2. /\ writer' = [at |-> "write", tmp |-> SubSeq(Sounds, 1, n)]
        /\ ring' = [ring EXCEPT !.r = (@ + n) % RingSize, !.fill = @ - n]
        /\ UNCHANGED <<made, heard>>
    BY <1>4 DEF Samples!Take, Sounds
  <2> HIDE DEF n
  <2>3. /\ ring'.data = ring.data /\ ring'.r = (ring.r + n) % RingSize /\ ring'.fill = ring.fill - n
        /\ DOMAIN ring' = {"data", "r", "fill", "stop"}
    BY <1>1, <2>2 DEF RingTyped
  <2>4. RingTyped(ring')
    <3>1. ring.r + n \in Nat BY <1>2, <2>1
    <3>2. ring'.r \in Samples!Places BY <1>0, <2>3, <3>1 DEF Samples!Places
    <3>3. ring'.fill \in 0..RingSize BY <1>0, <1>2, <2>1, <2>3
    <3> QED BY <1>1, <2>3, <3>2, <3>3 DEF RingTyped
  <2>5. Sounds' \in Seq(Nat) /\ Len(Sounds') = ring.fill - n
    BY <2>3, <2>4, ContentIsASequence DEF Sounds
  <2>6. ASSUME NEW i \in 1..(ring.fill - n) PROVE i + n \in 1..ring.fill /\ Sounds'[i] = Sounds[i + n]
    <3>1. i \in Nat /\ i + n \in 1..ring.fill BY <1>2, <2>1
    <3>2. Sounds'[i] = ring.data[(((ring.r + n) % RingSize) + i - 1) % RingSize]
      <4>1. Sounds' = Samples!Content(ring') BY DEF Sounds
      <4>2. \A k \in 1..ring'.fill : Samples!Content(ring')[k] = ring'.data[(ring'.r + k - 1) % RingSize]
        BY <2>4, ContentIsASequence
      <4>3. i \in 1..ring'.fill BY <2>3
      <4> QED BY <2>3, <4>1, <4>2, <4>3
    <3>3. Sounds[i + n] = ring.data[(ring.r + (i + n) - 1) % RingSize]
      BY <1>1, <3>1, ContentIsASequence DEF Sounds
    <3>4. ((((ring.r + n) % RingSize) + i - 1) % RingSize) = (ring.r + (i + n) - 1) % RingSize
      BY <1>0, <1>2, <2>1, <3>1, RoundTwice
    <3> QED BY <3>1, <3>2, <3>3, <3>4
  <2>7. /\ writer'.tmp \in Seq(Nat) /\ Len(writer'.tmp) = n /\ writer'.at = "write"
        /\ \A i \in 1..n : writer'.tmp[i] = Sounds[i]
        /\ DOMAIN writer' = {"at", "tmp"}
    <3>1. writer'.tmp = SubSeq(Sounds, 1, n) /\ writer'.at = "write" /\ DOMAIN writer' = {"at", "tmp"} BY <2>2
    <3>2. \A i \in 1..n : i \in 1..Len(Sounds) BY <1>2, <1>3, <2>1
    <3>3. /\ SubSeq(Sounds, 1, n) \in Seq(Nat) /\ Len(SubSeq(Sounds, 1, n)) = n
          /\ \A i \in 1..n : SubSeq(Sounds, 1, n)[i] = Sounds[i]
      BY <1>2, <1>3, <2>1, <3>2, SubSeqProperties
    <3> QED BY <3>1, <3>3
  <2>8. SoundTyped' BY <1>1, <2>2, <2>4, <2>7 DEF SoundTyped
  <2>9. \A i \in 1..Len(Sounds') : i + n \in 1..Len(Sounds) /\ i + n > n /\ Sounds'[i] = Sounds[i + n]
    <3>1. 1..Len(Sounds') = 1..(ring.fill - n) /\ 1..Len(Sounds) = 1..ring.fill BY <1>3, <2>5
    <3>2. \A i \in 1..(ring.fill - n) : i + n > n BY <2>1
    <3> QED BY <2>6, <3>1, <3>2
  <2>10. \A i \in 1..n : i \in 1..Len(Sounds) BY <1>2, <1>3, <2>1
  <2>11. Rising(writer'.tmp) /\ UpTo(writer'.tmp, made) /\ Before(heard, writer'.tmp)
    BY <2>7, <2>10 DEF SoundInLine, Rising, UpTo, Before
  <2>12. Rising(Sounds')
    <3> SUFFICES ASSUME NEW i \in 1..Len(Sounds'), NEW j \in 1..Len(Sounds'), i < j
                 PROVE  Sounds'[i] < Sounds'[j]
      BY DEF Rising
    <3>1. i + n < j + n BY <2>1, <2>5, <1>2
    <3> QED BY <2>9, <3>1 DEF SoundInLine, Rising
  <2>13. UpTo(Sounds', made) /\ Before(heard, Sounds')
    BY <2>9 DEF SoundInLine, UpTo, Before
  <2>14. Before(writer'.tmp, Sounds')
    <3> SUFFICES ASSUME NEW i \in 1..n, NEW j \in 1..Len(Sounds') PROVE writer'.tmp[i] < Sounds'[j]
      BY <2>7 DEF Before
    <3>1. i < j + n BY <2>1, <2>5, <1>2
    <3> QED BY <2>7, <2>9, <2>10, <3>1 DEF SoundInLine, Rising
  <2>15. SoundInLine'
    BY <2>2, <2>11, <2>12, <2>13, <2>14 DEF SoundInLine
  <2> QED BY <2>8, <2>15
<1>5. CASE ~(ring.fill > 0)
  <2>1. writer' = [writer EXCEPT !.at = "ended"] /\ UNCHANGED <<ring, made, heard>>
    BY <1>5 DEF Samples!Take
  <2>2. /\ DOMAIN writer' = {"at", "tmp"} /\ writer'.tmp = writer.tmp /\ writer'.at = "ended"
        /\ writer.tmp = <<>>
    BY <1>1, <2>1 DEF SoundTyped
  <2> QED BY <2>1, <2>2 DEF SoundTyped, SoundInLine, Sounds
<1> QED BY <1>4, <1>5

LEMMA SoundStep ==
  ASSUME SoundTyped, SoundInLine, "full" \notin SoundFaults, [Samples!Next]_(Samples!vars)
  PROVE  SoundTyped' /\ SoundInLine'
<1>1. ASSUME NEW n \in FrameSizes, Samples!Push(n) PROVE SoundTyped' /\ SoundInLine'
  BY <1>1, SoundPushed
<1>2. CASE Samples!Take BY <1>2, SoundTaken
<1>3. CASE Samples!Written
  <2>1. /\ heard' = heard \o writer.tmp /\ writer' = [at |-> "idle", tmp |-> <<>>]
        /\ UNCHANGED <<ring, made>>
    BY <1>3 DEF Samples!Written
  <2>2. heard \in Seq(Nat) /\ writer.tmp \in Seq(Nat) /\ made \in Nat /\ RingTyped(ring) BY DEF SoundTyped
  <2>3. Sounds' = Sounds /\ Sounds \in Seq(Nat) BY <2>1, <2>2, ContentIsASequence DEF Sounds
  <2>4. heard' \in Seq(Nat) BY <2>1, <2>2
  <2>5. SoundTyped'
    <3>1. writer'.tmp = <<>> /\ writer'.at = "idle" /\ DOMAIN writer' = {"at", "tmp"} BY <2>1
    <3> QED BY <2>1, <2>2, <2>4, <3>1, EmptySeq DEF SoundTyped
  <2>6. Rising(heard') BY <2>1, <2>2, RisesOn DEF SoundInLine
  <2>7. Before(heard', Sounds') /\ UpTo(heard', made')
    <3>1. Before(heard \o writer.tmp, Sounds) BY <2>2, <2>3, ComesAfter DEF SoundInLine
    <3>2. UpTo(heard \o writer.tmp, made) BY <2>2, <2>3, ComesAfter DEF SoundInLine
    <3> QED BY <2>1, <2>3, <3>1, <3>2
  <2>8. writer'.tmp = <<>> BY <2>1
  <2>9. Rising(Sounds') /\ UpTo(Sounds', made') BY <2>1, <2>3 DEF SoundInLine
  <2> QED BY <2>5, <2>6, <2>7, <2>8, <2>9, NothingRises DEF SoundInLine
<1>4. CASE Samples!PipeFull BY <1>4 DEF Samples!PipeFull
<1>5. CASE Samples!SinkBroken \/ Samples!Stop
  <2>1. /\ ring' = [ring EXCEPT !.stop = TRUE] /\ UNCHANGED <<made, heard>>
        /\ writer' = writer \/ writer' = [at |-> "ended", tmp |-> <<>>]
    BY <1>5 DEF Samples!SinkBroken, Samples!Stop
  <2>2. RingTyped(ring) BY DEF SoundTyped
  <2>3. /\ ring'.data = ring.data /\ ring'.r = ring.r /\ ring'.fill = ring.fill
        /\ DOMAIN ring' = DOMAIN ring
    BY <2>1, <2>2 DEF RingTyped
  <2>4. RingTyped(ring') /\ Sounds' = Sounds BY <2>2, <2>3, OnlyTheRingStops DEF Sounds
  <2>5. CASE writer' = writer BY <2>1, <2>4, <2>5 DEF SoundTyped, SoundInLine
  <2>6. CASE writer' = [at |-> "ended", tmp |-> <<>>]
    <3>1. writer'.tmp = <<>> /\ writer'.at = "ended" /\ DOMAIN writer' = {"at", "tmp"} BY <2>6
    <3>2. SoundTyped' BY <2>1, <2>4, <3>1, EmptySeq DEF SoundTyped
    <3> QED BY <2>1, <2>4, <3>1, <3>2, NothingRises DEF SoundInLine
  <2> QED BY <2>1, <2>5, <2>6
<1>6. CASE UNCHANGED Samples!vars
  BY <1>6 DEF Samples!vars, SoundTyped, SoundInLine, Sounds
<1> QED BY <1>1, <1>2, <1>3, <1>4, <1>5, <1>6 DEF Samples!Next

\* Every sample is heard at most once and in the order it was decoded (audio_q_push,
\* audio_q_thread), as long as the pipe takes each piece whole.
THEOREM SoundKeepsItsOrder == "full" \notin SoundFaults => (Samples!Spec => []Samples!HeardInOrder)
<1> SUFFICES ASSUME "full" \notin SoundFaults PROVE Samples!Spec => []Samples!HeardInOrder OBVIOUS
<1>1. Samples!Init => SoundTyped /\ SoundInLine BY SoundInit
<1>2. SoundTyped /\ SoundInLine /\ [Samples!Next]_(Samples!vars) => (SoundTyped /\ SoundInLine)'
  BY SoundStep
<1>3. ASSUME SoundTyped, SoundInLine PROVE Samples!HeardInOrder
  <2> DEFINE line == heard \o writer.tmp \o Sounds
  <2>1. heard \in Seq(Nat) /\ writer.tmp \in Seq(Nat) /\ Sounds \in Seq(Nat)
    BY <1>3, ContentIsASequence DEF SoundTyped, Sounds
  <2>2. heard \o writer.tmp \in Seq(Nat) BY <2>1
  <2>3. Rising(heard \o writer.tmp) /\ Before(heard \o writer.tmp, Sounds) /\ Rising(Sounds)
    BY <1>3, <2>1, RisesOn, ComesAfter DEF SoundInLine
  <2>4. Rising(line) BY <2>1, <2>2, <2>3, RisesOn
  <2> QED BY <2>4 DEF Rising, Samples!HeardInOrder, Sounds
<1> QED BY <1>1, <1>2, <1>3, PTL DEF Samples!Spec

-----------------------------------------------------------------------------
(***************************************************************************)
(* Audio focus.  A handler is a chain of steps, each of which keeps the    *)
(* fields of the session or changes them as the code does: each has its    *)
(* lemma, and the tick is the chain of the lemmas.  What the thread of the *)
(* activity does to the flag and to the focus is not looked into.          *)
(***************************************************************************)
CONSTANTS FocusJobs, FocusFaults

VARIABLES focusing, visible, wish

Focus == INSTANCE AudioFocus WITH s <- focusing, MaxJobs <- FocusJobs, Faults <- FocusFaults

\* Of AudioFocus (see there).
UserPauseStays == part = "focus" => Focus!UserPauseStays

\* A record with the fields of the state of AudioFocus
Shaped(t) ==
  DOMAIN t = {"play", "cause", "held", "life", "read", "flag", "jobs", "focus", "waiting"}

\* u has the play, the cause and the life cycle of t.
SameSession(t, u) == Shaped(u) /\ u.play = t.play /\ u.cause = t.cause /\ u.life = t.life

LEMMA PostKeepsSession ==
  ASSUME NEW t, Shaped(t), NEW posted PROVE SameSession(t, Focus!Post(t, posted))
BY DEF Focus!Post, Shaped, SameSession

LEMMA AbandonKeepsSession ==
  ASSUME NEW t, Shaped(t) PROVE SameSession(t, Focus!Abandon(t))
<1>1. SameSession(t, Focus!Post(t, "abandon")) BY PostKeepsSession
<1> QED BY <1>1 DEF Focus!Abandon, Shaped, SameSession

LEMMA AskKeepsSession ==
  ASSUME NEW t, Shaped(t), NEW u \in Focus!Ask(t) PROVE SameSession(t, u)
<1> DEFINE posted == Focus!Post(t, "request")
<1>1. SameSession(t, posted) BY PostKeepsSession
<1>2. \A w \in Focus!RunAll(posted) \cup {posted} : SameSession(t, w)
  BY <1>1 DEF Focus!RunAll, Shaped, SameSession
<1>3. \A w \in Focus!Bind(Focus!RunAll(posted) \cup {posted}, Focus!Poll) : SameSession(t, w)
  BY <1>2 DEF Focus!Bind, Focus!Poll, Shaped, SameSession
<1>4. PICK w \in Focus!Bind(Focus!RunAll(posted) \cup {posted}, Focus!Poll) :
        u = IF w.read THEN [w EXCEPT !.held = TRUE] ELSE w
  BY DEF Focus!Ask
<1>5. SameSession(t, w) BY <1>3, <1>4
<1>6. SameSession(t, [w EXCEPT !.held = TRUE]) BY <1>5 DEF Shaped, SameSession
<1> QED BY <1>4, <1>5, <1>6

\* The steps of a tick, for a player that the user paused: none resumes it.
Silenced(t) == Shaped(t) /\ t.play # "playing" /\ t.cause \notin {"focus", "lifecycle"}

LEMMA TickKeepsPause ==
  ASSUME NEW t, Silenced(t)
  PROVE  /\ \A u \in Focus!Promoted(t) : Silenced(u)
         /\ \A u \in Focus!Notice(t) : Silenced(u)
         /\ \A u \in Focus!Want(t) : Silenced(u)
         /\ \A u \in Focus!Follow(t) : Silenced(u)
         /\ \A u \in Focus!LetGo(t) : Silenced(u)
<1>1. \A u \in Focus!Ask(t) : SameSession(t, u) BY AskKeepsSession DEF Silenced
<1>2. SameSession(t, Focus!Abandon(t)) BY AbandonKeepsSession DEF Silenced
<1>3. \A u \in Focus!Promoted(t) : Silenced(u) BY DEF Focus!Promoted, Silenced
<1>4. \A u \in Focus!Notice(t) : Silenced(u)
  BY DEF Focus!Notice, Focus!Paused, Focus!Resumed, Silenced, Shaped
<1>5. \A u \in Focus!Want(t) : Silenced(u)
  BY <1>1 DEF Focus!Want, Silenced, SameSession
<1>6. \A u \in Focus!Follow(t) : Silenced(u)
  BY DEF Focus!Follow, Silenced, Shaped
<1>7. \A u \in Focus!LetGo(t) : Silenced(u)
  BY <1>2 DEF Focus!LetGo, Silenced, SameSession
<1> QED BY <1>3, <1>4, <1>5, <1>6, <1>7

\* A tick is its five steps, one after the other.
LEMMA TickIsAChain ==
  ASSUME NEW fresh \in BOOLEAN, Focus!Tick(fresh)
  PROVE  \E t0 \in {focusing, [focusing EXCEPT !.read = focusing.flag]} :
           \E t1 \in Focus!Promoted(t0) : \E t2 \in Focus!Notice(t1) :
             \E t3 \in Focus!Want(t2) : \E t4 \in Focus!Follow(t3) : focusing' \in Focus!LetGo(t4)
BY DEF Focus!Tick, Focus!Bind

LEMMA StepsKeepShape ==
  ASSUME NEW t, Shaped(t)
  PROVE  /\ \A u \in Focus!Promoted(t) : Shaped(u)
         /\ \A u \in Focus!Notice(t) : Shaped(u)
         /\ \A u \in Focus!Want(t) : Shaped(u)
         /\ \A u \in Focus!Follow(t) : Shaped(u)
         /\ \A u \in Focus!LetGo(t) : Shaped(u) /\ u.play = t.play /\ u.life = t.life
<1>1. \A u \in Focus!Ask(t) : SameSession(t, u) BY AskKeepsSession
<1>2. SameSession(t, Focus!Abandon(t)) BY AbandonKeepsSession
<1>3. \A u \in Focus!Promoted(t) : Shaped(u)
  BY <1>1 DEF Focus!Promoted, Shaped, SameSession
<1>4. \A u \in Focus!Notice(t) : Shaped(u)
  BY DEF Focus!Notice, Focus!Paused, Focus!Resumed, Shaped
<1>5. \A u \in Focus!Want(t) : Shaped(u)
  BY <1>1 DEF Focus!Want, Focus!Resumed, Shaped, SameSession
<1>6. \A u \in Focus!Follow(t) : Shaped(u)
  <2>1. CASE ~visible /\ ~t.life /\ t.play = "playing"
    <3> DEFINE w == [Focus!Paused(t, "lifecycle") EXCEPT !.life = TRUE]
    <3>1. Shaped(w) BY DEF Focus!Paused, Shaped
    <3>2. Shaped(Focus!Abandon(w)) BY <3>1, AbandonKeepsSession DEF SameSession
    <3> QED BY <2>1, <3>2 DEF Focus!Follow
  <2>2. CASE visible /\ t.life
    <3> DEFINE w == [t EXCEPT !.life = FALSE]
    <3>1. Shaped(w) BY DEF Shaped
    <3>2. \A u \in Focus!Ask(w) : Shaped(u) BY <3>1, AskKeepsSession DEF SameSession
    <3>3. \A u : Shaped(u) => Shaped(Focus!Resumed(u)) /\ Shaped([u EXCEPT !.cause = "focus"])
      BY DEF Focus!Resumed, Shaped
    <3>4. Focus!Follow(t) = IF t.cause # "lifecycle" THEN {w}
            ELSE {IF u.read THEN Focus!Resumed(u) ELSE [u EXCEPT !.cause = "focus"] : u \in Focus!Ask(w)}
      BY <2>2 DEF Focus!Follow
    <3> HIDE DEF w
    <3>5. ASSUME NEW v \in Focus!Ask(w)
          PROVE  Shaped(IF v.read THEN Focus!Resumed(v) ELSE [v EXCEPT !.cause = "focus"])
      BY <3>2, <3>3
    <3>6. CASE t.cause # "lifecycle" BY <3>1, <3>4, <3>6
    <3>7. CASE t.cause = "lifecycle"
      <4>1. Focus!Follow(t) = {IF u.read THEN Focus!Resumed(u) ELSE [u EXCEPT !.cause = "focus"] : u \in Focus!Ask(w)}
        BY <3>4, <3>7
      <4> QED BY <3>5, <4>1
    <3> QED BY <3>6, <3>7
  <2>3. CASE ~(~visible /\ ~t.life /\ t.play = "playing") /\ ~(visible /\ t.life)
    BY <2>3 DEF Focus!Follow
  <2> QED BY <2>1, <2>2, <2>3
<1>7. \A u \in Focus!LetGo(t) : Shaped(u) /\ u.play = t.play /\ u.life = t.life
  BY <1>2 DEF Focus!LetGo, SameSession
<1> QED BY <1>3, <1>4, <1>5, <1>6, <1>7

\* u is t with its play and its cause changed.
Became(t, u, p, cause) == Shaped(u) /\ u.play = p /\ u.cause = cause /\ u.life = t.life

\* The steps of the other handlers: what the user asks of the session
LEMMA AnswersKeepShape ==
  ASSUME NEW t, Shaped(t)
  PROVE  /\ \A cause : Became(t, Focus!Paused(t, cause), "paused", cause)
         /\ Became(t, Focus!Resumed(t), "playing", "none")
         /\ \A u \in Focus!AskUnheld(t) : SameSession(t, u)
         /\ \A p : Became(t, [t EXCEPT !.play = p], p, t.cause)
         /\ \A cause : Became(t, [t EXCEPT !.cause = cause], t.play, cause)
         /\ \A p, cause : Became(t, [t EXCEPT !.play = p, !.cause = cause], p, cause)
<1>1. \A u \in Focus!AskUnheld(t) : SameSession(t, u)
  BY AskKeepsSession DEF Focus!AskUnheld, SameSession
<1>2. \A cause : Became(t, Focus!Paused(t, cause), "paused", cause)
  BY DEF Focus!Paused, Shaped, Became
<1>3. Became(t, Focus!Resumed(t), "playing", "none")
  BY DEF Focus!Resumed, Shaped, Became
<1>4. \A p : Became(t, [t EXCEPT !.play = p], p, t.cause)
  BY DEF Shaped, Became
<1>5. \A cause : Became(t, [t EXCEPT !.cause = cause], t.play, cause)
  BY DEF Shaped, Became
<1>6. \A p, cause : Became(t, [t EXCEPT !.play = p, !.cause = cause], p, cause)
  BY DEF Shaped, Became
<1> QED BY <1>1, <1>2, <1>3, <1>4, <1>5, <1>6

\* The steps of the system and of the thread of the activity.
SystemStep == Focus!MainThread \/ Focus!Lost \/ Focus!CallBegins \/ Focus!CallEnds

\* A play, whoever it is handed to: nothing else of the session changes.
LEMMA PlaysAnew ==
  ASSUME Shaped(focusing), Focus!Play
  PROVE  \E p : Became(focusing, focusing', p, "none")
<1>1. ASSUME NEW t, SameSession(focusing, t), NEW p,
             focusing' = [t EXCEPT !.play = p, !.cause = "none"]
      PROVE  Became(focusing, focusing', p, "none")
  <2>1. Shaped(t) /\ t.life = focusing.life BY <1>1 DEF SameSession
  <2>2. Became(t, focusing', p, "none") BY <1>1, <2>1, AnswersKeepShape
  <2> QED BY <2>1, <2>2 DEF Became
<1>2. SameSession(focusing, Focus!Abandon(focusing)) BY AbandonKeepsSession
<1>3. ASSUME NEW t \in Focus!Ask(focusing)
      PROVE  SameSession(focusing, t) /\ SameSession(focusing, Focus!Abandon(t))
  <2>1. SameSession(focusing, t) BY AskKeepsSession
  <2>2. Shaped(t) BY <2>1 DEF SameSession
  <2>3. SameSession(t, Focus!Abandon(t)) BY <2>2, AbandonKeepsSession
  <2> QED BY <2>1, <2>3 DEF SameSession
<1>4. \/ focusing' = [Focus!Abandon(focusing) EXCEPT !.play = "external", !.cause = "none"]
      \/ \E t \in Focus!Ask(focusing) :
           \/ \E p \in {"playing", "none"} : focusing' = [t EXCEPT !.play = p, !.cause = "none"]
           \/ focusing' = [Focus!Abandon(t) EXCEPT !.play = "external", !.cause = "none"]
  BY DEF Focus!Play
<1>5. CASE focusing' = [Focus!Abandon(focusing) EXCEPT !.play = "external", !.cause = "none"]
  BY <1>1, <1>2, <1>5
<1>6. CASE \E t \in Focus!Ask(focusing) :
             \E p \in {"playing", "none"} : focusing' = [t EXCEPT !.play = p, !.cause = "none"]
  BY <1>1, <1>3, <1>6
<1>7. CASE \E t \in Focus!Ask(focusing) :
             focusing' = [Focus!Abandon(t) EXCEPT !.play = "external", !.cause = "none"]
  BY <1>1, <1>3, <1>7
<1> QED BY <1>4, <1>5, <1>6, <1>7

LEMMA SystemKeepsSession ==
  ASSUME Shaped(focusing), SystemStep
  PROVE  SameSession(focusing, focusing') /\ UNCHANGED <<visible, wish>>
<1>1. CASE Focus!MainThread
  <2>1. PICK t \in Focus!RunJob(focusing, Head(focusing.jobs)) : focusing' = [t EXCEPT !.jobs = Tail(@)]
    BY <1>1 DEF Focus!MainThread
  <2>2. SameSession(focusing, t) BY DEF Focus!RunJob, Shaped, SameSession
  <2>3. SameSession(focusing, [t EXCEPT !.jobs = Tail(t.jobs)]) BY <2>2 DEF Shaped, SameSession
  <2> QED BY <1>1, <2>1, <2>3 DEF Focus!MainThread
<1>2. CASE Focus!Lost
  BY <1>2 DEF Focus!Lost, Shaped, SameSession
<1>3. CASE Focus!CallBegins
  BY <1>3 DEF Focus!CallBegins, Shaped, SameSession
<1>4. CASE Focus!CallEnds
  BY <1>4 DEF Focus!CallEnds, Shaped, SameSession
<1> QED BY <1>1, <1>2, <1>3, <1>4 DEF SystemStep

-----------------------------------------------------------------------------
\* The user's pause is the user's: no cause is left by which the system would resume.
PauseIsTheUsers ==
  /\ Shaped(focusing)
  /\ wish = "pause" => Silenced(focusing)

LEMMA PauseInit == Focus!Init => PauseIsTheUsers
BY DEF Focus!Init, Focus!Start, PauseIsTheUsers, Shaped, Silenced

LEMMA PauseTick ==
  ASSUME PauseIsTheUsers, NEW fresh \in BOOLEAN, Focus!Tick(fresh)
  PROVE  PauseIsTheUsers'
<1>1. PICK t0 \in {focusing, [focusing EXCEPT !.read = focusing.flag]} :
        \E t1 \in Focus!Promoted(t0) : \E t2 \in Focus!Notice(t1) :
          \E t3 \in Focus!Want(t2) : \E t4 \in Focus!Follow(t3) : focusing' \in Focus!LetGo(t4)
  BY TickIsAChain
<1>2. PICK t1, t2 :
        /\ t1 \in Focus!Promoted(t0) /\ t2 \in Focus!Notice(t1)
        /\ \E t3 \in Focus!Want(t2) : \E t4 \in Focus!Follow(t3) : focusing' \in Focus!LetGo(t4)
  BY <1>1
<1>3. PICK t3, t4 :
        t3 \in Focus!Want(t2) /\ t4 \in Focus!Follow(t3) /\ focusing' \in Focus!LetGo(t4)
  BY <1>2
<1>4. Shaped(t0) BY DEF PauseIsTheUsers, Shaped
<1>5. Shaped(t1) /\ Shaped(t2) /\ Shaped(t3) /\ Shaped(t4) /\ Shaped(focusing')
  BY <1>2, <1>3, <1>4, StepsKeepShape
<1>6. Silenced(t0) => Silenced(focusing')
  BY <1>2, <1>3, TickKeepsPause
<1>7. Silenced(focusing) => Silenced(t0)
  BY <1>4 DEF Silenced, Shaped
<1>8. wish' = wish BY DEF Focus!Tick
<1> QED BY <1>5, <1>6, <1>7, <1>8 DEF PauseIsTheUsers

LEMMA PauseStep ==
  ASSUME "hotkey" \notin FocusFaults, PauseIsTheUsers, [Focus!Next]_(Focus!vars)
  PROVE  PauseIsTheUsers'
<1>1. Shaped(focusing) BY DEF PauseIsTheUsers
<1>2. SameSession(focusing, Focus!Abandon(focusing)) BY <1>1, AbandonKeepsSession
<1>4. /\ \A cause : Became(focusing, Focus!Paused(focusing, cause), "paused", cause)
      /\ \A cause : Became(focusing, [focusing EXCEPT !.cause = cause], focusing.play, cause)
      /\ \A p : Became(focusing, [focusing EXCEPT !.play = p], p, focusing.cause)
      /\ \A u \in Focus!AskUnheld(focusing) : SameSession(focusing, u)
  BY <1>1, AnswersKeepShape
<1>5. CASE \E fresh \in BOOLEAN : Focus!Tick(fresh) BY <1>5, PauseTick
<1>6. CASE Focus!Play
  <2>1. wish' = "play" BY <1>6 DEF Focus!Play
  <2>2. Shaped(focusing') BY <1>1, <1>6, PlaysAnew DEF Became
  <2> QED BY <2>1, <2>2 DEF PauseIsTheUsers
<1>7. CASE Focus!Stop
  <2>1. wish' = "none" BY <1>7 DEF Focus!Stop
  <2>2. Shaped([Focus!Abandon(focusing) EXCEPT !.play = "none", !.cause = "none"])
    BY <1>2 DEF SameSession, Shaped
  <2>3. Shaped(focusing') BY <1>7, <2>2 DEF Focus!Stop
  <2> QED BY <2>1, <2>3 DEF PauseIsTheUsers
<1>8. CASE Focus!Ended
  <2>1. wish' = "none" BY <1>8 DEF Focus!Ended
  <2>2. Shaped(focusing') BY <1>8, <1>4 DEF Focus!Ended, Became
  <2> QED BY <2>1, <2>2 DEF PauseIsTheUsers
<1>9. CASE Focus!TogglePause
  <2>1. CASE focusing.play = "playing" /\ wish' = "pause" /\ focusing' = Focus!Paused(focusing, "user")
    <3>1. Became(focusing, focusing', "paused", "user") BY <1>4, <2>1
    <3> QED BY <3>1 DEF PauseIsTheUsers, Silenced, Became
  <2>2. CASE focusing.play = "external" /\ wish' = wish /\ focusing' = [focusing EXCEPT !.cause = "user"]
    <3>1. Became(focusing, focusing', "external", "user") BY <1>4, <2>2
    <3> QED BY <3>1 DEF PauseIsTheUsers, Silenced, Became
  <2>3. CASE wish' = "play" /\ focusing' \in {Focus!Resumed(t) : t \in Focus!AskUnheld(focusing)}
    <3>1. PICK t \in Focus!AskUnheld(focusing) : focusing' = Focus!Resumed(t) BY <2>3
    <3>2. Shaped(t) BY <1>1, AnswersKeepShape DEF SameSession
    <3>3. Shaped(focusing') BY <3>1, <3>2, AnswersKeepShape DEF Became
    <3> QED BY <2>3, <3>3 DEF PauseIsTheUsers
  <2> QED BY <1>9, <2>1, <2>2, <2>3 DEF Focus!TogglePause
<1>10. CASE Focus!Sleep
  BY <1>10, <1>4 DEF Focus!Sleep, PauseIsTheUsers, Silenced, Became
<1>11. CASE Focus!TogglePip
  <2>1. SameSession(focusing, focusing') /\ wish' = wish
    BY <1>11, <1>4 DEF Focus!TogglePip
  <2> QED BY <2>1 DEF PauseIsTheUsers, Silenced, SameSession
<1>12. CASE SystemStep
  BY <1>1, <1>12, SystemKeepsSession DEF PauseIsTheUsers, Silenced, SameSession
<1>13. CASE Focus!ShowOrHide
  BY <1>13 DEF Focus!ShowOrHide, PauseIsTheUsers, Silenced, Shaped
<1>14. CASE UNCHANGED Focus!vars
  BY <1>14 DEF Focus!vars, PauseIsTheUsers, Silenced, Shaped
<1> QED
  BY <1>5, <1>6, <1>7, <1>8, <1>9, <1>10, <1>11, <1>12, <1>13, <1>14
  DEF Focus!Next, Focus!HotkeyPause, SystemStep

\* The system never undoes a pause of the user (on_audio_focus and the ticks of app.rs),
\* whatever the focus, the calls and the posts to the activity do meanwhile; with the
\* pause key of a keyboard, which leaves the cause of an earlier pause, it may.
THEOREM PausesStay ==
  "hotkey" \notin FocusFaults => (Focus!Spec => []UserPauseStays)
<1> SUFFICES ASSUME "hotkey" \notin FocusFaults PROVE Focus!Spec => []UserPauseStays
  OBVIOUS
<1>1. PauseIsTheUsers => UserPauseStays
  BY DEF PauseIsTheUsers, Silenced, UserPauseStays, Focus!UserPauseStays
<1>2. PauseIsTheUsers /\ [Focus!Next]_(Focus!vars) => PauseIsTheUsers'
  BY PauseStep
<1> QED BY <1>1, <1>2, PauseInit, PTL DEF Focus!Spec

-----------------------------------------------------------------------------
\* A player that the life cycle paused does not play.
Orderly(t) == Shaped(t) /\ (t.life => t.play # "playing")
LifePauses == Orderly(focusing)

\* Hidden, no step of a tick resumes, and what plays before the fourth does not after it.
LEMMA HiddenSteps ==
  ASSUME ~visible, NEW t, Orderly(t)
  PROVE  /\ \A u \in Focus!Promoted(t) : Orderly(u)
         /\ \A u \in Focus!Notice(t) : Orderly(u)
         /\ \A u \in Focus!Want(t) : Orderly(u)
         /\ \A u \in Focus!Follow(t) : u.play # "playing"
<1>1. Shaped(t) /\ (t.life => t.play # "playing") BY DEF Orderly
<1>2. \A u \in Focus!Ask(t) : SameSession(t, u) BY <1>1, AskKeepsSession
<1>3. \A u \in Focus!Promoted(t) : Orderly(u)
  <2>1. CASE t.play = "playing"
    <3>1. \A u, p : SameSession(t, u) => Orderly([u EXCEPT !.play = p])
      BY <1>1, <2>1 DEF SameSession, Shaped, Orderly
    <3>2. ASSUME NEW u \in Focus!Promoted(t), u # t PROVE Orderly(u)
      <4>1. PICK a \in Focus!Ask(t), p \in {"playing", "none"} : u = [a EXCEPT !.play = p]
        BY <2>1, <3>2 DEF Focus!Promoted
      <4> QED BY <1>2, <3>1, <4>1
    <3> QED BY <3>2
  <2>2. CASE t.play # "playing" BY <2>2 DEF Focus!Promoted
  <2> QED BY <2>1, <2>2
<1>4. \A u \in Focus!Notice(t) : Orderly(u)
  <2>1. CASE ~t.read /\ t.held /\ t.play = "playing"
    <3>1. Orderly([Focus!Paused(t, "focus") EXCEPT !.held = FALSE])
      BY <1>1 DEF Focus!Paused, Orderly, Shaped
    <3> QED BY <2>1, <3>1 DEF Focus!Notice
  <2>2. CASE ~t.read /\ ~(t.held /\ t.play = "playing") BY <2>2 DEF Focus!Notice
  <2>3. CASE t.read
    <3>1. Orderly([t EXCEPT !.held = TRUE]) BY <1>1 DEF Orderly, Shaped
    <3> QED BY <2>3, <3>1 DEF Focus!Notice
  <2> QED BY <2>1, <2>2, <2>3
<1>5. \A u \in Focus!Want(t) : Orderly(u) BY DEF Focus!Want
<1>6. \A u \in Focus!Follow(t) : u.play # "playing"
  <2>1. CASE ~t.life /\ t.play = "playing"
    <3> DEFINE w == [Focus!Paused(t, "lifecycle") EXCEPT !.life = TRUE]
    <3>1. Shaped(w) /\ w.play = "paused" BY <1>1 DEF Focus!Paused, Shaped
    <3>2. Focus!Abandon(w).play = "paused" BY <3>1, AbandonKeepsSession DEF SameSession
    <3> QED BY <2>1, <3>2 DEF Focus!Follow
  <2>2. CASE ~(~t.life /\ t.play = "playing") BY <1>1, <2>2 DEF Focus!Follow
  <2> QED BY <2>1, <2>2
<1> QED BY <1>3, <1>4, <1>5, <1>6

\* In sight, the fourth step ends the pause of the life cycle.
LEMMA ShownFollows ==
  ASSUME visible, NEW t, Shaped(t) PROVE \A u \in Focus!Follow(t) : ~u.life
<1>1. CASE t.life
  <2> DEFINE w == [t EXCEPT !.life = FALSE]
  <2>1. Shaped(w) /\ ~w.life BY DEF Shaped
  <2>2. \A u \in Focus!Ask(w) : Shaped(u) /\ ~u.life BY <2>1, AskKeepsSession DEF SameSession
  <2>3. \A u : Shaped(u) /\ ~u.life => ~Focus!Resumed(u).life /\ ~[u EXCEPT !.cause = "focus"].life
    BY DEF Focus!Resumed, Shaped
  <2>4. Focus!Follow(t) = IF t.cause # "lifecycle" THEN {w}
          ELSE {IF u.read THEN Focus!Resumed(u) ELSE [u EXCEPT !.cause = "focus"] : u \in Focus!Ask(w)}
    BY <1>1 DEF Focus!Follow
  <2> HIDE DEF w
  <2>5. ASSUME NEW v \in Focus!Ask(w)
        PROVE  ~(IF v.read THEN Focus!Resumed(v) ELSE [v EXCEPT !.cause = "focus"]).life
    BY <2>2, <2>3
  <2>6. CASE t.cause # "lifecycle" BY <2>1, <2>4, <2>6
  <2>7. CASE t.cause = "lifecycle"
    <3>1. Focus!Follow(t) = {IF u.read THEN Focus!Resumed(u) ELSE [u EXCEPT !.cause = "focus"] : u \in Focus!Ask(w)}
      BY <2>4, <2>7
    <3> QED BY <2>5, <3>1
  <2> QED BY <2>6, <2>7
<1>2. CASE ~t.life BY <1>2 DEF Focus!Follow
<1> QED BY <1>1, <1>2

\* A tick leaves a hidden player paused, and one in sight out of the life cycle's pause.
LEMMA LifeTick ==
  ASSUME LifePauses, NEW fresh \in BOOLEAN, Focus!Tick(fresh)
  PROVE  LifePauses' /\ Focus!HidesPaused
<1>1. PICK t0 \in {focusing, [focusing EXCEPT !.read = focusing.flag]} :
        \E t1 \in Focus!Promoted(t0) : \E t2 \in Focus!Notice(t1) :
          \E t3 \in Focus!Want(t2) : \E t4 \in Focus!Follow(t3) : focusing' \in Focus!LetGo(t4)
  BY TickIsAChain
<1>2. PICK t1, t2 :
        /\ t1 \in Focus!Promoted(t0) /\ t2 \in Focus!Notice(t1)
        /\ \E t3 \in Focus!Want(t2) : \E t4 \in Focus!Follow(t3) : focusing' \in Focus!LetGo(t4)
  BY <1>1
<1>3. PICK t3, t4 :
        t3 \in Focus!Want(t2) /\ t4 \in Focus!Follow(t3) /\ focusing' \in Focus!LetGo(t4)
  BY <1>2
<1>4. Orderly(t0) BY DEF LifePauses, Orderly, Shaped
<1>5. Shaped(t3) /\ Shaped(t4) /\ Shaped(focusing') /\ focusing'.play = t4.play /\ focusing'.life = t4.life
  BY <1>2, <1>3, <1>4, StepsKeepShape DEF Orderly
<1>6. CASE visible
  <2>1. ~t4.life BY <1>3, <1>5, <1>6, ShownFollows
  <2> QED BY <1>5, <1>6, <2>1 DEF LifePauses, Orderly, Focus!HidesPaused
<1>7. CASE ~visible
  <2>1. Orderly(t1) BY <1>2, <1>4, <1>7, HiddenSteps
  <2>2. Orderly(t2) BY <1>2, <1>7, <2>1, HiddenSteps
  <2>3. Orderly(t3) BY <1>3, <1>7, <2>2, HiddenSteps
  <2>4. t4.play # "playing" BY <1>3, <1>7, <2>3, HiddenSteps
  <2> QED BY <1>5, <2>4 DEF LifePauses, Orderly, Focus!HidesPaused
<1> QED BY <1>6, <1>7

LEMMA LifeInit == Focus!Init => LifePauses
BY DEF Focus!Init, Focus!Start, LifePauses, Orderly, Shaped

LEMMA LifeStep ==
  ASSUME "quick" \notin FocusFaults, LifePauses, [Focus!Next]_(Focus!vars)
  PROVE  LifePauses' /\ [Focus!HidesPaused]_(Focus!vars)
<1>1. Shaped(focusing) /\ (focusing.life => focusing.play # "playing") BY DEF LifePauses, Orderly
<1>2. SameSession(focusing, Focus!Abandon(focusing)) BY <1>1, AbandonKeepsSession
<1>4. /\ \A cause : Became(focusing, Focus!Paused(focusing, cause), "paused", cause)
      /\ \A cause : Became(focusing, [focusing EXCEPT !.cause = cause], focusing.play, cause)
      /\ \A p : Became(focusing, [focusing EXCEPT !.play = p], p, focusing.cause)
      /\ \A u \in Focus!AskUnheld(focusing) : SameSession(focusing, u)
  BY <1>1, AnswersKeepShape
<1>5. CASE \E fresh \in BOOLEAN : Focus!Tick(fresh) BY <1>5, LifeTick
<1>6. SUFFICES ASSUME ~\E fresh \in BOOLEAN : Focus!Tick(fresh) PROVE LifePauses'
  BY <1>5 DEF Focus!HidesPaused
<1>7. CASE Focus!Play
  <2>1. ~focusing.life BY <1>7 DEF Focus!Play, Focus!Reachable
  <2>2. \E p : Became(focusing, focusing', p, "none") BY <1>1, <1>7, PlaysAnew
  <2> QED BY <2>1, <2>2 DEF LifePauses, Orderly, Became
<1>8. CASE Focus!Stop
  <2>1. Orderly([Focus!Abandon(focusing) EXCEPT !.play = "none", !.cause = "none"])
    BY <1>2 DEF SameSession, Shaped, Orderly
  <2> QED BY <1>8, <2>1 DEF Focus!Stop, LifePauses
<1>9. CASE Focus!Ended
  <2>1. Became(focusing, focusing', "none", focusing.cause) BY <1>4, <1>9 DEF Focus!Ended
  <2> QED BY <2>1 DEF LifePauses, Orderly, Became
<1>10. CASE Focus!TogglePause
  <2>1. ~focusing.life BY <1>10 DEF Focus!TogglePause, Focus!Reachable
  <2>2. ASSUME NEW t \in Focus!AskUnheld(focusing), focusing' = Focus!Resumed(t) PROVE LifePauses'
    <3>1. Shaped(t) /\ ~t.life BY <1>4, <2>1 DEF SameSession
    <3>2. Became(t, Focus!Resumed(t), "playing", "none") BY <3>1, AnswersKeepShape
    <3> QED BY <2>2, <3>1, <3>2 DEF LifePauses, Orderly, Became
  <2>3. CASE focusing' = Focus!Paused(focusing, "user")
    <3>1. Became(focusing, focusing', "paused", "user") BY <1>4, <2>3
    <3> QED BY <3>1 DEF LifePauses, Orderly, Became
  <2>4. CASE focusing' = [focusing EXCEPT !.cause = "user"]
    <3>1. Became(focusing, focusing', focusing.play, "user") BY <1>4, <2>4
    <3> QED BY <1>1, <3>1 DEF LifePauses, Orderly, Became
  <2> QED BY <1>10, <2>2, <2>3, <2>4 DEF Focus!TogglePause
<1>11. CASE Focus!HotkeyPause
  <2>1. ~focusing.life BY <1>11 DEF Focus!HotkeyPause, Focus!Reachable
  <2>2. PICK p : focusing' = [focusing EXCEPT !.play = p] BY <1>11 DEF Focus!HotkeyPause
  <2>3. Became(focusing, focusing', p, focusing.cause) BY <1>4, <2>2
  <2> QED BY <2>1, <2>3 DEF LifePauses, Orderly, Became
<1>12. CASE Focus!Sleep
  <2>1. Became(focusing, focusing', "paused", "user") BY <1>4, <1>12 DEF Focus!Sleep
  <2> QED BY <2>1 DEF LifePauses, Orderly, Became
<1>13. CASE Focus!TogglePip
  <2>1. SameSession(focusing, focusing') BY <1>4, <1>13 DEF Focus!TogglePip
  <2> QED BY <1>1, <2>1 DEF LifePauses, Orderly, SameSession
<1>14. CASE SystemStep
  <2>1. SameSession(focusing, focusing') BY <1>1, <1>14, SystemKeepsSession
  <2> QED BY <1>1, <2>1 DEF LifePauses, Orderly, SameSession
<1>15. CASE Focus!ShowOrHide BY <1>15 DEF Focus!ShowOrHide, LifePauses, Orderly, Shaped
<1>16. CASE UNCHANGED Focus!vars
  BY <1>16 DEF Focus!vars, LifePauses, Orderly, Shaped
<1> QED
  BY <1>6, <1>7, <1>8, <1>9, <1>10, <1>11, <1>12, <1>13, <1>14, <1>15, <1>16
  DEF Focus!Next, SystemStep

\* A hidden player is paused by the first tick that sees it hidden, whatever the focus and
\* the posts to the activity do (the life cycle in app.rs), unless the user shows it,
\* plays and hides it again between two ticks.
THEOREM HiddenPlayersPause ==
  "quick" \notin FocusFaults => (Focus!Spec => Focus!HiddenIsPaused)
<1> SUFFICES ASSUME "quick" \notin FocusFaults PROVE Focus!Spec => Focus!HiddenIsPaused
  OBVIOUS
<1>1. LifePauses /\ [Focus!Next]_(Focus!vars) => LifePauses' /\ [Focus!HidesPaused]_(Focus!vars)
  BY LifeStep
<1> QED BY <1>1, LifeInit, PTL DEF Focus!Spec, Focus!HiddenIsPaused

-----------------------------------------------------------------------------
(***************************************************************************)
(* Pictures on their way from the network to the screen.  A picture is of  *)
(* the place of the film its packet was at, of the serial of the queue and *)
(* of the generation of the screen.  The argument: what the presenter has, *)
(* what waits for it, what the decoder gives out and what it holds back    *)
(* ascend in this order, all of one generation, and below the packets that *)
(* are still of the serial the decoder follows; a seek that comes between  *)
(* makes the serials differ, and the decoder drops what it holds before it *)
(* takes the next packet.                                                  *)
(***************************************************************************)
CONSTANTS
  FilmLength, FilmSound, FilmLive, LowLatency, AheadSecs, AheadBytes, Cushions,
  PicturesWaiting, RetriesAtEnd, SeeksMade

ASSUME FilmAssumption == FilmLength \in Nat /\ AheadSecs \in Nat /\ AheadBytes \in Nat

VARIABLES ui, pq, demux, dec, vq, pres, shown

Embed == INSTANCE EmbedPlayer WITH
  Length <- FilmLength, Sound <- FilmSound, Live <- FilmLive, MaxSecs <- AheadSecs,
  MaxBytes <- AheadBytes, Goals <- Cushions, VqMax <- PicturesWaiting,
  MaxRetries <- RetriesAtEnd, MaxSeeks <- SeeksMade

\* Of a sequence of pictures: it ascends in the film, it comes before another one, it
\* comes before a place of the film, it is of one generation.
Ascends(s) == \A i, j \in 1..Len(s) : i < j => s[i].pos < s[j].pos
Precedes(s, t) == \A i \in 1..Len(s), j \in 1..Len(t) : s[i].pos < t[j].pos
Below(s, n) == \A i \in 1..Len(s) : s[i].pos < n
OfGen(s, g) == \A i \in 1..Len(s) : s[i].gen = g
OfSerial(s, g) == \A i \in 1..Len(s) : s[i].serial = g
Strip == Seq(Embed!Pics)

LEMMA NoPictures ==
  ASSUME NEW s, s = <<>>
  PROVE  /\ s \in Strip /\ Ascends(s)
         /\ \A t : Precedes(s, t) /\ Precedes(t, s)
         /\ \A n : Below(s, n) /\ OfGen(s, n) /\ OfSerial(s, n)
BY DEF Strip, Ascends, Precedes, Below, OfGen, OfSerial

LEMMA OnePicture ==
  ASSUME NEW p \in Embed!Pics
  PROVE  /\ <<p>> \in Strip /\ Ascends(<<p>>)
         /\ \A n \in Int : p.pos < n => Below(<<p>>, n)
         /\ \A n : p.gen = n => OfGen(<<p>>, n)
         /\ \A n : p.serial = n => OfSerial(<<p>>, n)
         /\ \A t \in Strip : Below(t, p.pos) => Precedes(t, <<p>>)
BY DEF Strip, Ascends, Precedes, Below, OfGen, OfSerial, Embed!Pics, Embed!Film

\* What becomes of the head and of the rest.
LEMMA HeadAndTail ==
  ASSUME NEW s \in Strip, s # <<>>
  PROVE  /\ Tail(s) \in Strip /\ Head(s) \in Embed!Pics
         /\ Ascends(s) => Ascends(Tail(s)) /\ Precedes(<<Head(s)>>, Tail(s))
         /\ \A t \in Strip : Precedes(s, t) => Precedes(Tail(s), t) /\ Precedes(<<Head(s)>>, t)
         /\ \A t \in Strip : Precedes(t, s) => Precedes(t, Tail(s)) /\ Precedes(t, <<Head(s)>>)
         /\ \A n : Below(s, n) => Below(Tail(s), n) /\ Below(<<Head(s)>>, n)
         /\ \A n : OfGen(s, n) => OfGen(Tail(s), n) /\ Head(s).gen = n
         /\ \A n : OfSerial(s, n) => OfSerial(Tail(s), n) /\ Head(s).serial = n
<1>1. /\ Tail(s) \in Strip /\ Len(Tail(s)) = Len(s) - 1 /\ Len(s) \in Nat /\ Len(s) # 0
      /\ \A i \in 1..Len(Tail(s)) : Tail(s)[i] = s[i + 1]
  BY DEF Strip
<1>2. Head(s) \in Embed!Pics /\ Head(s) = s[1] BY <1>1 DEF Strip
<1>3. Len(<<Head(s)>>) = 1 /\ <<Head(s)>>[1] = s[1] BY <1>2
<1> HIDE DEF Strip
<1> QED BY <1>1, <1>2, <1>3 DEF Ascends, Precedes, Below, OfGen, OfSerial

\* One sequence behind another.
LEMMA Joined ==
  ASSUME NEW s \in Strip, NEW t \in Strip
  PROVE  /\ s \o t \in Strip
         /\ Ascends(s) /\ Ascends(t) /\ Precedes(s, t) => Ascends(s \o t)
         /\ \A u \in Strip : Precedes(s, u) /\ Precedes(t, u) => Precedes(s \o t, u)
         /\ \A u \in Strip : Precedes(u, s) /\ Precedes(u, t) => Precedes(u, s \o t)
         /\ \A n : Below(s, n) /\ Below(t, n) => Below(s \o t, n)
         /\ \A n : OfGen(s, n) /\ OfGen(t, n) => OfGen(s \o t, n)
         /\ \A n : OfSerial(s, n) /\ OfSerial(t, n) => OfSerial(s \o t, n)
<1>1. /\ s \o t \in Strip /\ Len(s \o t) = Len(s) + Len(t) /\ Len(s) \in Nat /\ Len(t) \in Nat
      /\ \A i \in 1..Len(s) : (s \o t)[i] = s[i]
      /\ \A i \in 1..Len(s \o t) : i \in 1..Len(s) \/ (i - Len(s) \in 1..Len(t) /\ (s \o t)[i] = t[i - Len(s)])
  <2>1. s \in Seq(Embed!Pics) /\ t \in Seq(Embed!Pics) BY DEF Strip
  <2>2. /\ s \o t \in Seq(Embed!Pics) /\ Len(s \o t) = Len(s) + Len(t)
        /\ \A i \in 1..(Len(s) + Len(t)) : (s \o t)[i] = IF i <= Len(s) THEN s[i] ELSE t[i - Len(s)]
    BY <2>1, ConcatProperties
  <2>3. Len(s) \in Nat /\ Len(t) \in Nat BY <2>1
  <2>4. \A i \in 1..Len(s) : i \in 1..(Len(s) + Len(t)) BY <2>3
  <2>5. \A i \in 1..(Len(s) + Len(t)) :
          i \in 1..Len(s) \/ (~(i <= Len(s)) /\ i - Len(s) \in 1..Len(t))
    BY <2>3
  <2> QED BY <2>2, <2>3, <2>4, <2>5 DEF Strip
<1> HIDE DEF Strip
<1>2. \A i \in 1..Len(s \o t) :
        \/ i \in 1..Len(s) /\ (s \o t)[i] = s[i]
        \/ i > Len(s) /\ i - Len(s) \in 1..Len(t) /\ (s \o t)[i] = t[i - Len(s)]
  BY <1>1
<1>3. Ascends(s) /\ Ascends(t) /\ Precedes(s, t) => Ascends(s \o t)
  <2> SUFFICES ASSUME Ascends(s), Ascends(t), Precedes(s, t),
                      NEW i \in 1..Len(s \o t), NEW j \in 1..Len(s \o t), i < j
               PROVE  (s \o t)[i].pos < (s \o t)[j].pos
    BY DEF Ascends
  <2>1. Len(s) \in Nat BY <1>1
  <2>2. CASE i \in 1..Len(s) /\ j \in 1..Len(s)
    <3>1. s[i].pos < s[j].pos BY <2>2 DEF Ascends
    <3> QED BY <1>1, <2>2, <3>1
  <2>3. CASE i \in 1..Len(s) /\ j > Len(s)
    <3>1. j - Len(s) \in 1..Len(t) /\ (s \o t)[j] = t[j - Len(s)] BY <1>2, <2>1, <2>3
    <3>2. s[i].pos < t[j - Len(s)].pos BY <2>3, <3>1 DEF Precedes
    <3> QED BY <1>1, <2>3, <3>1, <3>2
  <2>4. CASE i > Len(s) /\ j > Len(s)
    <3>1. i - Len(s) \in 1..Len(t) /\ (s \o t)[i] = t[i - Len(s)] BY <1>2, <2>1, <2>4
    <3>2. j - Len(s) \in 1..Len(t) /\ (s \o t)[j] = t[j - Len(s)] BY <1>2, <2>1, <2>4
    <3>3. i - Len(s) < j - Len(s) BY <2>1
    <3>4. t[i - Len(s)].pos < t[j - Len(s)].pos BY <3>1, <3>2, <3>3 DEF Ascends
    <3> QED BY <3>1, <3>2, <3>4
  <2>5. \/ i \in 1..Len(s) /\ j \in 1..Len(s)
        \/ i \in 1..Len(s) /\ j > Len(s)
        \/ i > Len(s) /\ j > Len(s)
    BY <1>1, <1>2, <2>1
  <2> QED BY <2>2, <2>3, <2>4, <2>5
<1>4. \A u \in Strip : Precedes(s, u) /\ Precedes(t, u) => Precedes(s \o t, u)
  BY <1>1, <1>2 DEF Precedes
<1>5. \A u \in Strip : Precedes(u, s) /\ Precedes(u, t) => Precedes(u, s \o t)
  BY <1>1, <1>2 DEF Precedes
<1> QED BY <1>1, <1>2, <1>3, <1>4, <1>5 DEF Below, OfGen, OfSerial

LEMMA LastAlone ==
  ASSUME NEW s \in Strip, s # <<>>
  PROVE  /\ Embed!Front(s) \in Strip /\ <<Embed!Last(s)>> \in Strip
         /\ Ascends(s) => Ascends(Embed!Front(s)) /\ Precedes(Embed!Front(s), <<Embed!Last(s)>>)
         /\ \A u \in Strip : Precedes(u, s) => Precedes(u, Embed!Front(s)) /\ Precedes(u, <<Embed!Last(s)>>)
         /\ \A n : Below(s, n) => Below(Embed!Front(s), n) /\ Below(<<Embed!Last(s)>>, n)
         /\ \A n : OfGen(s, n) => OfGen(Embed!Front(s), n) /\ OfGen(<<Embed!Last(s)>>, n)
         /\ \A n : OfSerial(s, n) => OfSerial(Embed!Front(s), n) /\ OfSerial(<<Embed!Last(s)>>, n)
<1> DEFINE f == Embed!Front(s) l == <<Embed!Last(s)>>
<1>1. Len(s) \in Nat /\ Len(s) # 0 /\ s[Len(s)] \in Embed!Pics BY DEF Strip
<1>2. /\ f \in Strip /\ Len(f) = Len(s) - 1 /\ \A i \in 1..Len(f) : f[i] = s[i]
  <2>1. Len(s) - 1 \in Nat /\ \A i \in 1..(Len(s) - 1) : s[i] \in Embed!Pics BY <1>1 DEF Strip
  <2>2. f = SubSeq(s, 1, Len(s) - 1) BY DEF Embed!Front
  <2>3. /\ f \in Seq(Embed!Pics)
        /\ Len(f) = IF 1 <= Len(s) - 1 THEN Len(s) - 1 - 1 + 1 ELSE 0
        /\ \A i \in 1..(Len(s) - 1 - 1 + 1) : f[i] = s[1 + i - 1]
    BY <2>1, <2>2, SubSeqProperties
  <2> HIDE DEF f
  <2> DEFINE n == Len(s)
  <2>4. n \in Nat /\ n # 0 BY <1>1
  <2>5. Len(f) = IF 1 <= n - 1 THEN n - 1 - 1 + 1 ELSE 0 BY <2>3
  <2>6. \A i \in 1..(n - 1 - 1 + 1) : f[i] = s[1 + i - 1] BY <2>3
  <2> HIDE DEF n
  <2>7. Len(f) = n - 1 BY <2>4, <2>5
  <2>8. \A i \in 1..Len(f) : f[i] = s[i] BY <2>4, <2>6, <2>7
  <2> QED BY <2>3, <2>7, <2>8 DEF Strip, n
<1>3. l \in Strip /\ Len(l) = 1 /\ l[1] = s[Len(s)] BY <1>1 DEF Embed!Last, Strip
<1> HIDE DEF f, l, Strip
<1>4. Ascends(s) => Ascends(f) /\ Precedes(f, l) BY <1>1, <1>2, <1>3 DEF Ascends, Precedes
<1>5. \A u \in Strip : Precedes(u, s) => Precedes(u, f) /\ Precedes(u, l) BY <1>1, <1>2, <1>3 DEF Precedes
<1>6. \A n : Below(s, n) => Below(f, n) /\ Below(l, n) BY <1>1, <1>2, <1>3 DEF Below
<1>7. \A n : OfGen(s, n) => OfGen(f, n) /\ OfGen(l, n) BY <1>1, <1>2, <1>3 DEF OfGen
<1>8. \A n : OfSerial(s, n) => OfSerial(f, n) /\ OfSerial(l, n) BY <1>1, <1>2, <1>3 DEF OfSerial
<1>9. f = Embed!Front(s) /\ l = <<Embed!Last(s)>> BY DEF f, l
<1> QED BY <1>2, <1>3, <1>4, <1>5, <1>6, <1>7, <1>8, <1>9
\* The types and shapes of the state.
UiShaped(u) == DOMAIN u = {"stop", "paused", "seek", "seeks", "freed"} /\ u.seek \in 0..FilmLength
PacketsShaped(q) ==
  /\ DOMAIN q = {"pkts", "serial", "flush", "eof", "abort"}
  /\ q.pkts \in Seq(Embed!Film) /\ q.serial \in Nat
DemuxShaped(d) ==
  /\ DOMAIN d = {"at", "to", "pos", "retries"}
  /\ d.to \in 0..FilmLength /\ d.pos \in 1..(FilmLength + 1)
DecoderShaped(d) ==
  /\ DOMAIN d = {"at", "serial", "since", "to", "goal", "pkt", "inner", "out", "alive"}
  /\ d.serial \in Nat /\ d.inner \in Strip /\ d.out \in Strip
PresenterShaped(p) == DOMAIN p = {"at", "pic"} /\ p.pic \in Embed!Pics \cup {Embed!NoPic}
ShownShaped(s) == DOMAIN s = {"ready", "pic", "position", "gen"} /\ s.gen \in Nat

FilmShaped ==
  /\ UiShaped(ui) /\ PacketsShaped(pq) /\ DemuxShaped(demux) /\ DecoderShaped(dec)
  /\ vq \in Strip /\ PresenterShaped(pres) /\ ShownShaped(shown)
  /\ dec.serial <= pq.serial

\* Whoever has a picture or a packet in its hands.
DecoderTold(d) ==
  /\ d.at \notin {"emit", "push"} => d.out = <<>>
  /\ d.at = "push" => d.out # <<>>
  /\ d.at = "decode" => d.pkt \in Embed!Film
HandsTold == DecoderTold(dec) /\ (pres.at = "idle" => pres.pic = Embed!NoPic)

\* The packets read ahead are those before the demuxer, no more than may be.
Ahead == demux.pos - Len(pq.pkts)
PacketsInOrder == \A i \in 1..Len(pq.pkts) : pq.pkts[i] = Ahead + i - 1
ReadAheadBounded ==
  /\ Len(pq.pkts) <= AheadBytes /\ Embed!Secs <= AheadSecs
  /\ demux.at = "read" => Len(pq.pkts) < AheadBytes /\ Embed!Secs < AheadSecs

\* Every picture on its way is of the place of the last flush.
OfThisSeek ==
  /\ OfGen(vq, shown.gen) /\ OfGen(dec.out, shown.gen) /\ OfGen(dec.inner, shown.gen)
  /\ dec.at # "flush" =>
       OfSerial(vq, dec.serial) /\ OfSerial(dec.out, dec.serial) /\ OfSerial(dec.inner, dec.serial)
  /\ pres.pic.gen <= shown.gen

\* They are in order, from the one the presenter has to those the decoder holds,
\* and before the packet that is being decoded and those still to be.
InHand ==
  IF pres.pic # Embed!NoPic /\ pres.pic.gen = shown.gen THEN <<pres.pic>> ELSE <<>>
Queued ==
  /\ Ascends(vq) /\ Ascends(dec.out) /\ Ascends(dec.inner)
  /\ Precedes(InHand, vq) /\ Precedes(InHand, dec.out) /\ Precedes(InHand, dec.inner)
  /\ Precedes(vq, dec.out) /\ Precedes(vq, dec.inner) /\ Precedes(dec.out, dec.inner)
AllBelow(n) == Below(InHand, n) /\ Below(vq, n) /\ Below(dec.out, n) /\ Below(dec.inner, n)
ThenThePackets ==
  /\ dec.at = "decode" => AllBelow(dec.pkt)
  /\ pq.serial = dec.serial /\ dec.at # "flush" =>
       AllBelow(Ahead) /\ (dec.at = "decode" => dec.pkt < Ahead)

FilmOnItsWay ==
  /\ FilmShaped /\ HandsTold /\ PacketsInOrder /\ ReadAheadBounded
  /\ OfThisSeek /\ Queued /\ ThenThePackets

LEMMA FilmInit == Embed!Init => FilmOnItsWay
<1> SUFFICES ASSUME Embed!Init PROVE FilmOnItsWay OBVIOUS
<1>1. pq.pkts = <<>> /\ vq = <<>> /\ dec.inner = <<>> /\ dec.out = <<>> BY DEF Embed!Init
<1>2. FilmShaped
  <2>1. <<>> \in Strip BY NoPictures
  <2>2. <<>> \in Seq(Embed!Film) OBVIOUS
  <2> QED BY <2>1, <2>2, FilmAssumption DEF Embed!Init, FilmShaped, UiShaped, PacketsShaped, DemuxShaped,
    DecoderShaped, PresenterShaped, ShownShaped
<1>3. HandsTold BY DEF Embed!Init, HandsTold, DecoderTold
<1>4. PacketsInOrder BY <1>1 DEF PacketsInOrder
<1>5. ReadAheadBounded
  <2>1. Embed!ToSet(pq.pkts) \ FilmSound = {} BY <1>1 DEF Embed!ToSet
  <2>2. Embed!Secs = Cardinality(Embed!ToSet(pq.pkts) \ FilmSound)
    BY DEF Embed!Secs, Embed!Cardinality, Cardinality
  <2>3. Embed!Secs = 0 BY <2>1, <2>2, FS_EmptySet
  <2> QED BY <1>1, <2>3, FilmAssumption DEF ReadAheadBounded, Embed!Init
<1>6. InHand = <<>> BY DEF Embed!Init, InHand
<1>7. OfThisSeek BY <1>1, NoPictures DEF OfThisSeek, Embed!Init, Embed!NoPic
<1>8. Queued BY <1>1, <1>6, NoPictures DEF Queued
<1>9. ThenThePackets
  <2>1. \A n : AllBelow(n) BY <1>1, <1>6, NoPictures DEF AllBelow
  <2>2. dec.at # "decode" BY DEF Embed!Init
  <2> QED BY <2>1, <2>2 DEF ThenThePackets
<1> QED BY <1>2, <1>3, <1>4, <1>5, <1>7, <1>8, <1>9 DEF FilmOnItsWay

\* Shapes and hands are kept by every step.

LEMMA FilmKeepsShape ==
  ASSUME FilmShaped, HandsTold, [Embed!Next]_(Embed!vars) PROVE FilmShaped' /\ HandsTold'
<1>0. <<>> \in Strip /\ <<>> \in Seq(Embed!Film) BY NoPictures
<1> USE DEF FilmShaped, HandsTold
<1>1. CASE Embed!Demux
  <2>1. CASE Embed!DemuxLoop
    <3>1. UiShaped(ui') BY <2>1, FilmAssumption DEF Embed!DemuxLoop, UiShaped
    <3>2. \/ demux' = [demux EXCEPT !.at = "ended"]
          \/ demux' = [demux EXCEPT !.at = "seek", !.to = ui.seek]
          \/ demux' = [demux EXCEPT !.at = "read"]
      BY <2>1 DEF Embed!DemuxLoop
    <3>3. DemuxShaped(demux') BY <3>2 DEF UiShaped, DemuxShaped
    <3> QED BY <2>1, <3>1, <3>3 DEF Embed!DemuxLoop
  <2>2. CASE Embed!DemuxSeeks
    <3>1. PICK key \in 1..demux.to : demux' = [demux EXCEPT !.at = "loop", !.pos = key]
      BY <2>2 DEF Embed!DemuxSeeks
    <3>2. key \in 1..(FilmLength + 1) BY FilmAssumption DEF DemuxShaped
    <3>3. DemuxShaped(demux') BY <3>1, <3>2 DEF DemuxShaped
    <3>4. PacketsShaped(pq') /\ pq'.serial = pq.serial + 1 /\ pq.serial \in Nat /\ dec.serial \in Nat
      BY <1>0, <2>2 DEF Embed!DemuxSeeks, PacketsShaped, DecoderShaped
    <3> QED BY <2>2, <3>3, <3>4 DEF Embed!DemuxSeeks
  <2>3. CASE Embed!DemuxSeekFails
    <3>1. DemuxShaped(demux') BY <2>3 DEF Embed!DemuxSeekFails, DemuxShaped
    <3> QED BY <2>3, <3>1 DEF Embed!DemuxSeekFails
  <2>4. CASE Embed!DemuxReads
    <3>1. Append(pq.pkts, demux.pos) \in Seq(Embed!Film)
      BY <2>4 DEF Embed!DemuxReads, Embed!Film, PacketsShaped, DemuxShaped
    <3>2. PacketsShaped(pq') /\ pq'.serial = pq.serial BY <2>4, <3>1 DEF Embed!DemuxReads, PacketsShaped
    <3>3. DemuxShaped(demux') BY <2>4, FilmAssumption DEF Embed!DemuxReads, DemuxShaped
    <3> QED BY <2>4, <3>2, <3>3 DEF Embed!DemuxReads
  <2>5. CASE Embed!DemuxEof
    <3>1. DemuxShaped(demux') BY <2>5 DEF Embed!DemuxEof, DemuxShaped
    <3>2. PacketsShaped(pq') /\ pq'.serial = pq.serial BY <2>5 DEF Embed!DemuxEof, PacketsShaped
    <3> QED BY <2>5, <3>1, <3>2 DEF Embed!DemuxEof
  <2>6. CASE Embed!DemuxError
    <3>1. DemuxShaped(demux') BY <2>6 DEF Embed!DemuxError, DemuxShaped
    <3> QED BY <2>6, <3>1 DEF Embed!DemuxError
  <2> QED BY <1>1, <2>1, <2>2, <2>3, <2>4, <2>5, <2>6 DEF Embed!Demux
<1>2. CASE Embed!Decode
  <2>1. CASE Embed!DecodeOpens
    <3>1. DemuxShaped(demux') BY <2>1 DEF Embed!DecodeOpens, DemuxShaped
    <3>2. DecoderShaped(dec') /\ DecoderTold(dec') /\ dec'.serial = dec.serial
      BY <2>1 DEF Embed!DecodeOpens, DecoderShaped, DecoderTold
    <3> QED BY <2>1, <3>1, <3>2 DEF Embed!DecodeOpens
  <2>2. CASE Embed!DecodeLoop
    <3>1. /\ DecoderShaped(dec') /\ DecoderTold(dec')
          /\ dec'.serial = dec.serial \/ dec'.serial = pq.serial
      <4>1. CASE dec' = [dec EXCEPT !.at = "done"]
        BY <2>2, <4>1 DEF Embed!DecodeLoop, DecoderShaped, DecoderTold
      <4>2. CASE dec' = [dec EXCEPT !.at = "flush", !.serial = pq.serial, !.to = pq.flush]
        BY <2>2, <4>2 DEF Embed!DecodeLoop, DecoderShaped, DecoderTold, PacketsShaped
      <4>3. CASE dec' = [dec EXCEPT !.at = "take"]
        BY <2>2, <4>3 DEF Embed!DecodeLoop, DecoderShaped, DecoderTold
      <4> QED BY <2>2, <4>1, <4>2, <4>3 DEF Embed!DecodeLoop
    <3> QED BY <2>2, <3>1 DEF Embed!DecodeLoop, PacketsShaped
  <2>3. CASE Embed!DecodeFlushes
    <3>1. DecoderShaped(dec') /\ DecoderTold(dec') /\ dec'.serial = dec.serial
      BY <1>0, <2>3 DEF Embed!DecodeFlushes, DecoderShaped, DecoderTold
    <3>2. ShownShaped(shown') BY <2>3 DEF Embed!DecodeFlushes, ShownShaped
    <3> QED BY <1>0, <2>3, <3>1, <3>2 DEF Embed!DecodeFlushes
  <2>4. CASE Embed!DecodeHolds
    <3>1. DecoderShaped(dec') /\ DecoderTold(dec') /\ dec'.serial = dec.serial
      BY <2>4 DEF Embed!DecodeHolds, DecoderShaped, DecoderTold
    <3> QED BY <2>4, <3>1 DEF Embed!DecodeHolds
  <2>5. CASE Embed!DecodeTakes
    <3>1. pq.pkts # <<>> => Head(pq.pkts) \in Embed!Film /\ Tail(pq.pkts) \in Seq(Embed!Film)
      BY DEF PacketsShaped
    <3>2. DecoderShaped(dec') /\ DecoderTold(dec') /\ dec'.serial = dec.serial
      BY <2>5, <3>1 DEF Embed!DecodeTakes, DecoderShaped, DecoderTold
    <3>3. PacketsShaped(pq') /\ pq'.serial = pq.serial BY <2>5, <3>1 DEF Embed!DecodeTakes, PacketsShaped
    <3> QED BY <2>5, <3>2, <3>3 DEF Embed!DecodeTakes
  <2>6. CASE Embed!Decodes
    <3>1. DecoderShaped(dec') /\ DecoderTold(dec') /\ dec'.serial = dec.serial
      <4>1. CASE dec' = [dec EXCEPT !.at = "loop", !.pkt = 0]
        BY <2>6, <4>1 DEF Embed!Decodes, DecoderShaped, DecoderTold
      <4>2. CASE dec' # [dec EXCEPT !.at = "loop", !.pkt = 0]
        <5> DEFINE p == [pos |-> dec.pkt, gen |-> shown.gen, serial |-> dec.serial]
                   all == Append(dec.inner, p)
        <5>1. p \in Embed!Pics
          BY <2>6 DEF Embed!Decodes, Embed!Pics, DecoderTold, DecoderShaped, ShownShaped
        <5>2. dec.inner \in Seq(Embed!Pics) BY DEF DecoderShaped, Strip
        <5> HIDE DEF p
        <5>3. all \in Seq(Embed!Pics) /\ all # <<>> BY <5>1, <5>2
        <5> HIDE DEF all
        <5>4. Embed!Front(all) \in Strip /\ <<Embed!Last(all)>> \in Strip /\ all \in Strip
          BY <5>3, LastAlone DEF Strip
        <5>5. \/ dec' = [dec EXCEPT !.at = "emit", !.pkt = 0, !.inner = <<>>, !.out = all]
              \/ dec' = [dec EXCEPT !.at = "emit", !.pkt = 0, !.inner = <<Embed!Last(all)>>, !.out = Embed!Front(all)]
          BY <2>6, <4>2 DEF Embed!Decodes, all, p
        <5> QED BY <1>0, <5>4, <5>5 DEF DecoderShaped, DecoderTold
      <4> QED BY <4>1, <4>2
    <3> QED BY <2>6, <3>1 DEF Embed!Decodes
  <2>7. CASE Embed!Emit
    <3>1. DecoderShaped(dec') /\ DecoderTold(dec') /\ dec'.serial = dec.serial
      BY <2>7 DEF Embed!Emit, DecoderShaped, DecoderTold
    <3>2. ShownShaped(shown') BY <2>7 DEF Embed!Emit, ShownShaped
    <3> QED BY <2>7, <3>1, <3>2 DEF Embed!Emit
  <2>8. CASE Embed!VqPush
    <3>1. Tail(dec.out) \in Strip /\ Head(dec.out) \in Embed!Pics
      BY <2>8, HeadAndTail DEF Embed!VqPush, DecoderShaped, DecoderTold
    <3>2. vq' \in Strip BY <2>8, <3>1 DEF Embed!VqPush, Strip
    <3>3. DecoderShaped(dec') /\ DecoderTold(dec') /\ dec'.serial = dec.serial
      BY <2>8, <3>1 DEF Embed!VqPush, DecoderShaped, DecoderTold
    <3> QED BY <2>8, <3>2, <3>3 DEF Embed!VqPush
  <2>9. CASE Embed!DecodeAborts
    <3>1. DecoderShaped(dec') /\ DecoderTold(dec') /\ dec'.serial = dec.serial
      BY <2>9 DEF Embed!DecodeAborts, DecoderShaped, DecoderTold
    <3>2. PacketsShaped(pq') /\ pq'.serial = pq.serial BY <2>9 DEF Embed!DecodeAborts, PacketsShaped
    <3> QED BY <2>9, <3>1, <3>2 DEF Embed!DecodeAborts
  <2>10. CASE Embed!DecodeEnds
    <3>1. DecoderShaped(dec') /\ DecoderTold(dec') /\ dec'.serial = dec.serial
      BY <1>0, <2>10 DEF Embed!DecodeEnds, DecoderShaped, DecoderTold
    <3>2. PacketsShaped(pq') /\ pq'.serial = pq.serial BY <1>0, <2>10 DEF Embed!DecodeEnds, PacketsShaped
    <3> QED BY <2>10, <3>1, <3>2 DEF Embed!DecodeEnds
  <2> QED BY <1>2, <2>1, <2>2, <2>3, <2>4, <2>5, <2>6, <2>7, <2>8, <2>9, <2>10 DEF Embed!Decode
<1>3. CASE Embed!Present
  <2>1. CASE Embed!PresentTakes
    <3>1. vq # <<>> => Tail(vq) \in Strip /\ Head(vq) \in Embed!Pics BY HeadAndTail
    <3>2. CASE vq # <<>>
      <4>1. pres' = [at |-> "wait", pic |-> Head(vq)] /\ vq' = Tail(vq)
        BY <2>1, <3>2 DEF Embed!PresentTakes
      <4>2. PresenterShaped(pres') /\ pres'.at # "idle" BY <3>1, <3>2, <4>1 DEF PresenterShaped
      <4> QED BY <2>1, <3>1, <3>2, <4>1, <4>2 DEF Embed!PresentTakes
    <3>3. CASE vq = <<>>
      <4>1. pres' = [pres EXCEPT !.at = "ended"] /\ vq' = vq BY <2>1, <3>3 DEF Embed!PresentTakes
      <4>2. PresenterShaped(pres') /\ pres'.at # "idle" BY <4>1 DEF PresenterShaped
      <4> QED BY <2>1, <4>1, <4>2 DEF Embed!PresentTakes
    <3> QED BY <3>2, <3>3
  <2>2. CASE \/ Embed!PresentDue \/ Embed!PresentLate \/ Embed!PresentStops
    <3>1. PresenterShaped(pres') /\ (pres'.at = "idle" => pres'.pic = Embed!NoPic)
      BY <2>2 DEF Embed!PresentDue, Embed!PresentLate, Embed!PresentStops, PresenterShaped
    <3> QED BY <2>2, <3>1 DEF Embed!PresentDue, Embed!PresentLate, Embed!PresentStops
  <2>3. CASE Embed!PresentPublishes
    <3>1. PresenterShaped(pres') /\ (pres'.at = "idle" => pres'.pic = Embed!NoPic)
      BY <2>3 DEF Embed!PresentPublishes, PresenterShaped
    <3>2. ShownShaped(shown') BY <2>3 DEF Embed!PresentPublishes, ShownShaped
    <3> QED BY <2>3, <3>1, <3>2 DEF Embed!PresentPublishes
  <2> QED BY <1>3, <2>1, <2>2, <2>3 DEF Embed!Present
<1>4. ASSUME NEW to \in Embed!Film, Embed!Seek(to) PROVE FilmShaped' /\ HandsTold'
  <2>1. UiShaped(ui') BY <1>4 DEF Embed!Seek, Embed!Film, UiShaped
  <2> QED BY <1>4, <2>1 DEF Embed!Seek
<1>5. ASSUME NEW on \in BOOLEAN, Embed!Pause(on) PROVE FilmShaped' /\ HandsTold'
  <2>1. UiShaped(ui') BY <1>5 DEF Embed!Pause, UiShaped
  <2> QED BY <1>5, <2>1 DEF Embed!Pause
<1>6. CASE Embed!PullRgba
  <2>1. ShownShaped(shown') BY <1>6 DEF Embed!PullRgba, ShownShaped
  <2> QED BY <1>6, <2>1 DEF Embed!PullRgba
<1>7. CASE Embed!Close \/ Embed!Freed
  <2>1. UiShaped(ui') BY <1>7 DEF Embed!Close, Embed!Freed, UiShaped
  <2> QED BY <1>7, <2>1 DEF Embed!Close, Embed!Freed
<1>8. CASE UNCHANGED Embed!vars BY <1>8 DEF Embed!vars
<1> QED BY <1>1, <1>2, <1>3, <1>4, <1>5, <1>6, <1>7, <1>8 DEF Embed!Next

\* The pictures in the packets read ahead.
SecsOf(p) == Cardinality(Embed!ToSet(p) \ FilmSound)

LEMMA SecsMove ==
  ASSUME NEW p \in Seq(Embed!Film)
  PROVE  /\ SecsOf(p) \in Nat
         /\ \A n \in Embed!Film : SecsOf(Append(p, n)) <= SecsOf(p) + 1
         /\ p # <<>> => SecsOf(Tail(p)) <= SecsOf(p)
<1> DEFINE S(q) == Embed!ToSet(q) \ FilmSound
<1>1. IsFiniteSet(Embed!Film) BY FilmAssumption, FS_Interval DEF Embed!Film
<1>2. \A q \in Seq(Embed!Film) : IsFiniteSet(S(q)) /\ Cardinality(S(q)) \in Nat
  <2>1. \A q \in Seq(Embed!Film) : S(q) \subseteq Embed!Film BY DEF Embed!ToSet
  <2> QED BY <1>1, <2>1, FS_Subset, FS_CardinalityType
<1>3. ASSUME NEW n \in Embed!Film PROVE SecsOf(Append(p, n)) <= SecsOf(p) + 1
  <2>1. Append(p, n) \in Seq(Embed!Film) OBVIOUS
  <2>2. Embed!ToSet(Append(p, n)) \subseteq Embed!ToSet(p) \cup {n} BY DEF Embed!ToSet
  <2>3. S(Append(p, n)) \subseteq S(p) \cup {n} BY <2>2
  <2>4. IsFiniteSet(S(p) \cup {n}) /\ Cardinality(S(p) \cup {n}) <= Cardinality(S(p)) + 1
    <3>1. IsFiniteSet(S(p)) /\ Cardinality(S(p)) \in Nat BY <1>2
    <3> HIDE DEF S
    <3>2. /\ IsFiniteSet(S(p) \cup {n})
          /\ Cardinality(S(p) \cup {n}) = IF n \in S(p) THEN Cardinality(S(p)) ELSE Cardinality(S(p)) + 1
      BY <3>1, FS_AddElement
    <3> QED BY <3>1, <3>2
  <2>5. Cardinality(S(Append(p, n))) <= Cardinality(S(p) \cup {n}) BY <2>3, <2>4, FS_Subset
  <2>6. /\ Cardinality(S(Append(p, n))) \in Nat /\ Cardinality(S(p)) \in Nat
        /\ Cardinality(S(p) \cup {n}) \in Nat
    BY <1>2, <2>1, <2>4, FS_CardinalityType
  <2> QED BY <2>4, <2>5, <2>6 DEF SecsOf
<1>4. ASSUME p # <<>> PROVE SecsOf(Tail(p)) <= SecsOf(p)
  <2>1. /\ Len(p) \in Nat /\ Len(Tail(p)) = Len(p) - 1
        /\ \A i \in 1..Len(Tail(p)) : Tail(p)[i] = p[i + 1]
        /\ Tail(p) \in Seq(Embed!Film)
    BY <1>4
  <2>2. DOMAIN p = 1..Len(p) /\ DOMAIN Tail(p) = 1..Len(Tail(p)) BY <2>1
  <2>3. Embed!ToSet(Tail(p)) \subseteq Embed!ToSet(p) BY <2>1, <2>2 DEF Embed!ToSet
  <2>4. S(Tail(p)) \subseteq S(p) BY <2>3
  <2> QED BY <1>2, <2>4, FS_Subset DEF SecsOf
<1> QED BY <1>2, <1>3, <1>4 DEF SecsOf

LEMMA FilmReadsAhead ==
  ASSUME FilmShaped, PacketsInOrder, ReadAheadBounded, [Embed!Next]_(Embed!vars)
  PROVE  PacketsInOrder' /\ ReadAheadBounded'
<1> DEFINE secs == SecsOf(pq.pkts)
<1>1. Embed!Secs = secs /\ Embed!Secs' = secs' 
  BY DEF Embed!Secs, Embed!Cardinality, Cardinality, SecsOf
<1>2. pq.pkts \in Seq(Embed!Film) /\ Len(pq.pkts) \in Nat /\ demux.pos \in Nat
  BY FilmAssumption DEF FilmShaped, PacketsShaped, DemuxShaped
<1>3. secs \in Nat BY <1>2, SecsMove
<1>4. CASE UNCHANGED <<pq.pkts, demux>>
  BY <1>1, <1>4 DEF PacketsInOrder, ReadAheadBounded, Ahead
<1>5. CASE pq'.pkts = <<>> /\ (demux'.at # "read")
  <2>1. secs' = 0
    <3>1. Embed!ToSet(pq.pkts)' \ FilmSound = {} BY <1>5 DEF Embed!ToSet
    <3> QED BY <3>1, FS_EmptySet DEF SecsOf
  <2> QED BY <1>1, <1>5, <2>1, FilmAssumption DEF PacketsInOrder, ReadAheadBounded
<1>6. CASE Embed!DemuxLoop
  <2>1. pq' = pq /\ demux'.pos = demux.pos /\ (demux'.at = "read" => ~Embed!Full)
    BY <1>6 DEF Embed!DemuxLoop, FilmShaped, DemuxShaped
  <2>2. ~Embed!Full => Len(pq.pkts) < AheadBytes /\ secs < AheadSecs
    BY <1>1, <1>2, <1>3, FilmAssumption DEF Embed!Full
  <2> QED BY <1>1, <2>1, <2>2 DEF PacketsInOrder, ReadAheadBounded, Ahead
<1>7. CASE \/ Embed!DemuxSeekFails \/ Embed!DemuxEof \/ Embed!DemuxError
           \/ (Embed!DecodeOpens /\ demux' # demux)
  <2>1. pq'.pkts = pq.pkts /\ demux'.pos = demux.pos /\ demux'.at # "read"
    <3>1. CASE Embed!DemuxSeekFails \/ Embed!DemuxError
      BY <3>1 DEF Embed!DemuxSeekFails, Embed!DemuxError, FilmShaped, DemuxShaped
    <3>2. CASE Embed!DemuxEof BY <3>2 DEF Embed!DemuxEof, FilmShaped, DemuxShaped, PacketsShaped
    <3>3. CASE Embed!DecodeOpens /\ demux' # demux BY <3>3 DEF Embed!DecodeOpens, FilmShaped, DemuxShaped
    <3> QED BY <1>7, <3>1, <3>2, <3>3
  <2> QED BY <1>1, <2>1 DEF PacketsInOrder, ReadAheadBounded, Ahead
<1>8. CASE Embed!DemuxReads
  <2>1. /\ demux.at = "read" /\ demux.pos \in Embed!Film /\ pq'.pkts = Append(pq.pkts, demux.pos)
        /\ demux'.at = "loop" /\ demux'.pos = demux.pos + 1
    BY <1>8, FilmAssumption DEF Embed!DemuxReads, FilmShaped, DemuxShaped, PacketsShaped, Embed!Film
  <2>2. secs' <= secs + 1 /\ secs' \in Nat
    <3>1. secs' = SecsOf(Append(pq.pkts, demux.pos)) BY <2>1 DEF SecsOf
    <3>2. Append(pq.pkts, demux.pos) \in Seq(Embed!Film) BY <1>2, <2>1
    <3> HIDE DEF secs
    <3> QED BY <1>2, <2>1, <3>1, <3>2, SecsMove DEF secs
  <2>3. Len(pq.pkts)' = Len(pq.pkts) + 1 /\ pq.pkts'[Len(pq.pkts) + 1] = demux.pos
        /\ \A i \in 1..Len(pq.pkts) : pq.pkts'[i] = pq.pkts[i]
    BY <1>2, <2>1
  <2> HIDE DEF secs
  <2>4. PacketsInOrder' BY <1>2, <2>1, <2>3 DEF PacketsInOrder, Ahead
  <2>5. ReadAheadBounded' BY <1>1, <1>2, <1>3, <2>1, <2>2, <2>3, FilmAssumption DEF ReadAheadBounded
  <2> QED BY <2>4, <2>5
<1>9. CASE Embed!DecodeTakes /\ pq' # pq
  <2>1. pq.pkts # <<>> /\ pq'.pkts = Tail(pq.pkts) /\ demux' = demux
    BY <1>9 DEF Embed!DecodeTakes, FilmShaped, PacketsShaped
  <2>2. secs' <= secs /\ secs' \in Nat
    <3>1. secs' = SecsOf(Tail(pq.pkts)) BY <2>1 DEF SecsOf
    <3>2. Tail(pq.pkts) \in Seq(Embed!Film) BY <1>2, <2>1
    <3> HIDE DEF secs
    <3> QED BY <1>2, <2>1, <3>1, <3>2, SecsMove DEF secs
  <2>3. Len(pq.pkts)' = Len(pq.pkts) - 1 /\ \A i \in 1..Len(pq.pkts') : pq.pkts'[i] = pq.pkts[i + 1]
    BY <1>2, <2>1
  <2> HIDE DEF secs
  <2>4. PacketsInOrder' BY <1>2, <2>1, <2>3 DEF PacketsInOrder, Ahead
  <2>5. ReadAheadBounded' BY <1>1, <1>2, <1>3, <2>1, <2>2, <2>3, FilmAssumption DEF ReadAheadBounded
  <2> QED BY <2>4, <2>5
<1>10. CASE Embed!DemuxSeeks
  <2>1. pq'.pkts = <<>> /\ demux'.at # "read"
    BY <1>10 DEF Embed!DemuxSeeks, FilmShaped, DemuxShaped, PacketsShaped
  <2> QED BY <1>5, <2>1
<1>11. CASE Embed!DecodeEnds
  <2>1. pq'.pkts = <<>> /\ demux'.at # "read"
    BY <1>11 DEF Embed!DecodeEnds, FilmShaped, PacketsShaped
  <2> QED BY <1>5, <2>1
<1>12. CASE Embed!DecodeAborts
  <2>1. UNCHANGED <<pq.pkts, demux>> BY <1>12 DEF Embed!DecodeAborts, FilmShaped, PacketsShaped
  <2> QED BY <1>4, <2>1
<1>13. CASE UNCHANGED <<pq, demux>> BY <1>4, <1>13
<1>14. \/ UNCHANGED <<pq, demux>> \/ Embed!Demux \/ (Embed!DecodeOpens /\ demux' # demux)
       \/ (Embed!DecodeTakes /\ pq' # pq) \/ Embed!DecodeAborts \/ Embed!DecodeEnds
  <2>1. CASE Embed!Decode
    BY <2>1 DEF Embed!Decode, Embed!DecodeOpens, Embed!DecodeLoop, Embed!DecodeFlushes, Embed!DecodeHolds,
      Embed!DecodeTakes, Embed!Decodes, Embed!Emit, Embed!VqPush
  <2>2. CASE Embed!Present
    BY <2>2 DEF Embed!Present, Embed!PresentTakes, Embed!PresentDue, Embed!PresentLate,
      Embed!PresentStops, Embed!PresentPublishes
  <2>3. CASE UNCHANGED Embed!vars BY <2>3 DEF Embed!vars
  <2>4. ASSUME NEW to \in Embed!Film, Embed!Seek(to) PROVE UNCHANGED <<pq, demux>> BY <2>4 DEF Embed!Seek
  <2>5. ASSUME NEW on \in BOOLEAN, Embed!Pause(on) PROVE UNCHANGED <<pq, demux>> BY <2>5 DEF Embed!Pause
  <2>6. CASE Embed!PullRgba \/ Embed!Close \/ Embed!Freed
    BY <2>6 DEF Embed!PullRgba, Embed!Close, Embed!Freed
  <2> QED BY <2>1, <2>2, <2>3, <2>4, <2>5, <2>6 DEF Embed!Next
<1>15. CASE Embed!Demux BY <1>6, <1>7, <1>8, <1>10, <1>15, Zenon DEF Embed!Demux
<1> HIDE DEF PacketsInOrder, ReadAheadBounded
<1> QED BY <1>7, <1>9, <1>11, <1>12, <1>13, <1>14, <1>15, Zenon

\* What a step does to the pictures on their way: nothing, or that
\* the decoder forgets them, makes some of a packet, passes one on, ends;
\* that the presenter takes one, or is rid of it.
Took ==
  /\ dec.at \in {"take", "hold"} /\ pq.serial = dec.serial /\ pq.pkts # <<>>
  /\ dec'.pkt = Head(pq.pkts) /\ pq'.pkts = Tail(pq.pkts) /\ UNCHANGED demux
FilmStill ==
  /\ UNCHANGED <<vq, dec.out, dec.inner, pres.pic, shown.gen>>
  /\ dec'.at # "flush" => dec.at # "flush" /\ dec'.serial = dec.serial
  /\ dec'.at = "decode" => (dec.at = "decode" /\ dec'.pkt = dec.pkt) \/ Took
FilmCleared ==
  /\ vq' = <<>> /\ dec'.inner = <<>> /\ dec'.out = <<>> /\ dec'.at = "loop"
  /\ shown'.gen = shown.gen + 1 /\ UNCHANGED pres
FilmDecoded ==
  /\ dec.at = "decode" /\ dec'.at = "emit" /\ dec'.serial = dec.serial
  /\ UNCHANGED <<pq, demux, vq, pres, shown>>
  /\ LET all == Append(dec.inner, [pos |-> dec.pkt, gen |-> shown.gen, serial |-> dec.serial])
     IN \/ dec'.inner = <<>> /\ dec'.out = all
        \/ dec'.inner = <<Embed!Last(all)>> /\ dec'.out = Embed!Front(all)
FilmPushed ==
  /\ dec.at = "push" /\ dec'.at = "emit" /\ dec'.serial = dec.serial
  /\ dec'.inner = dec.inner /\ dec'.out = Tail(dec.out)
  /\ vq' \in {vq, Append(vq, Head(dec.out))}
  /\ UNCHANGED <<pq, demux, pres, shown>>
FilmEnded ==
  /\ dec.at = "join" /\ dec'.at = "ended" /\ dec'.serial = dec.serial
  /\ dec'.inner = <<>> /\ dec'.out = dec.out
  /\ UNCHANGED <<vq, pres, shown>>
FilmTaken ==
  /\ vq # <<>> /\ vq' = Tail(vq) /\ pres.pic = Embed!NoPic /\ pres'.pic = Head(vq)
  /\ UNCHANGED <<pq, demux, dec, shown>>
FilmGone ==
  /\ pres'.pic = Embed!NoPic /\ shown'.gen = shown.gen
  /\ UNCHANGED <<pq, demux, dec, vq>>

FilmMove ==
  \/ FilmStill \/ FilmCleared \/ FilmDecoded \/ FilmPushed \/ FilmEnded \/ FilmTaken \/ FilmGone

LEMMA FilmMoves ==
  ASSUME FilmShaped, HandsTold, [Embed!Next]_(Embed!vars) PROVE FilmMove
<1> USE DEF FilmShaped, HandsTold
<1>1. CASE Embed!Demux \/ UNCHANGED Embed!vars
  <2>1. UNCHANGED <<dec, vq, pres, shown>>
    BY <1>1 DEF Embed!Demux, Embed!DemuxLoop, Embed!DemuxSeeks, Embed!DemuxSeekFails, Embed!DemuxReads,
      Embed!DemuxEof, Embed!DemuxError, Embed!vars
  <2> QED BY <2>1 DEF FilmMove, FilmStill
<1>2. CASE Embed!Decode
  <2>1. CASE Embed!DecodeOpens BY <2>1 DEF Embed!DecodeOpens, FilmMove, FilmStill, DecoderShaped
  <2>2. CASE Embed!DecodeLoop BY <2>2 DEF Embed!DecodeLoop, FilmMove, FilmStill, DecoderShaped
  <2>3. CASE Embed!DecodeFlushes
    BY <2>3 DEF Embed!DecodeFlushes, FilmMove, FilmCleared, DecoderShaped, DecoderTold, ShownShaped
  <2>4. CASE Embed!DecodeHolds BY <2>4 DEF Embed!DecodeHolds, FilmMove, FilmStill, DecoderShaped
  <2>5. CASE Embed!DecodeTakes
    <3>1. CASE dec'.at = "decode"
      <4>1. Took
        BY <2>5, <3>1 DEF Embed!DecodeTakes, Took, DecoderShaped, PacketsShaped
      <4> QED BY <2>5, <4>1 DEF Embed!DecodeTakes, FilmMove, FilmStill, DecoderShaped
    <3>2. CASE dec'.at # "decode"
      BY <2>5, <3>2 DEF Embed!DecodeTakes, FilmMove, FilmStill, DecoderShaped
    <3> QED BY <3>1, <3>2
  <2>6. CASE Embed!Decodes
    <3>1. CASE dec' = [dec EXCEPT !.at = "loop", !.pkt = 0]
      BY <2>6, <3>1 DEF Embed!Decodes, FilmMove, FilmStill, DecoderShaped
    <3>2. CASE dec' # [dec EXCEPT !.at = "loop", !.pkt = 0]
      <4> DEFINE all == Append(dec.inner, [pos |-> dec.pkt, gen |-> shown.gen, serial |-> dec.serial])
      <4>1. \/ dec' = [dec EXCEPT !.at = "emit", !.pkt = 0, !.inner = <<>>, !.out = all]
            \/ dec' = [dec EXCEPT !.at = "emit", !.pkt = 0, !.inner = <<Embed!Last(all)>>, !.out = Embed!Front(all)]
        BY <2>6, <3>2 DEF Embed!Decodes
      <4>2. dec.at = "decode" /\ UNCHANGED <<pq, demux, vq, pres, shown>> BY <2>6 DEF Embed!Decodes
      <4> HIDE DEF all
      <4>3. /\ dec'.at = "emit" /\ dec'.serial = dec.serial
            /\ \/ dec'.inner = <<>> /\ dec'.out = all
               \/ dec'.inner = <<Embed!Last(all)>> /\ dec'.out = Embed!Front(all)
        BY <4>1 DEF DecoderShaped
      <4>4. FilmDecoded BY <4>2, <4>3 DEF FilmDecoded, all
      <4> QED BY <4>4 DEF FilmMove
    <3> QED BY <3>1, <3>2
  <2>7. CASE Embed!Emit BY <2>7 DEF Embed!Emit, FilmMove, FilmStill, DecoderShaped, ShownShaped
  <2>8. CASE Embed!VqPush BY <2>8 DEF Embed!VqPush, FilmMove, FilmPushed, DecoderShaped
  <2>9. CASE Embed!DecodeAborts BY <2>9 DEF Embed!DecodeAborts, FilmMove, FilmStill, DecoderShaped
  <2>10. CASE Embed!DecodeEnds BY <2>10 DEF Embed!DecodeEnds, FilmMove, FilmEnded, DecoderShaped
  <2> QED BY <1>2, <2>1, <2>2, <2>3, <2>4, <2>5, <2>6, <2>7, <2>8, <2>9, <2>10 DEF Embed!Decode
<1>3. CASE Embed!Present
  <2>1. CASE Embed!PresentTakes
    <3>1. CASE vq # <<>> BY <2>1, <3>1 DEF Embed!PresentTakes, FilmMove, FilmTaken
    <3>2. CASE vq = <<>>
      <4>1. pres' = [pres EXCEPT !.at = "ended"] /\ UNCHANGED <<vq, dec, shown>>
        BY <2>1, <3>2 DEF Embed!PresentTakes
      <4> QED BY <4>1 DEF FilmMove, FilmStill, PresenterShaped
    <3> QED BY <3>1, <3>2
  <2>2. CASE Embed!PresentDue BY <2>2 DEF Embed!PresentDue, FilmMove, FilmStill, PresenterShaped
  <2>3. CASE Embed!PresentLate \/ Embed!PresentStops \/ Embed!PresentPublishes
    <3>1. pres'.pic = Embed!NoPic
      BY <2>3 DEF Embed!PresentLate, Embed!PresentStops, Embed!PresentPublishes
    <3>2. shown'.gen = shown.gen /\ UNCHANGED <<pq, demux, dec, vq>>
      BY <2>3 DEF Embed!PresentLate, Embed!PresentStops, Embed!PresentPublishes, ShownShaped
    <3> QED BY <3>1, <3>2 DEF FilmMove, FilmGone
  <2> QED BY <1>3, <2>1, <2>2, <2>3 DEF Embed!Present
<1>4. ASSUME NEW to \in Embed!Film, Embed!Seek(to) PROVE FilmMove
  BY <1>4 DEF Embed!Seek, FilmMove, FilmStill
<1>5. ASSUME NEW on \in BOOLEAN, Embed!Pause(on) PROVE FilmMove
  BY <1>5 DEF Embed!Pause, FilmMove, FilmStill
<1>6. CASE Embed!PullRgba \/ Embed!Close \/ Embed!Freed
  BY <1>6 DEF Embed!PullRgba, Embed!Close, Embed!Freed, FilmMove, FilmStill, ShownShaped
<1> QED BY <1>1, <1>2, <1>3, <1>4, <1>5, <1>6 DEF Embed!Next

\* While the decoder follows the queue, the place the packets start at does not go back.
LEMMA AheadMoves ==
  ASSUME FilmShaped, [Embed!Next]_(Embed!vars),
         pq'.serial = dec'.serial, dec'.at # "flush", dec.at # "flush"
  PROVE  pq.serial = dec.serial /\ Ahead \in Int /\ Ahead' \in Int /\ Ahead <= Ahead'
<1> USE DEF FilmShaped
<1>1. Len(pq.pkts) \in Nat /\ demux.pos \in Nat /\ pq.serial \in Nat /\ dec.serial \in Nat
  BY FilmAssumption DEF PacketsShaped, DemuxShaped, DecoderShaped
<1>2. Ahead \in Int BY <1>1 DEF Ahead
<1>3. CASE Embed!DemuxSeeks
  <2>1. pq'.serial = pq.serial + 1 /\ dec' = dec BY <1>3 DEF Embed!DemuxSeeks, PacketsShaped
  <2>2. dec'.serial = dec.serial BY <2>1
  <2>3. dec.serial = pq.serial + 1 BY <2>1, <2>2
  <2>4. dec.serial <= pq.serial OBVIOUS
  <2>5. FALSE BY <1>1, <2>3, <2>4
  <2> QED BY <2>5
<1>4. CASE Embed!DemuxReads
  <2>1. /\ pq'.pkts = Append(pq.pkts, demux.pos) /\ demux'.pos = demux.pos + 1
        /\ pq'.serial = pq.serial /\ dec' = dec
    BY <1>4 DEF Embed!DemuxReads, PacketsShaped, DemuxShaped
  <2>2. Len(pq.pkts)' = Len(pq.pkts) + 1 BY <1>4, <2>1 DEF PacketsShaped
  <2>3. pq.serial = dec.serial BY <2>1
  <2>4. Ahead' \in Int /\ Ahead <= Ahead' BY <1>1, <2>1, <2>2 DEF Ahead
  <2> QED BY <1>2, <2>3, <2>4
<1>5. CASE Embed!DecodeTakes /\ pq' # pq
  <2>1. /\ pq.pkts # <<>> /\ pq'.pkts = Tail(pq.pkts) /\ demux' = demux
        /\ pq'.serial = pq.serial /\ dec'.serial = dec.serial
    BY <1>5 DEF Embed!DecodeTakes, PacketsShaped, DecoderShaped
  <2>2. Len(pq.pkts)' = Len(pq.pkts) - 1 BY <2>1 DEF PacketsShaped
  <2>3. pq.serial = dec.serial BY <2>1
  <2>4. Ahead' \in Int /\ Ahead <= Ahead' BY <1>1, <2>1, <2>2 DEF Ahead
  <2> QED BY <1>2, <2>3, <2>4
<1>6. CASE Embed!DecodeEnds
  <2>1. pq'.pkts = <<>> /\ demux' = demux /\ pq'.serial = pq.serial /\ dec'.serial = dec.serial
    BY <1>6 DEF Embed!DecodeEnds, PacketsShaped, DecoderShaped
  <2>2. Len(pq.pkts)' = 0 BY <2>1
  <2>3. pq.serial = dec.serial BY <2>1
  <2>4. Ahead' \in Int /\ Ahead <= Ahead' BY <1>1, <2>1, <2>2 DEF Ahead
  <2> QED BY <1>2, <2>3, <2>4
<1>7. CASE /\ pq'.pkts = pq.pkts /\ pq'.serial = pq.serial /\ demux'.pos = demux.pos
           /\ (dec'.serial = dec.serial \/ dec'.at = "flush")
  BY <1>1, <1>2, <1>7 DEF Ahead
<1>8. \/ Embed!DemuxSeeks \/ Embed!DemuxReads \/ (Embed!DecodeTakes /\ pq' # pq) \/ Embed!DecodeEnds
      \/ (/\ pq'.pkts = pq.pkts /\ pq'.serial = pq.serial /\ demux'.pos = demux.pos
          /\ (dec'.serial = dec.serial \/ dec'.at = "flush"))
  <2>1. CASE Embed!Demux
    BY <2>1 DEF Embed!Demux, Embed!DemuxLoop, Embed!DemuxSeekFails, Embed!DemuxEof, Embed!DemuxError,
      DemuxShaped, PacketsShaped
  <2>2. CASE Embed!DecodeOpens \/ Embed!DecodeLoop
    BY <2>2 DEF Embed!DecodeOpens, Embed!DecodeLoop, DemuxShaped, DecoderShaped
  <2>3. CASE Embed!DecodeFlushes BY <2>3 DEF Embed!DecodeFlushes, DecoderShaped
  <2>4. CASE Embed!DecodeHolds \/ (Embed!DecodeTakes /\ pq' = pq) \/ Embed!Emit \/ Embed!VqPush
    BY <2>4 DEF Embed!DecodeHolds, Embed!DecodeTakes, Embed!Emit, Embed!VqPush, DecoderShaped
  <2>5. CASE Embed!Decodes
    <3>1. UNCHANGED <<pq, demux>> /\ dec'.serial = dec.serial BY <2>5 DEF Embed!Decodes, DecoderShaped
    <3> QED BY <3>1
  <2>6. CASE Embed!DecodeAborts BY <2>6 DEF Embed!DecodeAborts, DecoderShaped, PacketsShaped
  <2>7. CASE Embed!Decode BY <2>2, <2>3, <2>4, <2>5, <2>6, <2>7 DEF Embed!Decode
  <2>8. CASE Embed!Present \/ Embed!PullRgba \/ Embed!Close \/ Embed!Freed \/ UNCHANGED Embed!vars
    BY <2>8 DEF Embed!Present, Embed!PresentTakes, Embed!PresentDue, Embed!PresentLate,
      Embed!PresentStops, Embed!PresentPublishes, Embed!PullRgba, Embed!Close, Embed!Freed, Embed!vars
  <2>9. ASSUME NEW to \in Embed!Film, Embed!Seek(to) PROVE UNCHANGED <<pq, demux, dec>>
    BY <2>9 DEF Embed!Seek
  <2>10. ASSUME NEW on \in BOOLEAN, Embed!Pause(on) PROVE UNCHANGED <<pq, demux, dec>>
    BY <2>10 DEF Embed!Pause
  <2> QED BY <2>1, <2>7, <2>8, <2>9, <2>10 DEF Embed!Next
<1> QED BY <1>3, <1>4, <1>5, <1>6, <1>7, <1>8

LEMMA OneBehind ==
  ASSUME NEW s \in Strip, NEW p \in Embed!Pics PROVE Append(s, p) = s \o <<p>>
BY DEF Strip

LEMMA InHandMoves ==
  ASSUME FilmShaped, OfThisSeek, FilmMove
  PROVE  /\ InHand \in Strip /\ InHand' \in Strip
         /\ FilmCleared \/ FilmGone => InHand' = <<>>
         /\ FilmTaken => Head(vq) \in Embed!Pics /\ InHand' = <<Head(vq)>>
         /\ FilmStill \/ FilmDecoded \/ FilmPushed \/ FilmEnded => InHand' = InHand
<1>1. pres.pic \in Embed!Pics \cup {Embed!NoPic} /\ shown.gen \in Nat /\ vq \in Strip
  BY DEF FilmShaped, PresenterShaped, ShownShaped
<1>2. pres.pic.gen \in Nat BY <1>1 DEF Embed!Pics, Embed!NoPic
<1>3. InHand \in Strip
  <2>1. pres.pic # Embed!NoPic => <<pres.pic>> \in Strip BY <1>1, OnePicture
  <2>2. <<>> \in Strip BY NoPictures
  <2> QED BY <2>1, <2>2 DEF InHand
<1>5. FilmGone => InHand' = <<>> BY DEF FilmGone, InHand
<1>6. ASSUME FilmTaken PROVE Head(vq) \in Embed!Pics /\ InHand' = <<Head(vq)>>
  <2>1. Head(vq) \in Embed!Pics /\ Head(vq).gen = shown.gen
    BY <1>1, <1>6, HeadAndTail DEF FilmTaken, OfThisSeek
  <2>2. Head(vq) # Embed!NoPic BY <2>1 DEF Embed!Pics, Embed!NoPic, Embed!Film
  <2> QED BY <1>6, <2>1, <2>2 DEF FilmTaken, InHand
<1>7. FilmStill \/ FilmDecoded \/ FilmPushed \/ FilmEnded => InHand' = InHand
  BY DEF FilmStill, FilmDecoded, FilmPushed, FilmEnded, InHand
<1>8. FilmCleared => InHand' = <<>>
  <2> SUFFICES ASSUME FilmCleared PROVE InHand' = <<>> OBVIOUS
  <2>1. pres'.pic.gen # shown'.gen BY <1>1, <1>2 DEF FilmCleared, OfThisSeek
  <2> QED BY <2>1 DEF InHand
<1>9. InHand' \in Strip
  <2>1. <<>> \in Strip BY NoPictures
  <2>2. FilmTaken => <<Head(vq)>> \in Strip BY <1>6, OnePicture
  <2> QED BY <1>3, <1>5, <1>6, <1>7, <1>8, <2>1, <2>2 DEF FilmMove
<1> QED BY <1>3, <1>5, <1>6, <1>7, <1>8, <1>9

\* What the decoder makes of its packet.
LEMMA PicturesOfAPacket ==
  ASSUME FilmShaped, HandsTold, OfThisSeek, Queued, ThenThePackets, FilmDecoded, InHand \in Strip
  PROVE  /\ dec'.out \in Strip /\ dec'.inner \in Strip
         /\ Ascends(dec'.out) /\ Ascends(dec'.inner) /\ Precedes(dec'.out, dec'.inner)
         /\ Precedes(InHand, dec'.out) /\ Precedes(InHand, dec'.inner)
         /\ Precedes(vq, dec'.out) /\ Precedes(vq, dec'.inner)
         /\ OfGen(dec'.out, shown.gen) /\ OfGen(dec'.inner, shown.gen)
         /\ OfSerial(dec'.out, dec.serial) /\ OfSerial(dec'.inner, dec.serial)
         /\ \A n \in Int : dec.pkt < n /\ Below(dec.inner, n) => Below(dec'.out, n) /\ Below(dec'.inner, n)
<1> DEFINE p == [pos |-> dec.pkt, gen |-> shown.gen, serial |-> dec.serial]
           all == Append(dec.inner, p)
<1>1. dec.inner \in Strip /\ vq \in Strip /\ dec.pkt \in Embed!Film /\ dec.at = "decode"
  BY DEF FilmShaped, DecoderShaped, HandsTold, DecoderTold, FilmDecoded
<1>2. p \in Embed!Pics /\ p.pos = dec.pkt /\ p.gen = shown.gen /\ p.serial = dec.serial
  BY <1>1 DEF FilmShaped, DecoderShaped, ShownShaped, Embed!Pics
<1>3. \/ dec'.inner = <<>> /\ dec'.out = all
      \/ dec'.inner = <<Embed!Last(all)>> /\ dec'.out = Embed!Front(all)
  BY DEF FilmDecoded
<1> HIDE DEF p
<1>4. all = dec.inner \o <<p>> BY <1>1, <1>2, OneBehind
<1>5. all # <<>> BY <1>1, <1>2, AppendProperties DEF Strip
<1> HIDE DEF all
<1>6. /\ <<p>> \in Strip /\ Ascends(<<p>>) /\ OfGen(<<p>>, shown.gen) /\ OfSerial(<<p>>, dec.serial)
      /\ \A n \in Int : dec.pkt < n => Below(<<p>>, n)
      /\ \A t \in Strip : Below(t, dec.pkt) => Precedes(t, <<p>>)
  BY <1>2, OnePicture
<1>7. Precedes(InHand, <<p>>) /\ Precedes(vq, <<p>>) /\ Precedes(dec.inner, <<p>>)
  BY <1>1, <1>6 DEF ThenThePackets, AllBelow
<1>8. /\ Ascends(dec.inner) /\ Precedes(InHand, dec.inner) /\ Precedes(vq, dec.inner)
      /\ OfGen(dec.inner, shown.gen) /\ OfSerial(dec.inner, dec.serial)
  BY <1>1 DEF Queued, OfThisSeek
<1>9. /\ all \in Strip /\ Ascends(all) /\ Precedes(InHand, all) /\ Precedes(vq, all)
      /\ OfGen(all, shown.gen) /\ OfSerial(all, dec.serial)
      /\ \A n \in Int : dec.pkt < n /\ Below(dec.inner, n) => Below(all, n)
  BY <1>1, <1>4, <1>6, <1>7, <1>8, Joined
<1>10. CASE dec'.inner = <<>> /\ dec'.out = all BY <1>9, <1>10, NoPictures
<1>11. CASE dec'.inner = <<Embed!Last(all)>> /\ dec'.out = Embed!Front(all)
  <2> DEFINE f == Embed!Front(all) l == <<Embed!Last(all)>>
  <2>1. /\ f \in Strip /\ l \in Strip
        /\ Ascends(f) /\ Precedes(f, l)
        /\ \A u \in Strip : Precedes(u, all) => Precedes(u, f) /\ Precedes(u, l)
        /\ \A n : Below(all, n) => Below(f, n) /\ Below(l, n)
        /\ OfGen(f, shown.gen) /\ OfGen(l, shown.gen)
        /\ OfSerial(f, dec.serial) /\ OfSerial(l, dec.serial)
    BY <1>5, <1>9, LastAlone
  <2>2. Embed!Last(all) \in Embed!Pics BY <1>5, <1>9 DEF Embed!Last, Strip
  <2>3. Ascends(l) BY <2>2, OnePicture
  <2> HIDE DEF f, l
  <2>4. dec'.inner = l /\ dec'.out = f BY <1>11 DEF f, l
  <2> QED BY <1>1, <1>9, <2>1, <2>3, <2>4
<1> QED BY <1>3, <1>10, <1>11

\* What becomes of the picture that goes to the queue.
LEMMA PictureQueued ==
  ASSUME FilmShaped, HandsTold, OfThisSeek, Queued, FilmPushed, InHand \in Strip
  PROVE  /\ dec'.out \in Strip /\ vq' \in Strip
         /\ Ascends(dec'.out) /\ Ascends(vq') /\ Precedes(vq', dec'.out) /\ Precedes(vq', dec.inner)
         /\ Precedes(dec'.out, dec.inner) /\ Precedes(InHand, dec'.out) /\ Precedes(InHand, vq')
         /\ OfGen(dec'.out, shown.gen) /\ OfGen(vq', shown.gen)
         /\ OfSerial(dec'.out, dec.serial) /\ OfSerial(vq', dec.serial)
         /\ \A n : Below(dec.out, n) /\ Below(vq, n) => Below(dec'.out, n) /\ Below(vq', n)
<1>1. /\ dec.out \in Strip /\ dec.out # <<>> /\ dec.inner \in Strip /\ vq \in Strip /\ dec.at = "push"
      /\ dec'.out = Tail(dec.out) /\ vq' \in {vq, Append(vq, Head(dec.out))}
  BY DEF FilmShaped, DecoderShaped, HandsTold, DecoderTold, FilmPushed
<1> DEFINE h == <<Head(dec.out)>>
<1>2. /\ Head(dec.out) \in Embed!Pics /\ Tail(dec.out) \in Strip
      /\ Ascends(Tail(dec.out)) /\ Precedes(h, Tail(dec.out))
      /\ \A t \in Strip : Precedes(dec.out, t) => Precedes(Tail(dec.out), t) /\ Precedes(h, t)
      /\ \A t \in Strip : Precedes(t, dec.out) => Precedes(t, Tail(dec.out)) /\ Precedes(t, h)
      /\ \A n : Below(dec.out, n) => Below(Tail(dec.out), n) /\ Below(h, n)
      /\ OfGen(Tail(dec.out), shown.gen) /\ OfSerial(Tail(dec.out), dec.serial)
      /\ Head(dec.out).gen = shown.gen /\ Head(dec.out).serial = dec.serial
  BY <1>1, HeadAndTail DEF Queued, OfThisSeek
<1>3. h \in Strip /\ Ascends(h) /\ OfGen(h, shown.gen) /\ OfSerial(h, dec.serial) BY <1>2, OnePicture
<1>4. Append(vq, Head(dec.out)) = vq \o h BY <1>1, <1>2, OneBehind
<1>5. /\ Ascends(vq) /\ Precedes(vq, dec.out) /\ Precedes(vq, dec.inner) /\ Precedes(dec.out, dec.inner)
      /\ Precedes(InHand, vq) /\ Precedes(InHand, dec.out)
      /\ OfGen(vq, shown.gen) /\ OfSerial(vq, dec.serial)
  BY <1>1 DEF Queued, OfThisSeek
<1> HIDE DEF h
<1>6. CASE vq' = vq BY <1>1, <1>2, <1>5, <1>6
<1>7. CASE vq' = vq \o h
  <2>1. /\ vq \o h \in Strip /\ Ascends(vq \o h) /\ OfGen(vq \o h, shown.gen) /\ OfSerial(vq \o h, dec.serial)
        /\ \A n : Below(dec.out, n) /\ Below(vq, n) => Below(vq \o h, n)
    BY <1>1, <1>2, <1>3, <1>5, Joined
  <2>2. /\ Precedes(vq \o h, Tail(dec.out)) /\ Precedes(vq \o h, dec.inner)
        /\ Precedes(InHand, vq \o h)
    BY <1>1, <1>2, <1>3, <1>5, Joined
  <2> QED BY <1>1, <1>2, <1>5, <1>7, <2>1, <2>2
<1> QED BY <1>1, <1>4, <1>6, <1>7

LEMMA FilmStaysOfOneSeek ==
  ASSUME FilmShaped, HandsTold, OfThisSeek, Queued, ThenThePackets, FilmMove
  PROVE  OfThisSeek'
<1>1. InHand \in Strip BY InHandMoves
<1>2. pres.pic \in Embed!Pics \cup {Embed!NoPic} /\ shown.gen \in Nat /\ vq \in Strip
  BY DEF FilmShaped, PresenterShaped, ShownShaped
<1>3. pres.pic.gen \in Nat BY <1>2 DEF Embed!Pics, Embed!NoPic
<1>4. CASE FilmStill BY <1>4 DEF FilmStill, OfThisSeek
<1>5. CASE FilmCleared
  <2>1. pres'.pic.gen <= shown'.gen BY <1>2, <1>3, <1>5 DEF FilmCleared, OfThisSeek
  <2> QED BY <1>5, <2>1, NoPictures DEF FilmCleared, OfThisSeek
<1>6. CASE FilmDecoded
  <2>1. /\ OfGen(dec'.out, shown.gen) /\ OfGen(dec'.inner, shown.gen)
        /\ OfSerial(dec'.out, dec.serial) /\ OfSerial(dec'.inner, dec.serial)
    BY <1>1, <1>6, PicturesOfAPacket
  <2> QED BY <1>6, <2>1 DEF FilmDecoded, OfThisSeek
<1>7. CASE FilmPushed
  <2>1. /\ OfGen(dec'.out, shown.gen) /\ OfGen(vq', shown.gen)
        /\ OfSerial(dec'.out, dec.serial) /\ OfSerial(vq', dec.serial)
    BY <1>1, <1>7, PictureQueued
  <2> QED BY <1>7, <2>1 DEF FilmPushed, OfThisSeek
<1>8. CASE FilmEnded
  <2>1. OfGen(dec'.inner, shown.gen) /\ OfSerial(dec'.inner, dec.serial) BY <1>8, NoPictures DEF FilmEnded
  <2> QED BY <1>8, <2>1 DEF FilmEnded, OfThisSeek
<1>9. CASE FilmTaken
  <2>1. /\ \A n : OfGen(vq, n) => OfGen(vq', n) /\ Head(vq).gen = n
        /\ \A n : OfSerial(vq, n) => OfSerial(vq', n)
    BY <1>2, <1>9, HeadAndTail DEF FilmTaken
  <2> QED BY <1>2, <1>9, <2>1 DEF FilmTaken, OfThisSeek
<1>10. CASE FilmGone BY <1>2, <1>10 DEF FilmGone, OfThisSeek, Embed!NoPic
<1> QED BY <1>4, <1>5, <1>6, <1>7, <1>8, <1>9, <1>10 DEF FilmMove

LEMMA FilmStaysQueued ==
  ASSUME FilmShaped, HandsTold, OfThisSeek, Queued, ThenThePackets, FilmMove
  PROVE  Queued'
<1>1. /\ InHand \in Strip /\ InHand' \in Strip
      /\ FilmCleared \/ FilmGone => InHand' = <<>>
      /\ FilmTaken => Head(vq) \in Embed!Pics /\ InHand' = <<Head(vq)>>
      /\ FilmStill \/ FilmDecoded \/ FilmPushed \/ FilmEnded => InHand' = InHand
  BY InHandMoves
<1>2. vq \in Strip /\ dec.inner \in Strip /\ dec.out \in Strip BY DEF FilmShaped, DecoderShaped
<1>3. CASE FilmStill BY <1>1, <1>3 DEF FilmStill, Queued
<1>4. CASE FilmCleared BY <1>1, <1>4, NoPictures DEF FilmCleared, Queued
<1>5. CASE FilmDecoded
  <2>1. /\ Ascends(dec'.out) /\ Ascends(dec'.inner) /\ Precedes(dec'.out, dec'.inner)
        /\ Precedes(InHand, dec'.out) /\ Precedes(InHand, dec'.inner)
        /\ Precedes(vq, dec'.out) /\ Precedes(vq, dec'.inner)
    BY <1>1, <1>5, PicturesOfAPacket
  <2>2. InHand' = InHand /\ vq' = vq BY <1>1, <1>5 DEF FilmDecoded
  <2> QED BY <2>1, <2>2 DEF Queued
<1>6. CASE FilmPushed
  <2>1. /\ Ascends(dec'.out) /\ Ascends(vq') /\ Precedes(vq', dec'.out) /\ Precedes(vq', dec.inner)
        /\ Precedes(dec'.out, dec.inner) /\ Precedes(InHand, dec'.out) /\ Precedes(InHand, vq')
    BY <1>1, <1>6, PictureQueued
  <2>2. InHand' = InHand /\ dec'.inner = dec.inner BY <1>1, <1>6 DEF FilmPushed
  <2> QED BY <2>1, <2>2 DEF Queued
<1>7. CASE FilmEnded
  <2>1. InHand' = InHand /\ vq' = vq /\ dec'.out = dec.out /\ dec'.inner = <<>> BY <1>1, <1>7 DEF FilmEnded
  <2> QED BY <2>1, NoPictures DEF Queued
<1>8. CASE FilmTaken
  <2>1. InHand' = <<Head(vq)>> /\ vq' = Tail(vq) /\ vq # <<>> /\ dec' = dec BY <1>1, <1>8 DEF FilmTaken
  <2>2. /\ Ascends(vq') /\ Precedes(InHand', vq')
        /\ \A t \in Strip : Precedes(vq, t) => Precedes(vq', t) /\ Precedes(InHand', t)
    BY <1>2, <2>1, HeadAndTail DEF Queued
  <2> QED BY <1>2, <2>1, <2>2 DEF Queued
<1>9. CASE FilmGone
  <2>1. InHand' = <<>> /\ vq' = vq /\ dec' = dec BY <1>1, <1>9 DEF FilmGone
  <2> QED BY <2>1, NoPictures DEF Queued
<1> QED BY <1>3, <1>4, <1>5, <1>6, <1>7, <1>8, <1>9 DEF FilmMove

LEMMA BelowMore ==
  ASSUME NEW s \in Strip, NEW m \in Int, NEW n \in Int, m <= n, Below(s, m) PROVE Below(s, n)
<1> SUFFICES ASSUME NEW i \in 1..Len(s) PROVE s[i].pos < n BY DEF Below
<1>1. s[i] \in Embed!Pics BY DEF Strip
<1>2. s[i].pos \in Int BY <1>1 DEF Embed!Pics, Embed!Film
<1>3. s[i].pos < m BY DEF Below
<1> QED BY <1>2, <1>3

LEMMA PacketsStayAhead ==
  ASSUME FilmShaped, HandsTold, PacketsInOrder, OfThisSeek, Queued, ThenThePackets, FilmMove,
         FilmShaped', [Embed!Next]_(Embed!vars)
  PROVE  ThenThePackets'
<1>1. /\ InHand \in Strip /\ InHand' \in Strip
      /\ FilmCleared \/ FilmGone => InHand' = <<>>
      /\ FilmTaken => Head(vq) \in Embed!Pics /\ InHand' = <<Head(vq)>>
      /\ FilmStill \/ FilmDecoded \/ FilmPushed \/ FilmEnded => InHand' = InHand
  BY InHandMoves
<1>2. /\ vq \in Strip /\ dec.inner \in Strip /\ dec.out \in Strip /\ vq' \in Strip
      /\ dec'.inner \in Strip /\ dec'.out \in Strip
  BY DEF FilmShaped, DecoderShaped
<1> DEFINE Follows == pq.serial = dec.serial /\ dec.at # "flush"
<1>3. ASSUME Follows', dec.at # "flush"
      PROVE  Follows /\ Ahead \in Int /\ Ahead' \in Int /\ Ahead <= Ahead'
  BY <1>3, AheadMoves
<1>4. ASSUME NEW m \in Int, NEW n \in Int, m <= n, AllBelow(m)' PROVE AllBelow(n)'
  <2>1. Below(InHand, n)' BY <1>1, <1>4, BelowMore DEF AllBelow
  <2>2. Below(vq, n)' BY <1>2, <1>4, BelowMore DEF AllBelow
  <2>3. Below(dec.inner, n)' /\ Below(dec.out, n)' BY <1>2, <1>4, BelowMore DEF AllBelow
  <2> QED BY <2>1, <2>2, <2>3 DEF AllBelow
<1>5. CASE FilmStill
  <2>1. \A n : AllBelow(n)' <=> AllBelow(n) BY <1>1, <1>5 DEF FilmStill, AllBelow
  <2>2. ASSUME Follows' PROVE Follows /\ Ahead \in Int /\ Ahead' \in Int /\ Ahead <= Ahead'
    BY <1>3, <1>5, <2>2 DEF FilmStill
  <2>3. ASSUME Follows' PROVE AllBelow(Ahead)'
    <3>1. AllBelow(Ahead) BY <2>2, <2>3 DEF ThenThePackets
    <3>2. PICK m : m = Ahead OBVIOUS
    <3>3. PICK n : n = Ahead' OBVIOUS
    <3>4. m \in Int /\ n \in Int /\ m <= n BY <2>2, <2>3, <3>2, <3>3
    <3>5. AllBelow(m)' BY <2>1, <3>1, <3>2
    <3>6. AllBelow(n)' BY <1>4, <3>4, <3>5
    <3> QED BY <3>3, <3>6 DEF AllBelow
  <2>4. ASSUME dec'.at = "decode", dec.at = "decode", dec'.pkt = dec.pkt
        PROVE  AllBelow(dec.pkt)' /\ (Follows' => dec'.pkt < Ahead')
    <3>1. AllBelow(dec.pkt) BY <2>4 DEF ThenThePackets
    <3>2. Follows' => dec.pkt < Ahead BY <2>2, <2>4 DEF ThenThePackets
    <3>3. dec.pkt \in Int BY <2>4 DEF HandsTold, DecoderTold, Embed!Film
    <3> QED BY <2>1, <2>2, <2>4, <3>1, <3>2, <3>3
  <2>5. ASSUME Took PROVE AllBelow(dec.pkt)' /\ (Follows' => dec'.pkt < Ahead')
    <3>1. Len(pq.pkts) \in Nat /\ Len(pq.pkts) # 0 /\ demux.pos \in Nat /\ Head(pq.pkts) = pq.pkts[1]
          /\ Len(pq'.pkts) = Len(pq.pkts) - 1 /\ demux' = demux
      BY <2>5, FilmAssumption DEF Took, FilmShaped, PacketsShaped, DemuxShaped
    <3>2. dec'.pkt = Ahead BY <2>5, <3>1 DEF Took, PacketsInOrder, Ahead
    <3>3. Ahead' = Ahead + 1 /\ Ahead \in Int BY <3>1 DEF Ahead
    <3>4. AllBelow(Ahead) BY <2>5 DEF Took, ThenThePackets
    <3> QED BY <2>1, <3>2, <3>3, <3>4
  <2> QED BY <1>5, <2>3, <2>4, <2>5 DEF ThenThePackets, FilmStill
<1>6. CASE FilmCleared
  <2>1. \A n : AllBelow(n)' BY <1>1, <1>6, NoPictures DEF FilmCleared, AllBelow
  <2>2. dec'.at # "decode" BY <1>6 DEF FilmCleared
  <2> QED BY <2>1, <2>2 DEF ThenThePackets
<1>7. CASE FilmDecoded
  <2>1. dec.at = "decode" /\ dec'.at = "emit" /\ InHand' = InHand /\ vq' = vq /\ UNCHANGED <<pq, demux>>
    BY <1>1, <1>7 DEF FilmDecoded
  <2>2. Ahead' = Ahead BY <2>1 DEF Ahead
  <2>3. \A n \in Int : dec.pkt < n /\ Below(dec.inner, n) => Below(dec'.out, n) /\ Below(dec'.inner, n)
    BY <1>1, <1>7, PicturesOfAPacket
  <2>4. ASSUME Follows' PROVE AllBelow(Ahead)'
    <3>1. AllBelow(Ahead) /\ dec.pkt < Ahead /\ Ahead \in Int BY <1>3, <2>1, <2>4 DEF ThenThePackets
    <3> QED BY <2>1, <2>2, <2>3, <3>1 DEF AllBelow
  <2> QED BY <2>1, <2>4 DEF ThenThePackets
<1>8. CASE FilmPushed
  <2>1. dec.at = "push" /\ dec'.at = "emit" /\ InHand' = InHand /\ dec'.inner = dec.inner /\ UNCHANGED <<pq, demux>>
    BY <1>1, <1>8 DEF FilmPushed
  <2>2. Ahead' = Ahead BY <2>1 DEF Ahead
  <2>3. \A n : Below(dec.out, n) /\ Below(vq, n) => Below(dec'.out, n) /\ Below(vq', n)
    BY <1>1, <1>8, PictureQueued
  <2>4. ASSUME Follows' PROVE AllBelow(Ahead)'
    <3>1. AllBelow(Ahead) BY <1>3, <2>1, <2>4 DEF ThenThePackets
    <3> QED BY <2>1, <2>2, <2>3, <3>1 DEF AllBelow
  <2> QED BY <2>1, <2>4 DEF ThenThePackets
<1>9. CASE FilmEnded \/ FilmTaken \/ FilmGone
  <2>1. \A n : AllBelow(n) => AllBelow(n)'
    <3>1. CASE FilmEnded BY <1>1, <3>1, NoPictures DEF FilmEnded, AllBelow
    <3>2. CASE FilmTaken
      <4>1. \A n : Below(vq, n) => Below(Tail(vq), n) /\ Below(<<Head(vq)>>, n)
        BY <1>2, <3>2, HeadAndTail DEF FilmTaken
      <4> QED BY <1>1, <3>2, <4>1 DEF FilmTaken, AllBelow
    <3>3. CASE FilmGone BY <1>1, <3>3, NoPictures DEF FilmGone, AllBelow
    <3> QED BY <1>9, <3>1, <3>2, <3>3
  <2>2. /\ dec'.at = "decode" => dec' = dec /\ UNCHANGED <<pq, demux>>
        /\ dec'.at # "flush" => dec.at # "flush"
    BY <1>9 DEF FilmEnded, FilmTaken, FilmGone
  <2>3. ASSUME Follows' PROVE AllBelow(Ahead)'
    <3>1. PICK m : m = Ahead OBVIOUS
    <3>2. PICK n : n = Ahead' OBVIOUS
    <3>3. Follows /\ m \in Int /\ n \in Int /\ m <= n BY <1>3, <2>2, <2>3, <3>1, <3>2
    <3>4. AllBelow(m) BY <3>1, <3>3 DEF ThenThePackets
    <3>5. AllBelow(n)' BY <1>4, <2>1, <3>3, <3>4
    <3> QED BY <3>2, <3>5 DEF AllBelow
  <2>4. ASSUME dec'.at = "decode" PROVE AllBelow(dec.pkt)' /\ (Follows' => dec'.pkt < Ahead')
    <3>1. dec' = dec /\ Ahead' = Ahead /\ (Follows' => Follows) BY <2>2, <2>4 DEF Ahead
    <3> QED BY <2>1, <2>4, <3>1 DEF ThenThePackets
  <2> QED BY <2>3, <2>4 DEF ThenThePackets
<1> QED BY <1>5, <1>6, <1>7, <1>8, <1>9 DEF FilmMove

LEMMA FilmStep == FilmOnItsWay /\ [Embed!Next]_(Embed!vars) => FilmOnItsWay'
<1> SUFFICES ASSUME FilmOnItsWay, [Embed!Next]_(Embed!vars) PROVE FilmOnItsWay' OBVIOUS
<1>1. /\ FilmShaped /\ HandsTold /\ PacketsInOrder /\ ReadAheadBounded
      /\ OfThisSeek /\ Queued /\ ThenThePackets
  BY DEF FilmOnItsWay
<1>2. FilmShaped' /\ HandsTold' BY <1>1, FilmKeepsShape
<1>3. FilmMove BY <1>1, FilmMoves
<1>4. PacketsInOrder' /\ ReadAheadBounded' BY <1>1, FilmReadsAhead
<1>5. OfThisSeek' BY <1>1, <1>3, FilmStaysOfOneSeek
<1>6. Queued' BY <1>1, <1>3, FilmStaysQueued
<1>7. ThenThePackets' BY <1>1, <1>2, <1>3, PacketsStayAhead
<1> QED BY <1>2, <1>4, <1>5, <1>6, <1>7 DEF FilmOnItsWay

\* A seek never mixes two places of the film (pq_serial, play_gen, vq_push).
LEMMA FilmIsOfOneSeek == FilmOnItsWay => Embed!OneSeekAtATime
<1> SUFFICES ASSUME FilmOnItsWay, dec.at # "flush",
                    NEW pic \in Embed!ToSet(vq \o dec.out \o dec.inner)
             PROVE  pic.serial = dec.serial /\ pic.gen = shown.gen
  BY DEF Embed!OneSeekAtATime
<1> DEFINE line == vq \o dec.out \o dec.inner
<1>1. /\ vq \in Strip /\ dec.out \in Strip /\ dec.inner \in Strip
      /\ OfGen(vq, shown.gen) /\ OfGen(dec.out, shown.gen) /\ OfGen(dec.inner, shown.gen)
      /\ OfSerial(vq, dec.serial) /\ OfSerial(dec.out, dec.serial) /\ OfSerial(dec.inner, dec.serial)
  BY DEF FilmOnItsWay, FilmShaped, DecoderShaped, OfThisSeek
<1>2. vq \o dec.out \in Strip /\ OfGen(vq \o dec.out, shown.gen) /\ OfSerial(vq \o dec.out, dec.serial)
  BY <1>1, Joined
<1>3. line \in Strip /\ OfGen(line, shown.gen) /\ OfSerial(line, dec.serial) BY <1>1, <1>2, Joined
<1>4. pic \in Embed!ToSet(line) OBVIOUS
<1> HIDE DEF line
<1>5. DOMAIN line = 1..Len(line) BY <1>3 DEF Strip
<1>6. PICK i \in 1..Len(line) : pic = line[i] BY <1>4, <1>5 DEF Embed!ToSet
<1> QED BY <1>3, <1>6 DEF OfGen, OfSerial

LEMMA FilmIsInOrder == FilmOnItsWay => Embed!InFilmOrder
<1> SUFFICES ASSUME FilmOnItsWay PROVE Embed!InFilmOrder OBVIOUS
<1>1. /\ vq \in Strip /\ dec.out \in Strip /\ dec.inner \in Strip /\ Queued
      /\ pres.pic \in Embed!Pics \cup {Embed!NoPic}
  BY DEF FilmOnItsWay, FilmShaped, DecoderShaped, PresenterShaped
<1>2. InHand \in Strip /\ Ascends(InHand)
  <2>1. CASE pres.pic \in Embed!Pics BY <2>1, OnePicture, NoPictures DEF InHand
  <2>2. CASE pres.pic = Embed!NoPic
    <3>1. InHand = <<>> BY <2>2 DEF InHand
    <3> QED BY <3>1, NoPictures
  <2> QED BY <1>1, <2>1, <2>2
<1> DEFINE a == InHand \o vq
           b == a \o dec.out
           line == b \o dec.inner
<1>3. a \in Strip /\ Ascends(a) /\ Precedes(a, dec.out) /\ Precedes(a, dec.inner)
  BY <1>1, <1>2, Joined DEF Queued
<1> HIDE DEF a
<1>4. b \in Strip /\ Ascends(b) /\ Precedes(b, dec.inner)
  BY <1>1, <1>3, Joined DEF Queued
<1> HIDE DEF b
<1>5. line \in Strip /\ Ascends(line) BY <1>1, <1>4, Joined DEF Queued
<1>6. line = InHand \o vq \o dec.out \o dec.inner BY DEF a, b
<1> HIDE DEF line
<1> QED BY <1>5, <1>6 DEF Ascends, Embed!InFilmOrder, InHand

LEMMA FilmReadSoundly == FilmOnItsWay => Embed!ReadAheadSound
<1> SUFFICES ASSUME FilmOnItsWay PROVE Embed!ReadAheadSound OBVIOUS
<1>1. PacketsInOrder /\ ReadAheadBounded BY DEF FilmOnItsWay
<1> QED BY <1>1 DEF PacketsInOrder, ReadAheadBounded, Ahead, Embed!ReadAheadSound

\* In the embedded player packets and pictures keep the order of the film from the network
\* to the screen, a seek never mixes two places of it, and no more is read ahead than may be:
\* for any film, any cushion, any number of seeks (ffmpeg_embed.c).
THEOREM FilmKeepsItsOrder ==
  Embed!Spec => [](Embed!OneSeekAtATime /\ Embed!InFilmOrder /\ Embed!ReadAheadSound)
<1>1. FilmOnItsWay => Embed!OneSeekAtATime /\ Embed!InFilmOrder /\ Embed!ReadAheadSound
  BY FilmIsOfOneSeek, FilmIsInOrder, FilmReadSoundly
<1> QED BY <1>1, FilmInit, FilmStep, PTL DEF Embed!Spec

\* A picture that is late is dropped only for a newer one (present_thread).
LEMMA OnlyForANewer ==
  ASSUME FilmShaped, [Embed!Next]_(Embed!vars) PROVE Embed!DropsForNewer
<1>1. CASE Embed!Demux
  BY <1>1 DEF Embed!Demux, Embed!DemuxLoop, Embed!DemuxSeeks, Embed!DemuxSeekFails, Embed!DemuxReads,
    Embed!DemuxEof, Embed!DemuxError, Embed!DropsForNewer
<1>2. CASE Embed!Decode
  BY <1>2 DEF Embed!Decode, Embed!DecodeOpens, Embed!DecodeLoop, Embed!DecodeFlushes, Embed!DecodeHolds,
    Embed!DecodeTakes, Embed!Decodes, Embed!Emit, Embed!VqPush, Embed!DecodeAborts, Embed!DecodeEnds,
    Embed!DropsForNewer
<1>3. CASE Embed!Present
  <2>1. CASE Embed!PresentDue
    <3>1. pres'.at = "publish" BY <2>1 DEF Embed!PresentDue, FilmShaped, PresenterShaped
    <3> QED BY <3>1 DEF Embed!DropsForNewer
  <2>2. CASE Embed!PresentTakes \/ Embed!PresentLate \/ Embed!PresentStops \/ Embed!PresentPublishes
    BY <2>2 DEF Embed!PresentTakes, Embed!PresentLate, Embed!PresentStops, Embed!PresentPublishes,
      Embed!DropsForNewer
  <2> QED BY <1>3, <2>1, <2>2 DEF Embed!Present
<1>4. CASE (\E to \in Embed!Film : Embed!Seek(to)) \/ (\E on \in BOOLEAN : Embed!Pause(on))
           \/ Embed!PullRgba \/ Embed!Close \/ Embed!Freed \/ UNCHANGED Embed!vars
  BY <1>4 DEF Embed!Seek, Embed!Pause, Embed!PullRgba, Embed!Close, Embed!Freed, Embed!vars,
    Embed!DropsForNewer
<1> QED BY <1>1, <1>2, <1>3, <1>4 DEF Embed!Next

-----------------------------------------------------------------------------
\* What the run checks of the pictures, of the sound and of late steps

\* What is read ahead, decoded, shown and heard keeps the order of the film, and of
\* one place in it; no frame is written over while it is read, and none is lost:
\* OneSeekAtATime, InFilmOrder and ReadAheadSound of EmbedPlayer, HeardInOrder of
\* AudioQueue, Untorn and NoSlotLost of FramePump.  Pictures have the shape of the stage,
\* and the stage that of the window: RectSettles and FrameFits of PlayerWindow.
FilmInOrder ==
  /\ part = "embed" => /\ Embed!OneSeekAtATime /\ Embed!InFilmOrder
                       /\ Embed!ReadAheadSound
  /\ part = "sound" => Samples!HeardInOrder
  /\ part = "frames" => Frames!Untorn /\ Frames!NoSlotLost
  /\ part = "window" => Window!RectSettles /\ Window!FrameFits

\* No step resumes a hidden player, shows an older picture or closes the window
\* of a newer play: HidesPaused of AudioFocus, ShowsNewer and SparesNewPlay of Stage.
\* None leaves the screen as it is while a newer picture waits: DropsForNewer of
\* EmbedPlayer.
LateStepsHarmless ==
  /\ [][part = "focus" => Focus!HidesPaused]_Focus!vars
  /\ [][part = "stage" => Stage!ShowsNewer /\ Stage!SparesNewPlay]_Stage!vars
  /\ [][part = "embed" => Embed!DropsForNewer]_Embed!vars

\* One of the parts a film is shown by, as a behaviour of MCViewing is of one part.
FilmPart ==
  \/ [](part = "embed") /\ Embed!Spec
  \/ [](part = "sound") /\ Samples!Spec
  \/ [](part = "frames") /\ Frames!Spec
  \/ [](part = "window") /\ Window!Spec

\* Pictures and sound keep the order of the film from the network to the screen and the
\* ear, on a stage of the size of its window.  Left out are a pipe that is full, an engine
\* that changes the size of its pictures under the presenter's hands, windows opened while
\* a mode settles, and windows and monitors that stand upright.
THEOREM FilmStaysInOrder ==
  ASSUME "full" \notin SoundFaults, "resize" \notin FrameFaults, "fast" \notin WindowFaults, AllLie
  PROVE  FilmPart => []FilmInOrder
<1>1. /\ part = "embed" /\ Embed!OneSeekAtATime /\ Embed!InFilmOrder /\ Embed!ReadAheadSound => FilmInOrder
      /\ part = "sound" /\ Samples!HeardInOrder => FilmInOrder
      /\ part = "frames" /\ Frames!Untorn /\ Frames!NoSlotLost => FilmInOrder
      /\ part = "window" /\ Window!RectSettles /\ Window!FrameFits => FilmInOrder
  BY DEF FilmInOrder
<1>2. Samples!Spec => []Samples!HeardInOrder BY SoundKeepsItsOrder
<1>3. Frames!Spec => []Frames!Untorn /\ []Frames!NoSlotLost BY PicturesStayWhole, SlotsComeBack
<1>4. Window!Spec => []Window!RectSettles /\ []Window!FrameFits BY StageSettles, PicturesFitTheStage
<1>5. Embed!Spec => [](Embed!OneSeekAtATime /\ Embed!InFilmOrder /\ Embed!ReadAheadSound)
  BY FilmKeepsItsOrder
<1> QED BY <1>1, <1>2, <1>3, <1>4, <1>5, PTL DEF FilmPart

\* One of the parts that are late.
LatePart ==
  \/ [](part = "focus") /\ Focus!Spec
  \/ [](part = "stage") /\ Stage!Spec
  \/ [](part = "embed") /\ Embed!Spec

\* No late step undoes a newer one, for a user who does not play and hide the window again
\* before a tick has seen it shown.
THEOREM LateStepsSpareWhatIsNewer ==
  ASSUME "quick" \notin FocusFaults PROVE LatePart => LateStepsHarmless
<1>1. Focus!Spec => [][Focus!HidesPaused]_Focus!vars BY HiddenPlayersPause DEF Focus!HiddenIsPaused
<1>2. Stage!Spec => [][Stage!ShowsNewer]_Stage!vars BY PicturesFollow DEF Stage!PicturesInOrder
<1>3. Stage!Spec => [][Stage!SparesNewPlay]_Stage!vars BY ClosesSpareThePlay DEF Stage!CloseSparesPlay
<1>4. Embed!Spec => [][Embed!DropsForNewer]_Embed!vars
  <2>1. FilmOnItsWay => FilmShaped BY DEF FilmOnItsWay
  <2>2. FilmShaped /\ [Embed!Next]_(Embed!vars) => [Embed!DropsForNewer]_(Embed!vars)
    BY OnlyForANewer
  <2> QED BY <2>1, <2>2, FilmInit, FilmStep, PTL DEF Embed!Spec
<1>5. /\ [Focus!HidesPaused]_(Focus!vars) => [part = "focus" => Focus!HidesPaused]_(Focus!vars)
      /\ [Stage!ShowsNewer]_(Stage!vars) /\ [Stage!SparesNewPlay]_(Stage!vars)
         => [part = "stage" => Stage!ShowsNewer /\ Stage!SparesNewPlay]_(Stage!vars)
      /\ [Embed!DropsForNewer]_(Embed!vars) => [part = "embed" => Embed!DropsForNewer]_(Embed!vars)
      /\ part # "focus" => [part = "focus" => Focus!HidesPaused]_(Focus!vars)
      /\ part # "stage" => [part = "stage" => Stage!ShowsNewer /\ Stage!SparesNewPlay]_(Stage!vars)
      /\ part # "embed" => [part = "embed" => Embed!DropsForNewer]_(Embed!vars)
  OBVIOUS
<1>6. /\ part = "focus" => part # "stage" /\ part # "embed"
      /\ part = "stage" => part # "focus" /\ part # "embed"
      /\ part = "embed" => part # "focus" /\ part # "stage"
  OBVIOUS
<1> QED BY <1>1, <1>2, <1>3, <1>4, <1>5, <1>6, PTL DEF LatePart, LateStepsHarmless

\* The engine and the window do what the user is shown: MutedIsSilent, VolumeIsHeard,
\* PausedIsPaused and SettingsMirrored of Player, FlagsHold of PlayerWindow.  One engine
\* is started, it is the one that is named, its picture is seen and it keeps to the
\* proxy: OneEngine, SaysWhatPlays, ThroughTheProxy, FramesAreRead and PictureIsSeen of
\* EngineStart.
EngineAsShown ==
  /\ part = "player" => /\ Player!MutedIsSilent /\ Player!VolumeIsHeard
                        /\ Player!PausedIsPaused /\ Player!SettingsMirrored
  /\ part = "window" => Window!FlagsHold
  /\ part = "start" => /\ Start!OneEngine /\ Start!SaysWhatPlays /\ Start!ThroughTheProxy
                       /\ Start!FramesAreRead /\ Start!PictureIsSeen

\* One of the parts that show what the engine does.
EnginePart ==
  \/ [](part = "player") /\ Player!Spec
  \/ [](part = "window") /\ Window!Spec
  \/ [](part = "start") /\ Start!Spec

\* An engine is started alone, plays where it is seen and does what the session and the
\* controls of the window show.  Left out are orders an engine loses, one that is restarted
\* while it is paused or started while the session mirrors settings of the last one, and a
\* window closed in picture in picture.
THEOREM EngineIsAsShown ==
  ASSUME Obeyed, "closed in pip" \notin WindowFaults PROVE EnginePart => []EngineAsShown
<1>1. /\ /\ part = "player" /\ Player!MutedIsSilent /\ Player!VolumeIsHeard
         /\ Player!PausedIsPaused /\ Player!SettingsMirrored
         => EngineAsShown
      /\ part = "window" /\ Window!FlagsHold => EngineAsShown
      /\ /\ part = "start" /\ Start!OneEngine /\ Start!SaysWhatPlays /\ Start!ThroughTheProxy
         /\ Start!FramesAreRead /\ Start!PictureIsSeen
         => EngineAsShown
  BY DEF EngineAsShown
<1>2. Player!Spec => [](/\ Player!MutedIsSilent /\ Player!VolumeIsHeard
                        /\ Player!PausedIsPaused /\ Player!SettingsMirrored)
  BY EngineDoesAsShown
<1>3. Window!Spec => []Window!FlagsHold BY FlagsTellTheWindow
<1> QED BY <1>1, <1>2, <1>3, WhatStartsIsShown, PTL DEF EnginePart
=============================================================================
