------------------------------- MODULE FramePump -------------------------------
(***************************************************************************)
(* The zero-copy path of the pictures, from the decoder to the screen      *)
(* (src/crates/fluxplay-player/native/ffmpeg_embed.c, ffmpeg_pump.rs,      *)
(* video_frame.rs, and src/crates/fluxplay/src/video_stage.rs).            *)
(*                                                                         *)
(* Four parties share the slots of the graphics card.  The presenter       *)
(* copies each picture into a free slot and publishes it; the pump takes   *)
(* what is published, marks its slot busy and keeps the latest; the        *)
(* interface takes the latest and the card reads it; a frame that is       *)
(* dropped anywhere puts its slot in a mask, which the pump forwards.  A   *)
(* picture of another size wants another set of slots, which the pump      *)
(* attaches while the presenter works.                                     *)
(***************************************************************************)
EXTENDS Integers, FiniteSets, FiniteSetsExt

CONSTANTS
  N,          \* GPU_SLOTS
  MaxSets,    \* bound: sizes of the pictures
  MaxFrames,  \* bound: pictures presented
  Faults      \* subset of {"resize"}: slots attached between a copy and its publication

VARIABLES
  c,       \* FluxGpuSlots: set attached, set needed, busy slots, last slot, published frame
  present, \* the presenter: where it is, the picture, its size and slot
  content, \* the picture each slot of each set holds
  pump,    \* FfmpegPump: mask of released slots, latest frame
  held     \* frames of the interface, waiting or read by the card

vars == <<c, present, content, pump, held>>

Slots == 0..(N - 1)
Sets == 1..MaxSets
NoFrame == [set |-> 0, slot |-> -1, n |-> 0]

Init ==
  /\ c = [set |-> 0, need |-> 1, busy |-> {}, last |-> -1, ready |-> NoFrame]
  /\ present = [at |-> "idle", n |-> 0, size |-> 1, slot |-> -1]
  /\ content = [s \in Sets |-> [k \in Slots |-> 0]]
  /\ pump = [mask |-> {}, latest |-> NoFrame]
  /\ held = {}

-----------------------------------------------------------------------------
\* The decoder meets pictures of another size; those queued before it are
\* presented first.
Resize ==
  /\ c.need < MaxSets
  /\ c' = [c EXCEPT !.need = @ + 1]
  /\ UNCHANGED <<present, content, pump, held>>

\* The slot published last may be picked.
PickAnyFree(busy, last) == {k \in 1..N : (last + k + N) % N \notin busy}

\* gpu_pick_slot: neither busy nor published last, nearest first
Pick(busy, last) == {k \in 1..N : (last + k + N) % N \notin busy \cup {last}}

\* The presenter picks a slot for its next picture, or drops it.
PresenterPicks ==
  /\ present.at = "idle" /\ present.n < MaxFrames /\ c.set # 0
  /\ \E size \in present.size..c.need :
       LET free == Pick(c.busy, c.last)
       IN present' = IF free = {} THEN [present EXCEPT !.n = @ + 1, !.size = size]
                     ELSE [at |-> "copy", n |-> present.n + 1, size |-> size,
                           slot |-> (c.last + Min(free) + N) % N]
  /\ UNCHANGED <<c, content, pump, held>>

\* gpu_copy: the slots attached now must be of the picture's size.
PresenterCopies ==
  /\ present.at = "copy"
  /\ IF c.set = present.size
     THEN /\ content' = [content EXCEPT ![c.set][present.slot] = present.n]
          /\ present' = [present EXCEPT !.at = "publish"]
     ELSE present' = [present EXCEPT !.at = "idle"] /\ UNCHANGED content
  /\ UNCHANGED <<c, pump, held>>

\* The frame names its slot in the set attached now.
PresenterPublishes ==
  /\ present.at = "publish"
  /\ c' = [c EXCEPT !.last = present.slot,
                    !.ready = [set |-> c.set, slot |-> present.slot, n |-> present.n]]
  /\ present' = [present EXCEPT !.at = "idle"]
  /\ UNCHANGED <<content, pump, held>>

-----------------------------------------------------------------------------
\* SlotLease: the slot of a dropped frame, if its set is still attached
ReleasedBy(f) == IF f.set = c.set THEN {f.slot} \ {-1} ELSE {}

\* attach_slots, flux_ffmpeg_gpu_attach; the frames of the last set keep it alive.
Attach ==
  /\ c.set # c.need
  /\ present.at # "publish" \/ "resize" \in Faults
  /\ c' = [c EXCEPT !.set = c.need, !.busy = {}, !.last = -1, !.ready = NoFrame]
  /\ pump' = [pump EXCEPT !.mask = {}]
  /\ UNCHANGED <<present, content, held>>

\* The slot stays free while its frame is on its way.
PulledFree(slot) == c' = [c EXCEPT !.ready = NoFrame]

\* flux_ffmpeg_pull_frame: busy until its release comes back
Pulled(slot) == c' = [c EXCEPT !.busy = @ \cup {slot}, !.ready = NoFrame]

\* The pump takes what is published and drops the frame nobody took.
Pull ==
  /\ c.ready # NoFrame
  /\ Pulled(c.ready.slot)
  /\ pump' = [latest |-> c.ready, mask |-> pump.mask \cup ReleasedBy(pump.latest)]
  /\ UNCHANGED <<present, content, held>>

\* The rest of the mask is forgotten after its lowest slot.
ForwardLowest ==
  /\ pump.mask # {}
  /\ c' = [c EXCEPT !.busy = @ \ {Min(pump.mask)}]
  /\ pump' = [pump EXCEPT !.mask = {}]
  /\ UNCHANGED <<present, content, held>>

\* flux_ffmpeg_gpu_release, for each slot of the mask
Forward ==
  /\ pump.mask # {}
  /\ c' = [c EXCEPT !.busy = @ \ pump.mask]
  /\ pump' = [pump EXCEPT !.mask = {}]
  /\ UNCHANGED <<present, content, held>>

-----------------------------------------------------------------------------
\* take_frame, present: the interface holds a frame that waits to be drawn and
\* those the card copies.
Take ==
  /\ pump.latest # NoFrame
  /\ pump' = [pump EXCEPT !.latest = NoFrame]
  /\ held' = held \cup {pump.latest}
  /\ UNCHANGED <<c, present, content>>

\* The release goes to the slots attached now, whichever set the frame is of.
DroppedAnySet(f) == pump' = [pump EXCEPT !.mask = @ \cup {f.slot}]

\* A frame dropped by the interface gives nothing back.
DroppedNowhere(f) == pump' = pump

Dropped(f) == pump' = [pump EXCEPT !.mask = @ \cup ReleasedBy(f)]

\* A frame is replaced before it is drawn, refused, or its copy has run.
Drop ==
  \E f \in held :
    /\ held' = held \ {f}
    /\ Dropped(f)
    /\ UNCHANGED <<c, present, content>>

Next ==
  \/ Resize \/ PresenterPicks \/ PresenterCopies \/ PresenterPublishes
  \/ Attach \/ Pull \/ Forward \/ Take \/ Drop

\* The threads of the presenter and of the pump go on, and the card ends its copies.
Fairness ==
  /\ WF_vars(PresenterCopies) /\ WF_vars(PresenterPublishes)
  /\ WF_vars(Pull) /\ WF_vars(Forward) /\ WF_vars(Take) /\ WF_vars(Drop)

Spec == Init /\ [][Next]_vars /\ Fairness

-----------------------------------------------------------------------------
InUse == (held \cup {pump.latest, c.ready}) \ {NoFrame}

TypeOK ==
  /\ c.set \in 0..c.need /\ c.need \in Sets /\ c.busy \subseteq Slots /\ c.last \in {-1} \cup Slots
  /\ present \in [at : {"idle", "copy", "publish"}, n : 0..MaxFrames, size : Sets, slot : {-1} \cup Slots]
  /\ InUse \subseteq [set : Sets, slot : Slots, n : 1..MaxFrames]
  /\ pump.mask \subseteq c.busy \* only what was taken is given back

\* No picture is written over while anyone may still show it, through every
\* order of the three threads and of the card: "Decode may overwrite the slot
\* once this is dropped" (video_frame.rs:186).
Untorn == \A f \in InUse : content[f.set][f.slot] = f.n

\* A slot is busy only for a frame that somebody has, or that is on its way
\* back: none is lost, however frames are skipped and sets replaced.
NoSlotLost ==
  c.busy \subseteq {f.slot : f \in {g \in held \cup {pump.latest} : g.set = c.set}} \cup pump.mask

\* The path does not stop: the presenter always finds a slot again.
SlotComesFree == Pick(c.busy, c.last) = {} ~> Pick(c.busy, c.last) # {}
=============================================================================
