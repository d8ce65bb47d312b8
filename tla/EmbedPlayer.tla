------------------------------ MODULE EmbedPlayer ------------------------------
(***************************************************************************)
(* The player built on libavformat and libavcodec                          *)
(* (src/crates/fluxplay-player/native/ffmpeg_embed.c): a demuxer reads the *)
(* network ahead into a queue of packets, a decoder turns packets into     *)
(* pictures, a presenter shows them on the film clock, and the interface   *)
(* seeks, pauses, pulls pictures and closes.  All share one mutex, `mu`,   *)
(* which nobody keeps while it reads, decodes, scales or sleeps.           *)
(*                                                                         *)
(* A film is the packets 1..Length in order; some are sound.  A picture    *)
(* is the number of its packet.  Time is not modelled: a wait with a timeout  *)
(* may end at any step, a picture is late when the presenter says so.      *)
(***************************************************************************)
EXTENDS Naturals, Sequences, FiniteSets, SequencesExt, FiniteSetsExt

CONSTANTS
  Length,      \* packets of the film
  Sound,       \* the packets that are sound
  Live,        \* whether the stream has no known duration
  LowLatency,  \* opts->low_latency
  MaxSecs,     \* pq_max_secs, one second of film in a picture
  MaxBytes,    \* pq_max_bytes, every packet of one unit
  Goals,       \* cushions a rebuffering may ask for, in seconds
  VqMax,       \* pictures in the present queue before the decoder waits
  MaxRetries,  \* eof_retries a stream without duration is granted
  MaxSeeks     \* bound: seeks of the user

VARIABLES
  ui,        \* stop, paused, seek_req and its target, seeks so far, freed
  pq,        \* the packets read ahead, and what the demuxer says of them
  demux,     \* the demuxer: where it is, its seek, its place in the film
  dec,       \* the decoder: where it is, the serial it follows, its pictures
  vq,        \* pictures waiting for their time
  pres,      \* the presenter: where it is and the picture in its hands
  shown      \* the published frame, the position, play_gen

vars == <<ui, pq, demux, dec, vq, pres, shown>>

Film == 1..Length
Pics == [pos : Film, gen : Nat, serial : Nat]
NoPic == [pos |-> 0, gen |-> 0, serial |-> 0]

Init ==
  /\ ui = [stop |-> FALSE, paused |-> FALSE, seek |-> 0, seeks |-> 0, freed |-> FALSE]
  /\ pq = [pkts |-> <<>>, serial |-> 0, flush |-> 0, eof |-> FALSE, abort |-> FALSE]
  /\ demux = [at |-> "off", to |-> 0, pos |-> 1, retries |-> 0]
  /\ dec = [at |-> "open", serial |-> 0, since |-> FALSE, to |-> 0, goal |-> 0, pkt |-> 0,
            inner |-> <<>>, out |-> <<>>, alive |-> TRUE]
  /\ vq = <<>>
  /\ pres = [at |-> "idle", pic |-> NoPic]
  /\ shown = [ready |-> FALSE, pic |-> NoPic, position |-> 0, gen |-> 0]

Secs == Cardinality(ToSet(pq.pkts) \ Sound)
Full == Len(pq.pkts) >= MaxBytes \/ Secs >= MaxSecs

-----------------------------------------------------------------------------
\* The demuxer.  It alone reads and seeks the stream once playback has begun.
DemuxLoop ==
  /\ demux.at = "loop"
  /\ IF ui.stop \/ pq.abort
     THEN demux' = [demux EXCEPT !.at = "ended"] /\ UNCHANGED ui
     ELSE IF ui.seek # 0
     THEN /\ demux' = [demux EXCEPT !.at = "seek", !.to = ui.seek]
          /\ ui' = [ui EXCEPT !.seek = 0]
     ELSE /\ ~Full /\ ~pq.eof
          /\ demux' = [demux EXCEPT !.at = "read"]
          /\ UNCHANGED ui
  /\ UNCHANGED <<pq, dec, vq, pres, shown>>

\* The seek worked: what was read ahead goes, under a new serial.
DemuxSeeksKeepsQueue ==
  /\ demux.at = "seek"
  /\ \E key \in 1..demux.to : demux' = [demux EXCEPT !.at = "loop", !.pos = key]
  /\ pq' = [pq EXCEPT !.serial = @ + 1, !.flush = demux.to, !.eof = FALSE]
  /\ UNCHANGED <<ui, dec, vq, pres, shown>>

\* It lands on a key picture at or before the target.
DemuxSeeks ==
  /\ demux.at = "seek"
  /\ \E key \in 1..demux.to : demux' = [demux EXCEPT !.at = "loop", !.pos = key]
  /\ pq' = [pq EXCEPT !.pkts = <<>>, !.serial = @ + 1, !.flush = demux.to, !.eof = FALSE]
  /\ UNCHANGED <<ui, dec, vq, pres, shown>>

DemuxSeekFails ==
  /\ demux.at = "seek"
  /\ demux' = [demux EXCEPT !.at = "loop"]
  /\ UNCHANGED <<ui, pq, dec, vq, pres, shown>>

DemuxReads ==
  /\ demux.at = "read" /\ demux.pos <= Length
  /\ pq' = [pq EXCEPT !.pkts = Append(@, demux.pos)]
  /\ demux' = [demux EXCEPT !.at = "loop", !.pos = @ + 1]
  /\ UNCHANGED <<ui, dec, vq, pres, shown>>

\* The end, or what looks like it: a stream without duration is asked again,
\* a limited number of times in all.
DemuxEof ==
  /\ demux.at = "read" /\ (demux.pos > Length \/ Live)
  /\ IF Live /\ ~ui.stop /\ demux.retries < MaxRetries
     THEN demux' = [demux EXCEPT !.at = "loop", !.retries = @ + 1] /\ UNCHANGED pq
     ELSE /\ demux' = [demux EXCEPT !.at = "loop"]
          /\ pq' = [pq EXCEPT !.eof = TRUE]
  /\ UNCHANGED <<ui, dec, vq, pres, shown>>

\* Another error, or an interrupted read: tried again without end.
DemuxError ==
  /\ demux.at = "read"
  /\ demux' = [demux EXCEPT !.at = "loop"]
  /\ UNCHANGED <<ui, pq, dec, vq, pres, shown>>

-----------------------------------------------------------------------------
\* The decoder opens the stream, then starts the demuxer.
DecodeOpens ==
  /\ dec.at = "open"
  /\ \/ /\ dec' = [dec EXCEPT !.at = "done"]
        /\ UNCHANGED demux
     \/ /\ dec' = [dec EXCEPT !.at = "loop"]
        /\ demux' = [demux EXCEPT !.at = "loop"]
  /\ UNCHANGED <<ui, pq, vq, pres, shown>>

\* The top of its loop: stopped, a new serial, paused, or the next packet.
DecodeLoop ==
  /\ dec.at = "loop"
  /\ \/ ui.stop /\ dec' = [dec EXCEPT !.at = "done"]
     \/ /\ ~ui.stop /\ pq.serial # dec.serial
        /\ dec' = [dec EXCEPT !.at = "flush", !.serial = pq.serial, !.to = pq.flush]
     \/ /\ ~ui.stop /\ pq.serial = dec.serial /\ ~ui.paused
        /\ dec' = [dec EXCEPT !.at = "take"]
  /\ UNCHANGED <<ui, pq, demux, vq, pres, shown>>

DecodeFlushesDecoder ==
  /\ dec.at = "flush"
  /\ dec' = [dec EXCEPT !.at = "loop", !.since = FALSE, !.to = 0, !.inner = <<>>]
  /\ shown' = [shown EXCEPT !.position = dec.to, !.ready = FALSE, !.gen = @ + 1]
  /\ UNCHANGED <<ui, pq, demux, vq, pres>>

\* After a seek the decoder forgets what it holds and empties the queue of
\* pictures; the one the presenter holds is out of its reach.
DecodeFlushes ==
  /\ dec.at = "flush"
  /\ dec' = [dec EXCEPT !.at = "loop", !.since = FALSE, !.to = 0, !.inner = <<>>]
  /\ shown' = [shown EXCEPT !.position = dec.to, !.ready = FALSE, !.gen = @ + 1]
  /\ vq' = <<>>
  /\ UNCHANGED <<ui, pq, demux, pres>>

CushionUncapped(goal) == goal
\* At most four fifths of what may be read ahead.
Cushion(goal) == Min({goal, (MaxSecs * 4) \div 5})

\* The queue ran dry mid-film: hold until a cushion is back.
Dry ==
  /\ pq.pkts = <<>> /\ ~pq.eof /\ ~LowLatency /\ dec.since
  /\ pq.serial = dec.serial /\ ~ui.stop
DecodeHolds ==
  /\ dec.at = "take" /\ Dry
  /\ \E goal \in Goals : dec' = [dec EXCEPT !.at = "hold", !.goal = Cushion(goal)]
  /\ UNCHANGED <<ui, pq, demux, vq, pres, shown>>
Held ==
  /\ dec.at = "hold"
  /\ ~ui.stop /\ ~pq.eof /\ pq.serial = dec.serial
  /\ Secs < dec.goal /\ Len(pq.pkts) < (MaxBytes * 9) \div 10

\* The next packet, if the queue still is of the serial the decoder follows.
DecodeTakesAny ==
  /\ dec.at \in {"take", "hold"} /\ ~Held /\ ~(dec.at = "take" /\ Dry)
  /\ pq.pkts # <<>>
  /\ dec' = [dec EXCEPT !.at = "decode", !.goal = 0, !.pkt = Head(pq.pkts)]
  /\ pq' = [pq EXCEPT !.pkts = Tail(@)]
  /\ UNCHANGED <<ui, demux, vq, pres, shown>>
DecodeTakes ==
  /\ dec.at \in {"take", "hold"} /\ ~Held /\ ~(dec.at = "take" /\ Dry)
  /\ IF pq.serial = dec.serial /\ pq.pkts # <<>>
     THEN /\ dec' = [dec EXCEPT !.at = "decode", !.goal = 0, !.pkt = Head(pq.pkts)]
          /\ pq' = [pq EXCEPT !.pkts = Tail(@)]
     ELSE /\ pq.eof \/ ui.stop \/ pq.serial # dec.serial
          /\ dec' = [dec EXCEPT !.goal = 0,
                       !.at = IF pq.eof /\ pq.serial = dec.serial THEN "done" ELSE "loop"]
          /\ UNCHANGED pq
  /\ UNCHANGED <<ui, demux, vq, pres, shown>>

\* Sound goes to its own queue; a picture comes out now or with the next one,
\* or not at all.
Decodes ==
  /\ dec.at = "decode"
  /\ \/ dec.pkt \in Sound /\ dec' = [dec EXCEPT !.at = "loop", !.pkt = 0]
     \/ /\ dec.pkt \notin Sound
        /\ LET all == Append(dec.inner, [pos |-> dec.pkt, gen |-> shown.gen, serial |-> dec.serial])
           IN \/ dec' = [dec EXCEPT !.at = "emit", !.pkt = 0, !.inner = <<>>, !.out = all]
              \/ dec' = [dec EXCEPT !.at = "emit", !.pkt = 0, !.inner = <<Last(all)>>, !.out = Front(all)]
              \/ dec' = [dec EXCEPT !.at = "loop", !.pkt = 0]
  /\ UNCHANGED <<ui, pq, demux, vq, pres, shown>>

\* A picture reaches the present queue, which has room or will never have any.
Emit ==
  /\ dec.at = "emit"
  /\ IF dec.out = <<>>
     THEN dec' = [dec EXCEPT !.at = "loop"] /\ UNCHANGED shown
     ELSE /\ dec' = [dec EXCEPT !.at = "push"]
          /\ shown' = [shown EXCEPT !.position = Head(dec.out).pos]
  /\ UNCHANGED <<ui, pq, demux, vq, pres>>

VqPush ==
  /\ dec.at = "push" /\ (ui.stop \/ Len(vq) < VqMax)
  /\ vq' = IF ui.stop THEN vq ELSE Append(vq, Head(dec.out))
  /\ dec' = [dec EXCEPT !.at = "emit", !.out = Tail(@), !.since = TRUE]
  /\ UNCHANGED <<ui, pq, demux, pres, shown>>

\* The end of the decoder stops the demuxer and waits for it.
DecodeAborts ==
  /\ dec.at = "done"
  /\ pq' = [pq EXCEPT !.abort = TRUE]
  /\ dec' = [dec EXCEPT !.at = "join"]
  /\ UNCHANGED <<ui, demux, vq, pres, shown>>
DecodeEnds ==
  /\ dec.at = "join" /\ demux.at \in {"off", "ended"}
  /\ pq' = [pq EXCEPT !.pkts = <<>>]
  /\ dec' = [dec EXCEPT !.at = "ended", !.inner = <<>>, !.alive = FALSE]
  /\ UNCHANGED <<ui, demux, vq, pres, shown>>

-----------------------------------------------------------------------------
\* The presenter takes the head of the queue off it, then sleeps without it.
PresentTakes ==
  /\ pres.at = "idle"
  /\ IF vq # <<>>
     THEN /\ pres' = [at |-> "wait", pic |-> Head(vq)]
          /\ vq' = Tail(vq)
     ELSE /\ ui.stop
          /\ pres' = [pres EXCEPT !.at = "ended"]
          /\ UNCHANGED vq
  /\ UNCHANGED <<ui, pq, demux, dec, shown>>

\* Its time has come, unless the player is paused.
PresentDue ==
  /\ pres.at = "wait" /\ ~ui.stop /\ ~ui.paused
  /\ pres' = [pres EXCEPT !.at = "publish"]
  /\ UNCHANGED <<ui, pq, demux, dec, vq, shown>>

PresentLateAny ==
  /\ pres.at = "wait" /\ ~ui.stop /\ ~ui.paused
  /\ pres' = [at |-> "idle", pic |-> NoPic]
  /\ UNCHANGED <<ui, pq, demux, dec, vq, shown>>
\* A late picture is dropped only for a newer one.
PresentLate ==
  /\ pres.at = "wait" /\ ~ui.stop /\ ~ui.paused
  /\ vq # <<>>
  /\ pres' = [at |-> "idle", pic |-> NoPic]
  /\ UNCHANGED <<ui, pq, demux, dec, vq, shown>>

PresentStops ==
  /\ pres.at \in {"wait", "publish"} /\ ui.stop
  /\ pres' = [at |-> "ended", pic |-> NoPic]
  /\ UNCHANGED <<ui, pq, demux, dec, vq, shown>>

\* It waits a little for the last frame to be pulled, never for long.
PresentPublishes ==
  /\ pres.at = "publish"
  /\ pres' = [at |-> IF ui.stop THEN "ended" ELSE "idle", pic |-> NoPic]
  /\ shown' = [shown EXCEPT !.ready = TRUE, !.pic = pres.pic]
  /\ UNCHANGED <<ui, pq, demux, dec, vq>>

-----------------------------------------------------------------------------
\* The interface.
Seek(to) ==
  /\ ~ui.stop /\ ui.seeks < MaxSeeks
  /\ ui' = [ui EXCEPT !.seek = to, !.seeks = @ + 1]
  /\ UNCHANGED <<pq, demux, dec, vq, pres, shown>>
Pause(on) ==
  /\ ~ui.stop /\ ui.paused # on
  /\ ui' = [ui EXCEPT !.paused = on]
  /\ UNCHANGED <<pq, demux, dec, vq, pres, shown>>
PullRgba ==
  /\ ~ui.stop /\ shown.ready
  /\ shown' = [shown EXCEPT !.ready = FALSE]
  /\ UNCHANGED <<ui, pq, demux, dec, vq, pres>>
Close ==
  /\ ~ui.stop
  /\ ui' = [ui EXCEPT !.stop = TRUE]
  /\ UNCHANGED <<pq, demux, dec, vq, pres, shown>>
\* It joins the presenter, then the decoder.
Freed ==
  /\ ui.stop /\ ~ui.freed
  /\ pres.at = "ended" /\ dec.at = "ended"
  /\ ui' = [ui EXCEPT !.freed = TRUE]
  /\ UNCHANGED <<pq, demux, dec, vq, pres, shown>>

IsAlive == ~ui.stop /\ (dec.alive \/ shown.ready \/ vq # <<>>)

Demux == DemuxLoop \/ DemuxSeeks \/ DemuxSeekFails \/ DemuxReads \/ DemuxEof \/ DemuxError
Decode ==
  \/ DecodeOpens \/ DecodeLoop \/ DecodeFlushes \/ DecodeHolds \/ DecodeTakes
  \/ Decodes \/ Emit \/ VqPush \/ DecodeAborts \/ DecodeEnds
Present == PresentTakes \/ PresentDue \/ PresentLate \/ PresentStops \/ PresentPublishes

Next ==
  \/ Demux \/ Decode \/ Present
  \/ \E to \in Film : Seek(to)
  \/ \E on \in BOOLEAN : Pause(on)
  \/ PullRgba \/ Close \/ Freed

\* The threads run; a read that may fail is not refused for ever.
Fairness ==
  /\ WF_vars(Demux) /\ SF_vars(DemuxReads \/ DemuxEof)
  /\ WF_vars(Decode) /\ WF_vars(Present) /\ WF_vars(Freed)

Spec == Init /\ [][Next]_vars
FairSpec == Spec /\ Fairness
-----------------------------------------------------------------------------
TypeOK ==
  /\ ui \in [stop : BOOLEAN, paused : BOOLEAN, seek : 0..Length, seeks : 0..MaxSeeks, freed : BOOLEAN]
  /\ pq.pkts \in Seq(Film) /\ pq.serial \in 0..MaxSeeks /\ pq.flush \in 0..Length
  /\ pq.eof \in BOOLEAN /\ pq.abort \in BOOLEAN
  /\ demux \in [at : {"off", "loop", "seek", "read", "ended"}, to : 0..Length,
                pos : 1..(Length + 1), retries : 0..MaxRetries]
  /\ dec.at \in {"open", "loop", "flush", "take", "hold", "decode", "emit", "push", "done", "join", "ended"}
  /\ dec.inner \in Seq(Pics) /\ dec.out \in Seq(Pics) /\ vq \in Seq(Pics)
  /\ pres.at \in {"idle", "wait", "publish", "ended"} /\ pres.pic \in Pics \cup {NoPic}
  /\ shown.ready \in BOOLEAN /\ shown.gen \in 0..MaxSeeks

\* What is decoded, queued or about to be queued comes from the packets read
\* since the seek the decoder last flushed for, and is of its generation: a
\* seek never mixes two places of the film (pq_serial, play_gen, vq_push).
OneSeekAtATime ==
  dec.at # "flush" =>
    \A pic \in ToSet(vq \o dec.out \o dec.inner) :
      pic.serial = dec.serial /\ pic.gen = shown.gen

\* Pictures keep the order of the film from the decoder to the screen, except
\* for the one picture a seek finds in the presenter's hands.
InFilmOrder ==
  LET held == IF pres.pic # NoPic /\ pres.pic.gen = shown.gen THEN <<pres.pic>> ELSE <<>>
      line == held \o vq \o dec.out \o dec.inner
  IN \A i, j \in 1..Len(line) : i < j => line[i].pos < line[j].pos

\* The packets read ahead are in order too, end where the demuxer stands, and
\* never exceed what may be read ahead by more than the packet being read.
ReadAheadSound ==
  /\ \A i \in 1..Len(pq.pkts) : pq.pkts[i] = demux.pos - Len(pq.pkts) + i - 1
  /\ Len(pq.pkts) <= MaxBytes /\ Secs <= MaxSecs

\* A late picture is dropped only when a newer one is there to be shown
\* instead: while the decoder is slow the screen still moves (present_thread).
DropsForNewer == pres.at = "wait" /\ pres'.at = "idle" /\ ~ui.stop => vq' # <<>>

\* Closing the player ends every thread, whatever each of them waits for.
Closes == ui.stop ~> ui.freed
\* Holding for a cushion ends: what may be read ahead always makes it up.
HoldEnds == dec.at = "hold" ~> dec.at # "hold"
=============================================================================
