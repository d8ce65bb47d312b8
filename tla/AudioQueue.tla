------------------------------- MODULE AudioQueue -------------------------------
(***************************************************************************)
(* The ring of sound samples between the decoder and the sound player, of  *)
(* src/crates/fluxplay-player/native/ffmpeg_embed.c.  The decoder pushes   *)
(* whole frames and drops one that does not fit; a thread writes pieces of *)
(* the ring to the pipe of the sound player, which never blocks.           *)
(*                                                                         *)
(* A sample is its number.                                                 *)
(***************************************************************************)
EXTENDS Naturals, Sequences, FiniteSetsExt

CONSTANTS
  Cap,         \* FLUX_AUDIO_Q_CAP
  Piece,       \* samples the thread takes at once
  Sizes,       \* sizes of the frames pushed
  MaxSamples,  \* bound: samples decoded, and heard when the pipe is full again
  Faults       \* subset of {"full"}: the pipe may be full

VARIABLES
  ring,     \* AudioQueue: data, r, fill, stop
  made,     \* samples decoded so far
  writer,   \* the thread: where it is and the samples in its hands
  heard     \* what the sound player was given

vars == <<ring, made, writer, heard>>

Places == 0..(Cap - 1)

Init ==
  /\ ring = [data |-> [p \in Places |-> 0], r |-> 0, fill |-> 0, stop |-> FALSE]
  /\ made = 0
  /\ writer = [at |-> "idle", tmp |-> <<>>]
  /\ heard = <<>>

StoreNoWrap(q, s) ==
  [q EXCEPT !.fill = @ + Len(s),
            !.data = [p \in Places |->
               IF p >= q.r + q.fill /\ p < q.r + q.fill + Len(s)
               THEN s[p - q.r - q.fill + 1] ELSE @[p]]]
\* The samples s behind those of the ring, around its end.
Store(q, s) ==
  LET At(p) == (p + Cap - ((q.r + q.fill) % Cap)) % Cap
  IN [q EXCEPT !.fill = @ + Len(s),
               !.data = [p \in Places |-> IF At(p) < Len(s) THEN s[At(p) + 1] ELSE @[p]]]
Fits(q, s) == q.fill + Len(s) <= Cap
Content(q) == [i \in 1..q.fill |-> q.data[(q.r + i - 1) % Cap]]

\* audio_q_push: a frame that does not fit is dropped.
Push(n) ==
  /\ made + n <= MaxSamples
  /\ LET frame == [i \in 1..n |-> made + i]
     IN ring' = IF ring.stop \/ ~Fits(ring, frame) THEN ring ELSE Store(ring, frame)
  /\ made' = made + n
  /\ UNCHANGED <<writer, heard>>

\* audio_q_thread takes up to a piece, or ends once stopped and empty.
Take ==
  /\ writer.at = "idle"
  /\ IF ring.fill > 0
     THEN LET n == Min({ring.fill, Piece})
          IN /\ writer' = [at |-> "write", tmp |-> SubSeq(Content(ring), 1, n)]
             /\ ring' = [ring EXCEPT !.r = (@ + n) % Cap, !.fill = @ - n]
     ELSE /\ ring.stop
          /\ writer' = [writer EXCEPT !.at = "ended"]
          /\ UNCHANGED ring
  /\ UNCHANGED <<made, heard>>

\* audio_sink_write: all of it reached the pipe.
Written ==
  /\ writer.at = "write"
  /\ heard' = heard \o writer.tmp
  /\ writer' = [at |-> "idle", tmp |-> <<>>]
  /\ UNCHANGED <<ring, made>>

\* The pipe took a part and is full: the whole piece is put back, behind what
\* the ring holds by now, if it fits.
PipeFull ==
  /\ "full" \in Faults
  /\ writer.at = "write"
  /\ \E k \in 0..(Len(writer.tmp) - 1) :
       /\ Len(heard) + k <= MaxSamples
       /\ heard' = heard \o SubSeq(writer.tmp, 1, k)
  /\ ring' = IF ring.stop \/ ~Fits(ring, writer.tmp) THEN ring ELSE Store(ring, writer.tmp)
  /\ writer' = [at |-> "idle", tmp |-> <<>>]
  /\ UNCHANGED made

\* The sound player is gone.
SinkBroken ==
  /\ writer.at = "write"
  /\ ring' = [ring EXCEPT !.stop = TRUE]
  /\ writer' = [at |-> "ended", tmp |-> <<>>]
  /\ UNCHANGED <<made, heard>>

\* audio_q_stop, which then waits for the thread.
Stop ==
  /\ ~ring.stop
  /\ ring' = [ring EXCEPT !.stop = TRUE]
  /\ UNCHANGED <<made, writer, heard>>

Next ==
  \/ \E n \in Sizes : Push(n)
  \/ Take \/ Written \/ PipeFull \/ SinkBroken \/ Stop

Spec == Init /\ [][Next]_vars
-----------------------------------------------------------------------------
TypeOK ==
  /\ ring.data \in [Places -> 0..MaxSamples]
  /\ ring.r \in Places /\ ring.fill \in 0..Cap /\ ring.stop \in BOOLEAN
  /\ made \in 0..MaxSamples
  /\ writer.at \in {"idle", "write", "ended"}
  /\ writer.tmp \in Seq(1..MaxSamples) /\ heard \in Seq(1..MaxSamples)

\* Every sample is heard at most once and in the order it was decoded, whole
\* frames apart that the ring had no room for, and so are those still on their
\* way (audio_q_push, audio_q_thread; audio_sink_write: "partial writes
\* resume", and audio_q_thread on putting bytes back).
HeardInOrder ==
  LET line == heard \o writer.tmp \o Content(ring)
  IN \A i, j \in 1..Len(line) : i < j => line[i] < line[j]
=============================================================================
