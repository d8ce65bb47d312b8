----------------------------- MODULE ResumableFile -----------------------------
(***************************************************************************)
(* What a resumable download promises of its file, whoever fills it: bytes *)
(* are written in any order, a list beside the file names the bytes that   *)
(* are still missing, and a byte leaves that list only once it would       *)
(* survive a power cut.  SegmentedFetch implements this with several       *)
(* connections, a coordinator and a sidecar.                               *)
(*                                                                         *)
(* The file may start with a prefix that somebody else wrote; the promise  *)
(* is about the bytes after it.                                            *)
(***************************************************************************)
CONSTANTS
  Bytes,     \* the offsets of the whole file
  Fetched    \* those that are missing at the start

VARIABLES
  listed,    \* bytes the list beside the file says are missing
  written,   \* bytes that are in the file
  durable,   \* bytes that survive a power cut
  phase      \* "open", "emptied" (to start over) or "done"

vars == <<listed, written, durable, phase>>

Init ==
  /\ listed = Fetched
  /\ written = Bytes \ Fetched
  /\ durable = {}
  /\ phase = "open"

\* Some bytes reach the file; a write that was given up may land at any time.
Write ==
  /\ written' \in SUBSET Bytes
  /\ written \subseteq written'
  /\ UNCHANGED <<listed, durable, phase>>

Sync ==
  /\ phase = "open"
  /\ durable' = written
  /\ UNCHANGED <<listed, written, phase>>

\* The list is replaced, and perhaps the file declared whole.
Record ==
  /\ phase = "open"
  /\ listed' \in SUBSET Bytes
  /\ Fetched \ listed' \subseteq durable
  /\ \/ phase' = "open"
     \/ phase' = "done" /\ Fetched \subseteq written
  /\ UNCHANGED <<written, durable>>

\* The file is started over: emptied, and only then is the list made whole.
Empty ==
  /\ phase = "open"
  /\ written' = {}
  /\ durable' = {}
  /\ phase' = "emptied"
  /\ UNCHANGED listed

Relist ==
  /\ phase = "emptied"
  /\ listed' = Bytes
  /\ phase' = "open"
  /\ UNCHANGED <<written, durable>>

\* A crash may lose what was not synced, never the list.
Crash ==
  /\ phase = "open"
  /\ written' \in SUBSET written
  /\ durable \subseteq written'
  /\ UNCHANGED <<listed, durable, phase>>

Next == Write \/ Sync \/ Record \/ Empty \/ Relist \/ Crash

Spec == Init /\ [][Next]_vars
=============================================================================
