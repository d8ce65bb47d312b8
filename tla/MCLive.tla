--------------------------------- MODULE MCLive ---------------------------------
(***************************************************************************)
(* What must happen in the end, on small instances side by side: the       *)
(* connections that share a token (the configuration's constants), the     *)
(* queue of downloads, the audio focus, the slots of the pictures, the     *)
(* threads of the embedded player.  A behaviour is one of `part`: the      *)
(* connections stay as they begin in a behaviour of another part, and the  *)
(* variables of the others at Unused, so that each fairness condition      *)
(* below is one condition of each part.                                    *)
(***************************************************************************)
EXTENDS StreamLinks

CONSTANTS c1, c2, u1, u2
VARIABLES
  part,
  downloads, queue, tasks, inbox, parts,
  s, visible, wish,
  c, present, content, pump, held,
  ui, pq, demux, dec, vq, pres, shown

TwoConns == {c1, c2}
Unused == "unused"
queueVars == <<downloads, queue, tasks, inbox, parts>>
focusVars == <<s, visible, wish>>
framesVars == <<c, present, content, pump, held>>
embedVars == <<ui, pq, demux, dec, vq, pres, shown>>
linksVars == <<panel, token, lock, conn, failed>>
allVars == <<part, linksVars, queueVars, focusVars, framesVars, embedVars>>

Queue == INSTANCE DownloadQueue WITH
  Urls <- {u1, u2}, MaxParallel <- 1, NGens <- 2, MaxInbox <- 2, Again <- TRUE
Focus == INSTANCE AudioFocus WITH MaxJobs <- 2, Faults <- {}
Frames == INSTANCE FramePump WITH N <- 3, MaxSets <- 2, MaxFrames <- 4, Faults <- {}
Embed == INSTANCE EmbedPlayer WITH
  Length <- 3, Sound <- {}, Live <- FALSE, LowLatency <- FALSE, MaxSecs <- 2, MaxBytes <- 4,
  Goals <- {3}, VqMax <- 1, MaxRetries <- 1, MaxSeeks <- 0

NoQueue ==
  /\ downloads = Unused /\ queue = Unused /\ tasks = Unused /\ inbox = Unused
  /\ parts = Unused
NoFocus == s = Unused /\ visible = Unused /\ wish = Unused
NoFrames ==
  /\ c = Unused /\ present = Unused /\ content = Unused /\ pump = Unused
  /\ held = Unused
NoEmbed ==
  /\ ui = Unused /\ pq = Unused /\ demux = Unused /\ dec = Unused /\ vq = Unused
  /\ pres = Unused /\ shown = Unused

LiveInit ==
  /\ Init
  /\ \/ part = "links"
        /\ NoQueue /\ NoFocus /\ NoFrames /\ NoEmbed
     \/ part = "queue" /\ Queue!Init
        /\ NoFocus /\ NoFrames /\ NoEmbed
     \/ part = "focus" /\ Focus!Init
        /\ NoQueue /\ NoFrames /\ NoEmbed
     \/ part = "frames" /\ Frames!Init
        /\ NoQueue /\ NoFocus /\ NoEmbed
     \/ part = "embed" /\ Embed!Init
        /\ NoQueue /\ NoFocus /\ NoFrames

OfLinks(A) ==
  part = "links" /\ A /\ UNCHANGED <<part, queueVars, focusVars, framesVars, embedVars>>
OfQueue(A) ==
  part = "queue" /\ A /\ UNCHANGED <<part, linksVars, focusVars, framesVars, embedVars>>
OfFocus(A) ==
  part = "focus" /\ A /\ UNCHANGED <<part, linksVars, queueVars, framesVars, embedVars>>
OfFrames(A) ==
  part = "frames" /\ A /\ UNCHANGED <<part, linksVars, queueVars, focusVars, embedVars>>
OfEmbed(A) ==
  part = "embed" /\ A /\ UNCHANGED <<part, linksVars, queueVars, focusVars, framesVars>>

LiveNext ==
  \/ OfLinks(Next)
  \/ OfQueue(Queue!Next)
  \/ OfFocus(Focus!Next)
  \/ OfFrames(Frames!Next)
  \/ OfEmbed(Embed!Next)

\* The fairness of FairSpec in StreamLinks, DownloadQueue and EmbedPlayer, and of
\* Spec in AudioFocus and FramePump.
LiveSpec ==
  /\ LiveInit /\ [][LiveNext]_allVars
  /\ SF_allVars(OfLinks(Progress(c1)) \/ OfQueue(Queue!TaskEnds(u1, 1)) \/ OfFocus(Focus!Tick(TRUE)))
  /\ SF_allVars(OfLinks(Progress(c2)) \/ OfQueue(Queue!TaskEnds(u1, 2)))
  /\ SF_allVars(OfQueue(Queue!TaskEnds(u2, 1)) \/ OfEmbed(Embed!DemuxReads \/ Embed!DemuxEof))
  /\ SF_allVars(OfQueue(Queue!TaskEnds(u2, 2)))
  /\ WF_allVars(OfQueue(Queue!UiStep) \/ OfFocus(Focus!MainThread) \/ OfFrames(Frames!PresenterCopies))
  /\ WF_allVars(OfFrames(Frames!PresenterPublishes) \/ OfEmbed(Embed!Demux))
  /\ WF_allVars(OfFrames(Frames!Pull) \/ OfEmbed(Embed!Decode))
  /\ WF_allVars(OfFrames(Frames!Forward) \/ OfEmbed(Embed!Present))
  /\ WF_allVars(OfFrames(Frames!Take) \/ OfEmbed(Embed!Freed))
  /\ WF_allVars(OfFrames(Frames!Drop))

\* SendReturns of StreamLinks.
SendEnds ==
  \A x \in Conns : (part = "links" /\ conn[x].pc # "idle")
                   ~> (part = "links" => conn[x].pc \in {"idle", "stream"})
\* QueuedStarts of DownloadQueue.
QueuedStarts ==
  \A u \in {u1, u2} : (part = "queue" /\ downloads[u].st = "queued")
                      ~> (part = "queue" => downloads[u].st # "queued")
\* A player in sight plays what the user wants to hear, and one that is paused
\* gives the focus back: ResumesIfAware and FocusGivenBack of AudioFocus.
FocusSettles ==
  /\ \/ []<><<OfFocus(Focus!Lost)>>_allVars
     \/ <>[](part = "focus" => Focus!Settled) =>
          []<>(part = "focus" => Focus!Heard \/ (s.held /\ ~s.flag))
  /\ \/ []<><<OfFocus(Focus!TogglePip)>>_allVars
     \/ (part = "focus" /\ wish = "pause") ~> (part = "focus" => s.focus # "ours" \/ wish # "pause")
\* SlotComesFree of FramePump.
SlotComesFree ==
  (part = "frames" /\ Frames!Pick(c.busy, c.last) = {})
  ~> (part = "frames" => Frames!Pick(c.busy, c.last) # {})
\* A player that is closed ends, and one that waits for a cushion of film goes
\* on: Closes and HoldEnds of EmbedPlayer.
NeverHangs ==
  /\ (part = "embed" /\ ui.stop) ~> (part = "embed" => ui.freed)
  /\ (part = "embed" /\ dec.at = "hold") ~> (part = "embed" => dec.at # "hold")
=============================================================================
