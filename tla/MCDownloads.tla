------------------------------ MODULE MCDownloads ------------------------------
(***************************************************************************)
(* Small instances of DownloadAccount, PartFile and DownloadLibrary.       *)
(* `case` says which one a behaviour is of: the slots of an account (the   *)
(* instance the configuration describes), a title that changes on its      *)
(* server, segments from two servers, two windows on two names, the        *)
(* library with two folders, with two copies of a name, with links of the  *)
(* same path and with two windows.  In a behaviour of another case the     *)
(* account stays as it begins and the variables of the others at Unused.   *)
(***************************************************************************)
EXTENDS DownloadAccount, TLC

CONSTANTS w1, w2, f1, f2, t1, t2
VARIABLES
  case,
  file, sidecar, server, run,
  files, parts, disk, temp, saved, win, told

Unused == "unused"
partVars == <<file, sidecar, server, run>>
libraryVars == <<files, parts, disk, temp, saved, win, told>>

\* The account: two fetchers of one title, and a second title that tries once.
TwoFetchers == {f1, f2}
TwoTitles == {t1, t2}
OneStream == {1}
OfFirst == [f \in Fetchers |-> t1]
FirstWaits == {t1}

Resumed == INSTANCE PartFile WITH
  Windows <- {w1}, NNames <- 1, NServers <- 1, NVersions <- 3, SplitMin <- 9,
  SizeOf <- [v \in 1 .. 3 |-> v + 1],
  Faults <- {"kill", "cancel", "drop", "refuse", "gone", "range", "disk", "change", "plain"}

Split == INSTANCE PartFile WITH
  Windows <- {w1}, NNames <- 1, NServers <- 2, NVersions <- 2, SplitMin <- 1,
  SizeOf <- [v \in 1 .. 2 |-> 3],
  Faults <- {"cancel", "drop", "refuse", "gone", "range", "disk", "change", "plain"}

Contended == INSTANCE PartFile WITH
  Windows <- {w1, w2}, NNames <- 2, NServers <- 1, NVersions <- 1, SplitMin <- 9,
  SizeOf <- [v \in 1 .. 1 |-> 2],
  Faults <- {"kill", "cancel", "drop", "disk", "save"}

ASSUME Resumed!ConstantsOK /\ Split!ConstantsOK /\ Contended!ConstantsOK

Film == {[host |-> h, path |-> "p", media |-> TRUE] : h \in {"a", "b"}}
Links == {[host |-> h, path |-> "q", media |-> FALSE] : h \in {"a", "b"}}
Folders == INSTANCE DownloadLibrary WITH
  Windows <- {w1}, Urls <- Film, Dirs <- {"d", "e"}, Home <- "d", Copies <- 1, Old <- TRUE,
  Stem <- <<"p">> :> "p"
TwoCopies == INSTANCE DownloadLibrary WITH
  Windows <- {w1}, Urls <- Film, Dirs <- {"d"}, Home <- "d", Copies <- 2, Old <- TRUE,
  Stem <- <<"p">> :> "p"
SamePath == INSTANCE DownloadLibrary WITH
  Windows <- {w1}, Urls <- Links, Dirs <- {"d"}, Home <- "d", Copies <- 1, Old <- TRUE,
  Stem <- <<"a", "q">> :> "aq" @@ <<"b", "q">> :> "bq"
Beside == INSTANCE DownloadLibrary WITH
  Windows <- {w1, w2}, Urls <- Film, Dirs <- {"d"}, Home <- "d", Copies <- 1, Old <- FALSE,
  Stem <- <<"p">> :> "p"

Symmetry == Permutations({f1, f2})

NoPart == file = Unused /\ sidecar = Unused /\ server = Unused /\ run = Unused
NoLibrary ==
  /\ files = Unused /\ parts = Unused /\ disk = Unused /\ temp = Unused
  /\ saved = Unused /\ win = Unused /\ told = Unused

CasesInit ==
  /\ Init
  /\ \/ case = "account" /\ NoPart /\ NoLibrary
     \/ /\ NoLibrary
        /\ \/ case = "resumed" /\ Resumed!Init
           \/ case = "split" /\ Split!Init
           \/ case = "shared" /\ Contended!Init
     \/ /\ NoPart
        /\ \/ case = "folders" /\ Folders!Init
           \/ case = "copies" /\ TwoCopies!Init
           \/ case = "plain links" /\ SamePath!Init
           \/ case = "beside" /\ Beside!Init

CasesNext ==
  /\ UNCHANGED case
  /\ \/ case = "account" /\ Next /\ UNCHANGED <<partVars, libraryVars>>
     \/ /\ UNCHANGED <<vars, libraryVars>>
        /\ \/ case = "resumed" /\ Resumed!Next
           \/ case = "split" /\ Split!Next
           \/ case = "shared" /\ Contended!Next
     \/ /\ UNCHANGED <<vars, partVars>>
        /\ \/ case = "folders" /\ Folders!Next
           \/ case = "copies" /\ TwoCopies!Next
           \/ case = "plain links" /\ SamePath!Next
           \/ case = "beside" /\ Beside!Next

caseVars == <<vars, case, partVars, libraryVars>>
Cases == CasesInit /\ [][CasesNext]_caseVars

\* A finished file is one version of a title that changes, is whole and its list of
\* holes honest when segments fill it, and has one writer among two windows:
\* FinishedIsOneVersion, FinishedIsWhole, SidecarHonest and OneWriter of PartFile.  It is
\* found again, played for its title alone, and only what can be resumed is offered:
\* FoundAgain, PlaysItsTitle and ResumeOffered of DownloadLibrary.
FilesSound ==
  /\ case = "resumed" => Resumed!FinishedIsOneVersion
  /\ case = "split" => Split!TypeOK /\ Split!FinishedIsWhole /\ Split!SidecarHonest
  /\ case = "shared" => Contended!OneWriter
  /\ case = "folders" => Folders!FoundAgain /\ Folders!ResumeOffered
  /\ case = "copies" => TwoCopies!TypeOK /\ TwoCopies!FoundAgain /\ TwoCopies!ResumeOffered
  /\ case = "plain links" => SamePath!PlaysItsTitle /\ SamePath!FoundAgain
  /\ case = "beside" => Beside!TypeOK /\ Beside!FoundAgain
=============================================================================
