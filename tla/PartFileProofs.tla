---------------------------- MODULE PartFileProofs ----------------------------
(***************************************************************************)
(* Proofs about PartFile, for any number of windows, names, servers and    *)
(* versions of the content, and any choice of faults.  First that a file   *)
(* has one writer, whatever the windows do; then what one window leaves    *)
(* behind under its final name.                                            *)
(***************************************************************************)
EXTENDS PartFile, SequenceTheorems, TLAPS

Meta == {m \in [total : SUBSET Nat, tag : SUBSET Nat, todo : SUBSET SUBSET Nat] : IsMeta(m)}
Data == {d \in Seq(0 .. NVersions) : d = <<>> \/ \E size \in Sizes : Len(d) <= size}
File == [name : {"none", "part", "final"}, data : Data, holder : Windows \cup {Nobody}]
Record == [pc : Places, n : 0 .. NNames, meta : Meta, idx : Servers, from : SUBSET Servers,
           status : Nat, ver : 0 .. NVersions, got : SUBSET Nat]
\* Where a download has a file.
OnFile == {"open", "sized", "body", "segmented", "restart", "truncated", "finish",
           "renaming", "cleanup"}
Run == {r \in Record :
          /\ r.pc \in {"begin", "body"} => r.ver \in Versions
          /\ r.pc \in OnFile => r.n # 0
          /\ r.pc = "idle" => r.n = 0
          /\ r.pc \in {"sized", "segmented"} => r.meta.todo # None
          /\ r.pc # "segmented" => r.got = {}
          /\ r.n = 0 => r.meta.todo = None}

\* The types, with those of the fields TypeOK leaves open.
TypeInv ==
  /\ file \in [Names -> File]
  /\ sidecar \in [Names -> {None} \cup {{m} : m \in Meta}]
  /\ server \in [Servers -> [ver : Versions, ranges : BOOLEAN]]
  /\ run \in [Windows -> Run]

\* Where a window has the file it works on locked.
Holding == {"request", "begin", "sized", "body", "segmented", "restart", "truncated",
            "retry", "fatal", "finish"}
HoldsItsFile ==
  \A w \in Windows : run[w].pc \in Holding /\ run[w].n # 0 => file[run[w].n].holder = w
NobodyHoldsNothing ==
  \A n \in Names : file[n].name = "none" => file[n].holder = Nobody

LockInv == TypeInv /\ HoldsItsFile /\ NobodyHoldsNothing

-----------------------------------------------------------------------------
\* A file set to a length keeps what it had up to it and has zeros after.
LEMMA SetLenData ==
  ASSUME ConstantsOK, NEW d \in Seq(0 .. NVersions), NEW t \in Nat
  PROVE  /\ SetLen(d, t) \in Seq(0 .. NVersions)
         /\ Len(SetLen(d, t)) = t
         /\ \A i \in 1 .. t : SetLen(d, t)[i] = IF i <= Len(d) THEN d[i] ELSE 0
<1>1. \A i \in 1 .. t : (IF i <= Len(d) THEN d[i] ELSE 0) \in 0 .. NVersions
  BY DEF ConstantsOK
<1>2. SetLen(d, t) \in [1 .. t -> 0 .. NVersions]
  BY <1>1 DEF SetLen
<1>3. QED BY <1>2 DEF SetLen

LEMMA SizeNat == ASSUME ConstantsOK PROVE Sizes \subseteq Nat \ {0}
BY DEF ConstantsOK, Sizes, Versions

LEMMA NoMetaTyped == NoMeta \in Meta
BY DEF NoMeta, Meta, IsMeta, None, Options

LEMMA IdleTyped == ASSUME ConstantsOK PROVE Idle \in Run
<1>1. 1 \in Servers /\ 0 \in 0 .. NVersions /\ 0 \in 0 .. NNames
  BY DEF ConstantsOK, Servers
<1>2. QED BY <1>1, NoMetaTyped DEF Idle, NoMeta, Run, Record, Places, OnFile, None

LEMMA NoFileTyped == NoFile \in File
BY DEF NoFile, File, Data

LEMMA SetLenTyped ==
  ASSUME ConstantsOK, NEW d \in Data, NEW t \in Sizes
  PROVE  SetLen(d, t) \in Data
<1>1. d \in Seq(0 .. NVersions) /\ t \in Nat
  BY SizeNat DEF Data
<1>2. SetLen(d, t) \in Seq(0 .. NVersions) /\ Len(SetLen(d, t)) <= t
  BY <1>1, SetLenData
<1>3. QED BY <1>2 DEF Data

\* What a window does to its own run, and to files that are not locked by
\* another, keeps the locks.
LEMMA LockStep ==
  ASSUME LockInv, TypeInv', NEW w \in Windows, NEW r, run' = [run EXCEPT ![w] = r],
         \A v \in Windows, n \in Names :
           v # w /\ file[n].holder = v => file'[n].holder = v,
         \A n \in Names : file'[n].name = "none" => file'[n].holder = Nobody,
         r.pc \in Holding /\ r.n # 0 => file'[r.n].holder = w
  PROVE  LockInv'
<1>1. ASSUME NEW v \in Windows, run'[v].pc \in Holding, run'[v].n # 0
      PROVE  file'[run'[v].n].holder = v
  <2>1. run'[v] = IF v = w THEN r ELSE run[v]
    BY DEF LockInv, TypeInv
  <2>2. CASE v = w
    BY <2>1, <2>2, <1>1
  <2>3. CASE v # w
    <3>1. file[run[v].n].holder = v
      BY <2>1, <2>3, <1>1 DEF LockInv, HoldsItsFile
    <3>2. run[v].n \in Names
      BY <2>1, <2>3, <1>1 DEF LockInv, TypeInv, Run, Record, Names
    <3>3. QED BY <3>1, <3>2, <2>1, <2>3
  <2>4. QED BY <2>2, <2>3
<1>2. QED BY <1>1 DEF LockInv, HoldsItsFile, NobodyHoldsNothing

\* The same when no file changes hands or comes to be: the data may change.
LEMMA SameLocks ==
  ASSUME LockInv, TypeInv', NEW w \in Windows, NEW r, run' = [run EXCEPT ![w] = r],
         \A n \in Names : file'[n].holder = file[n].holder /\ file'[n].name = file[n].name,
         r.pc \in Holding /\ r.n # 0 => run[w].pc \in Holding /\ r.n = run[w].n
  PROVE  LockInv'
<1>1. \A n \in Names : file'[n].name = "none" => file'[n].holder = Nobody
  BY DEF LockInv, NobodyHoldsNothing
<1>2. ASSUME r.pc \in Holding, r.n # 0 PROVE file'[r.n].holder = w
  <2>1. run[w].n \in Names /\ file[run[w].n].holder = w
    BY <1>2 DEF LockInv, HoldsItsFile, TypeInv, Run, Record, Names
  <2>2. QED BY <2>1, <1>2
<1>3. QED BY <1>1, <1>2, LockStep

\* The same when the window closes its files, and does no work on one after.
LEMMA ClosedLocks ==
  ASSUME LockInv, TypeInv', NEW w \in Windows, NEW r, run' = [run EXCEPT ![w] = r],
         r.pc \notin Holding, file' = Unlocked(w)
  PROVE  LockInv'
<1>1. \A n \in Names : /\ file'[n].holder = (IF file[n].holder = w THEN Nobody ELSE file[n].holder)
                       /\ file'[n].name = file[n].name
  BY DEF Unlocked, LockInv, TypeInv, File
<1>2. \A n \in Names : file'[n].name = "none" => file'[n].holder = Nobody
  BY <1>1 DEF LockInv, NobodyHoldsNothing
<1>3. QED BY <1>1, <1>2, LockStep

LEMMA UnlockedTyped ==
  ASSUME TypeInv, NEW w \in Windows
  PROVE  Unlocked(w) \in [Names -> File]
BY DEF Unlocked, TypeInv, File

\* A sidecar that is saved, or not.
LEMMA SaveTyped ==
  ASSUME TypeInv, NEW n \in Names, NEW m \in Meta, SaveMeta(n, m)
  PROVE  sidecar' \in [Names -> {None} \cup {{k} : k \in Meta}]
BY DEF SaveMeta, TypeInv

\* Everything a step must keep when it leaves the servers alone.
LEMMA StepTypes ==
  ASSUME TypeInv, NEW w \in Windows, NEW r \in Run, run' = [run EXCEPT ![w] = r],
         file' \in [Names -> File],
         sidecar' \in [Names -> {None} \cup {{m} : m \in Meta}],
         UNCHANGED server
  PROVE  TypeInv'
BY DEF TypeInv

LEMMA LockInit == ASSUME ConstantsOK, Init PROVE LockInv
<1>1. [ver |-> 1, ranges |-> TRUE] \in [ver : Versions, ranges : BOOLEAN]
  BY DEF ConstantsOK, Versions
<1>2. \A w \in Windows : run[w] = Idle
  BY DEF Init
<1>3. TypeInv
  BY <1>1, <1>2, IdleTyped, NoFileTyped DEF Init, TypeInv, Idle
<1>4. HoldsItsFile /\ NobodyHoldsNothing
  BY <1>2 DEF Init, Idle, NoFile, HoldsItsFile, NobodyHoldsNothing, Holding
<1>5. QED BY <1>3, <1>4 DEF LockInv

LEMMA OpenInv ==
  ASSUME ConstantsOK, LockInv, NEW w \in Windows, Open(w) PROVE LockInv'
<1> DEFINE n == run[w].n
           from == IF NServers = 1 THEN {1} ELSE None
           r == [run[w] EXCEPT !.pc = "request", !.from = from]
<1>1. /\ run[w].pc = "open" /\ file[n].name = "part" /\ file[n].holder = Nobody
      /\ file' = [file EXCEPT ![n].holder = w] /\ UNCHANGED server
      /\ SaveMeta(n, run[w].meta)
  BY DEF Open
<1>2. run[w] \in Run /\ run[w].meta \in Meta /\ n \in Names
  BY <1>1 DEF LockInv, TypeInv, Run, Record, OnFile, Names
<1>3. from \in SUBSET Servers
  BY DEF Servers, None, ConstantsOK
<1>4. r \in Run /\ r.pc = "request" /\ r.n = n
  BY <1>1, <1>2, <1>3 DEF Run, Record, Places, OnFile
<1>5. run' = [run EXCEPT ![w] = r]
  BY DEF Open, LockInv, TypeInv
<1>6. file' \in [Names -> File]
  BY <1>1, <1>2 DEF LockInv, TypeInv, File
<1>7. sidecar' \in [Names -> {None} \cup {{m} : m \in Meta}]
  BY <1>1, <1>2, SaveTyped DEF LockInv
<1>8. TypeInv'
  BY <1>1, <1>4, <1>5, <1>6, <1>7, StepTypes DEF LockInv
<1>9. \A k \in Names :
        /\ k # n => file'[k] = file[k]
        /\ k = n => file'[k].holder = w /\ file'[k].name = "part"
  BY <1>1, <1>2 DEF LockInv, TypeInv, File
<1>10. Nobody \notin Windows
  BY DEF ConstantsOK, Nobody
<1>11. \A v \in Windows, k \in Names : v # w /\ file[k].holder = v => file'[k].holder = v
  BY <1>1, <1>9, <1>10
<1>12. \A k \in Names : file'[k].name = "none" => file'[k].holder = Nobody
  BY <1>9 DEF LockInv, NobodyHoldsNothing
<1>13. file'[r.n].holder = w
  BY <1>2, <1>4, <1>9
<1> HIDE DEF r
<1>14. QED BY <1>4, <1>5, <1>8, <1>11, <1>12, <1>13, LockStep

\* The steps that leave the files alone and do not take up a file.
LEMMA QuietInv ==
  ASSUME ConstantsOK, LockInv, NEW w \in Windows, NEW r \in Run,
         run' = [run EXCEPT ![w] = r], UNCHANGED <<file, server>>,
         r.pc \in Holding /\ r.n # 0 => run[w].pc \in Holding /\ r.n = run[w].n,
         sidecar' \in [Names -> {None} \cup {{m} : m \in Meta}]
  PROVE  LockInv'
<1>1. TypeInv'
  BY StepTypes DEF LockInv, TypeInv
<1>2. QED BY <1>1, SameLocks

LEMMA FindInv ==
  ASSUME ConstantsOK, LockInv, NEW w \in Windows, Find(w) PROVE LockInv'
<1>1. UNCHANGED <<file, server>> BY DEF Find
<1>2. sidecar' \in [Names -> {None} \cup {{m} : m \in Meta}]
  BY DEF Find, LockInv, TypeInv
<1>3. PICK r \in Run : /\ run' = [run EXCEPT ![w] = r]
                       /\ r.pc \in {"open", "request"} /\ (r.pc = "request" => r.n = 0)
  <2>1. CASE \E n \in Names : \E m \in sidecar[n] \cup {NoMeta} :
               run' = [run EXCEPT ![w] = [Idle EXCEPT !.pc = "open", !.n = n, !.meta = m]]
    <3>1. PICK n \in Names, m \in Meta :
            run' = [run EXCEPT ![w] = [Idle EXCEPT !.pc = "open", !.n = n, !.meta = m]]
      <4>1. \A n \in Names : sidecar[n] \cup {NoMeta} \subseteq Meta
        BY NoMetaTyped DEF LockInv, TypeInv, None
      <4>2. QED BY <2>1, <4>1
    <3> DEFINE q == [Idle EXCEPT !.pc = "open", !.n = n, !.meta = m]
    <3>2. n \in 0 .. NNames /\ n # 0 /\ Idle \in Record
      BY IdleTyped DEF Names, Run
    <3>3. q \in Record /\ q.pc = "open" /\ q.n = n /\ q.got = {}
      BY <3>2 DEF Record, Places, Idle
    <3>4. q \in Run
      BY <3>2, <3>3 DEF Run
    <3>5. QED BY <3>1, <3>3, <3>4
  <2>2. CASE run' = [run EXCEPT ![w] = [Idle EXCEPT !.pc = "request"]]
    <3> DEFINE q == [Idle EXCEPT !.pc = "request"]
    <3>1. q \in Run /\ q.pc = "request" /\ q.n = 0
      BY IdleTyped DEF Run, Record, Places, OnFile, Idle
    <3>2. QED BY <2>2, <3>1
  <2>3. QED BY <2>1, <2>2 DEF Find
<1>4. QED BY <1>1, <1>2, <1>3, QuietInv DEF Holding

\* GoTo, from one place where the file is held to another.
LEMMA GoToInv ==
  ASSUME ConstantsOK, LockInv, NEW w \in Windows, NEW pc \in Places \ {"idle"}, GoTo(w, pc),
         UNCHANGED <<file, server>>,
         pc \in {"begin", "body"} => run[w].ver \in Versions,
         pc \in OnFile => run[w].n # 0,
         pc \in {"sized", "segmented"} => Segmented(run[w].meta),
         run[w].pc # "segmented",
         pc \in Holding /\ run[w].n # 0 => run[w].pc \in Holding,
         sidecar' \in [Names -> {None} \cup {{m} : m \in Meta}]
  PROVE  LockInv'
<1> DEFINE r == [run[w] EXCEPT !.pc = pc]
<1>1. run[w] \in Run BY DEF LockInv, TypeInv
<1>2. r \in Run /\ r.pc = pc /\ r.n = run[w].n
  BY <1>1 DEF Run, Record, Segmented
<1>3. run' = [run EXCEPT ![w] = r]
  BY DEF GoTo, LockInv, TypeInv
<1> HIDE DEF r
<1>4. QED BY <1>2, <1>3, QuietInv

\* Stop, when the file was not locked by this window.
LEMMA StopInv ==
  ASSUME ConstantsOK, LockInv, NEW w \in Windows, Stop(w), UNCHANGED <<file, server>>,
         sidecar' \in [Names -> {None} \cup {{m} : m \in Meta}]
  PROVE  LockInv'
<1>1. Idle \in Run /\ Idle.pc = "idle" /\ Idle.n = 0
  BY IdleTyped DEF Idle
<1>2. run' = [run EXCEPT ![w] = Idle]
  BY DEF Stop
<1>3. QED BY <1>1, <1>2, QuietInv

\* Stop, once the window has closed its file.
LEMMA CloseInv ==
  ASSUME ConstantsOK, LockInv, NEW w \in Windows, Stop(w), file' = Unlocked(w),
         UNCHANGED <<sidecar, server>>
  PROVE  LockInv'
<1>1. Idle \in Run /\ Idle.pc = "idle" /\ Idle.n = 0
  BY IdleTyped DEF Idle
<1>2. run' = [run EXCEPT ![w] = Idle]
  BY DEF Stop
<1>3. TypeInv'
  BY <1>1, <1>2, UnlockedTyped, StepTypes DEF LockInv, TypeInv
<1>4. QED BY <1>1, <1>2, <1>3, ClosedLocks DEF Holding

\* A window writes to the file it holds.
LEMMA WriteInv ==
  ASSUME ConstantsOK, LockInv, NEW w \in Windows, NEW r \in Run,
         run' = [run EXCEPT ![w] = r], NEW d \in Data,
         run[w].n # 0, Write(run[w].n, d), UNCHANGED server,
         r.pc \in Holding /\ r.n # 0 => run[w].pc \in Holding /\ r.n = run[w].n,
         sidecar' \in [Names -> {None} \cup {{m} : m \in Meta}]
  PROVE  LockInv'
<1>1. run[w].n \in Names
  BY DEF LockInv, TypeInv, Run, Record, Names
<1>2. file' = [file EXCEPT ![run[w].n].data = d]
  BY DEF Write
<1>3. file' \in [Names -> File]
  BY <1>1, <1>2 DEF LockInv, TypeInv, File
<1>4. \A n \in Names : file'[n].holder = file[n].holder /\ file'[n].name = file[n].name
  BY <1>1, <1>2 DEF LockInv, TypeInv, File
<1>5. TypeInv'
  BY <1>3, StepTypes DEF LockInv
<1>6. QED BY <1>4, <1>5, SameLocks

LEMMA TruncateInv ==
  ASSUME ConstantsOK, LockInv, NEW w \in Windows, NEW pc \in {"retry", "truncated"},
         run[w].pc \in Holding, run[w].n # 0, Truncate(w, pc), UNCHANGED <<sidecar, server>>
  PROVE  LockInv'
<1> DEFINE r == [run[w] EXCEPT !.pc = pc, !.meta = NoMeta, !.got = {}]
<1>1. run[w] \in Run
  BY DEF LockInv, TypeInv
<1>2. r \in Run /\ r.n = run[w].n
  BY <1>1, NoMetaTyped DEF Run, Record, Places, OnFile, NoMeta, None
<1>3. run' = [run EXCEPT ![w] = r] /\ Write(run[w].n, <<>>)
  BY DEF Truncate, LockInv, TypeInv
<1>4. <<>> \in Data
  BY DEF Data
<1>5. sidecar' \in [Names -> {None} \cup {{m} : m \in Meta}]
  BY DEF LockInv, TypeInv
<1> HIDE DEF r
<1>6. QED BY <1>2, <1>3, <1>4, <1>5, WriteInv

\* A window goes on with a file of its own, its earlier one or a new one.
LEMMA CreateInv ==
  ASSUME ConstantsOK, LockInv, NEW w \in Windows, run[w].pc \in Holding,
         NEW n \in Names, n = run[w].n \/ file[n].name = "none",
         NEW f \in File, f.holder = w, f.name # "none", file' = [file EXCEPT ![n] = f],
         NEW r \in Run, r.n = n, run' = [run EXCEPT ![w] = r], UNCHANGED server,
         sidecar' \in [Names -> {None} \cup {{m} : m \in Meta}]
  PROVE  LockInv'
<1>1. file' \in [Names -> File]
  BY DEF LockInv, TypeInv
<1>2. TypeInv'
  BY <1>1, StepTypes DEF LockInv
<1>3. \A k \in Names : file'[k] = IF k = n THEN f ELSE file[k]
  BY DEF LockInv, TypeInv
<1>4. file[n].holder = w \/ file[n].holder = Nobody
  BY DEF LockInv, HoldsItsFile, NobodyHoldsNothing, Names
<1>5. \A v \in Windows, k \in Names : v # w /\ file[k].holder = v => file'[k].holder = v
  BY <1>3, <1>4 DEF ConstantsOK, Nobody
<1>6. \A k \in Names : file'[k].name = "none" => file'[k].holder = Nobody
  BY <1>3 DEF LockInv, NobodyHoldsNothing
<1>7. file'[r.n].holder = w
  BY <1>3
<1>8. QED BY <1>2, <1>5, <1>6, <1>7, LockStep

LEMMA CreatedTyped ==
  ASSUME ConstantsOK, LockInv, NEW w \in Windows, run[w].pc \in Holding,
         NEW n \in Destination(w)
  PROVE  /\ n \in Names /\ (n = run[w].n \/ file[n].name = "none")
         /\ Created(w, n) \in File /\ Created(w, n).holder = w /\ Created(w, n).name # "none"
<1>1. CASE run[w].n # 0
  <2>1. n = run[w].n /\ n \in Names
    BY <1>1 DEF Destination, LockInv, TypeInv, Run, Record, Names
  <2>2. file[n] \in File /\ file[n].holder = w /\ w # Nobody
    BY <1>1, <2>1 DEF LockInv, TypeInv, HoldsItsFile, ConstantsOK, Nobody
  <2>3. file[n].name # "none"
    BY <2>1, <2>2 DEF LockInv, NobodyHoldsNothing
  <2>4. QED BY <1>1, <2>1, <2>2, <2>3 DEF Created
<1>2. CASE run[w].n = 0
  <2>1. n \in Names /\ file[n].name = "none"
    BY <1>2 DEF Destination, FreeNames
  <2>2. [name |-> "part", data |-> <<>>, holder |-> w] \in File
    BY DEF File, Data
  <2>3. QED BY <1>2, <2>1, <2>2 DEF Created
<1>3. QED BY <1>1, <1>2

\* The `.part` is closed and removed.
LEMMA DiscardInv ==
  ASSUME ConstantsOK, LockInv, NEW w \in Windows, run[w].pc \in Holding, run[w].n # 0,
         Discard(w), Stop(w), UNCHANGED server
  PROVE  LockInv'
<1> DEFINE n == run[w].n
<1>1. n \in Names /\ file[n].holder = w
  BY DEF LockInv, TypeInv, HoldsItsFile, Run, Record, Names
<1>2. Idle \in Run /\ Idle.pc \notin Holding /\ run' = [run EXCEPT ![w] = Idle]
  BY IdleTyped DEF Idle, Holding, Stop
<1>3. \A k \in Names :
        file'[k] = IF k = n /\ file[n].name = "part" THEN NoFile ELSE Unlocked(w)[k]
  BY <1>1 DEF Discard, Unlocked
<1>4. file' \in [Names -> File]
  BY UnlockedTyped, NoFileTyped DEF Discard, LockInv
<1>5. sidecar' \in [Names -> {None} \cup {{m} : m \in Meta}]
  BY <1>1 DEF Discard, LockInv, TypeInv
<1>6. TypeInv'
  BY <1>2, <1>4, <1>5, StepTypes DEF LockInv
<1>7. \A k \in Names :
        /\ Unlocked(w)[k].holder = (IF file[k].holder = w THEN Nobody ELSE file[k].holder)
        /\ Unlocked(w)[k].name = file[k].name
  BY DEF Unlocked, LockInv, TypeInv, File
<1>8. \A v \in Windows, k \in Names : v # w /\ file[k].holder = v => file'[k].holder = v
  BY <1>1, <1>3, <1>7
<1>9. \A k \in Names : file'[k].name = "none" => file'[k].holder = Nobody
  BY <1>3, <1>7 DEF NoFile, LockInv, NobodyHoldsNothing
<1>10. QED BY <1>2, <1>6, <1>8, <1>9, LockStep

LEMMA RequestInv ==
  ASSUME ConstantsOK, LockInv, NEW w \in Windows,
         AnswerPartial(w) \/ AnswerWhole(w) \/ AnswerNoRange(w) \/ AnswerWrongRange(w)
           \/ AnswerRefused(w)
  PROVE  LockInv'
<1>1. run[w] \in Run /\ run[w].pc = "request" /\ ~Segmented(run[w].meta)
  BY DEF LockInv, TypeInv, AnswerPartial, AnswerWhole, AnswerNoRange, AnswerWrongRange,
         AnswerRefused, Requesting
<1>2. sidecar' \in [Names -> {None} \cup {{m} : m \in Meta}] /\ UNCHANGED <<sidecar, server>>
  BY DEF LockInv, TypeInv, AnswerPartial, AnswerWhole, AnswerNoRange, AnswerWrongRange,
         AnswerRefused
<1>3. Offset(w) > 0 => run[w].n # 0
  BY DEF Offset
<1>4. \A status \in {200, 206} : /\ Answered(w, status) \in Run
                                /\ Answered(w, status).n = run[w].n
                                /\ [Answered(w, status) EXCEPT !.meta = NoMeta] \in Run
                                /\ [Answered(w, status) EXCEPT !.meta = NoMeta].n = run[w].n
  <2>1. Asked(w).ver \in Versions /\ Asked(w).ver \in 0 .. NVersions
    BY <1>1 DEF Asked, LockInv, TypeInv, Run, Record, Versions
  <2>2. run[w] \in Record /\ NoMeta \in Meta /\ NoMeta.todo = None
    BY <1>1, NoMetaTyped DEF Run, NoMeta
  <2> SUFFICES ASSUME NEW status \in {200, 206}
               PROVE  /\ Answered(w, status) \in Run /\ Answered(w, status).n = run[w].n
                      /\ [Answered(w, status) EXCEPT !.meta = NoMeta] \in Run
                      /\ [Answered(w, status) EXCEPT !.meta = NoMeta].n = run[w].n
    OBVIOUS
  <2> DEFINE r == Answered(w, status)
             q == [r EXCEPT !.meta = NoMeta]
  <2>3. /\ r \in Record /\ r.pc = "begin" /\ r.n = run[w].n /\ r.ver = Asked(w).ver
        /\ r.meta = run[w].meta /\ r.got = {}
    <3>0. run[w].got = {}
      BY <1>1 DEF Run
    <3>1. status \in Nat /\ "begin" \in Places
      BY DEF Places
    <3>2. \A ver \in 0 .. NVersions :
            LET a == [run[w] EXCEPT !.pc = "begin", !.status = status, !.ver = ver]
            IN  /\ a \in Record /\ a.pc = "begin" /\ a.n = run[w].n /\ a.ver = ver
                /\ a.meta = run[w].meta /\ a.got = run[w].got
      BY <2>2, <3>1 DEF Record
    <3>3. QED BY <2>1, <3>0, <3>2 DEF Answered
  <2>4. r \in Run
    BY <1>1, <2>1, <2>3 DEF Run, OnFile
  <2> HIDE DEF r
  <2>5. /\ q \in Record /\ q.pc = "begin" /\ q.n = run[w].n /\ q.ver = Asked(w).ver
        /\ q.meta = NoMeta /\ q.got = {}
    BY <2>2, <2>3 DEF Record
  <2>6. q \in Run
    BY <2>1, <2>2, <2>5 DEF Run, OnFile
  <2>7. QED BY <2>3, <2>4, <2>5, <2>6 DEF r
<1>5. ASSUME AnswerPartial(w) PROVE LockInv'
  BY <1>1, <1>2, <1>4, <1>5, QuietInv DEF AnswerPartial, Holding
<1>6. ASSUME AnswerWhole(w) PROVE LockInv'
  <2>1. CASE Offset(w) > 0
    <3>1. /\ run' = [run EXCEPT ![w] = [Answered(w, 200) EXCEPT !.meta = NoMeta]]
          /\ Write(run[w].n, <<>>)
      BY <1>6, <2>1 DEF AnswerWhole
    <3>2. <<>> \in Data
      BY DEF Data
    <3>3. QED BY <1>1, <1>2, <1>3, <1>4, <2>1, <3>1, <3>2, WriteInv DEF Holding
  <2>2. CASE ~(Offset(w) > 0)
    BY <1>1, <1>2, <1>4, <1>6, <2>2, QuietInv DEF AnswerWhole, Holding
  <2>3. QED BY <2>1, <2>2
<1>7. ASSUME AnswerNoRange(w) PROVE LockInv'
  <2>1. (GoTo(w, "finish") /\ UNCHANGED file) \/ Truncate(w, "retry")
    BY <1>7 DEF AnswerNoRange
  <2>2. run[w].n # 0
    BY <1>3, <1>7 DEF AnswerNoRange
  <2>3. QED BY <1>1, <1>2, <2>1, <2>2, GoToInv, TruncateInv DEF Holding, Places
<1>8. ASSUME AnswerWrongRange(w) PROVE LockInv'
  <2>1. \/ GoTo(w, "retry") /\ UNCHANGED file
        \/ run[w].n # 0 /\ Truncate(w, "retry")
    BY <1>8 DEF AnswerWrongRange
  <2>2. QED BY <1>1, <1>2, <2>1, GoToInv, TruncateInv DEF Holding, Places, OnFile
<1>9. ASSUME AnswerRefused(w) PROVE LockInv'
  <2>1. \E pc \in {"retry", "fatal"} : GoTo(w, pc) /\ UNCHANGED file
    BY <1>9 DEF AnswerRefused
  <2>2. QED BY <1>1, <1>2, <2>1, GoToInv DEF Holding, Places, OnFile
<1>10. QED BY <1>5, <1>6, <1>7, <1>8, <1>9

\* The sidecar that goes with an answer, with no holes or with those of a new
\* segmented file.
LEMMA MetaOfTyped ==
  ASSUME ConstantsOK, NEW w \in Windows, run[w].ver \in Versions, Offset(w) \in Nat,
         NEW total \in Totals(w)
  PROVE  /\ total = None \/ \E t \in Sizes : total = {t}
         /\ MetaOf(w, total) \in Meta
         /\ \A t \in total :
              [MetaOf(w, total) EXCEPT !.todo = {(Offset(w) + 1) .. t}] \in Meta
<1>1. total = None \/ \E t \in Sizes : total = {t}
  BY ZenonT(40) DEF Totals, Sizes
<1>2. total \in SUBSET Nat /\ total \in Options(Sizes)
  BY <1>1, SizeNat DEF Options, None
<1>3. {run[w].ver} \in SUBSET Nat /\ {run[w].ver} \in Options(Versions)
  BY DEF Versions, Options
<1>4. MetaOf(w, total) \in Meta
  BY <1>2, <1>3 DEF MetaOf, Meta, IsMeta, None
<1>5. ASSUME NEW t \in total
      PROVE  [MetaOf(w, total) EXCEPT !.todo = {(Offset(w) + 1) .. t}] \in Meta
  <2> DEFINE b == (Offset(w) + 1) .. t
             m == MetaOf(w, total)
             k == [m EXCEPT !.todo = {b}]
  <2>1. t \in Nat
    BY <1>2
  <2>2. b \in SUBSET (1 .. t) /\ b \in SUBSET Nat
    BY <2>1
  <2>3. m.total = total
    BY DEF MetaOf
  <2> HIDE DEF m, b
  <2>4. m \in [total : SUBSET Nat, tag : SUBSET Nat, todo : SUBSET SUBSET Nat] /\ IsMeta(m)
    BY <1>4 DEF Meta, m
  <2>5. /\ k \in [total : SUBSET Nat, tag : SUBSET Nat, todo : SUBSET SUBSET Nat]
        /\ k.total = total /\ k.tag = m.tag /\ k.todo = {b}
        /\ DOMAIN k = {"total", "tag", "todo"}
    BY <2>2, <2>3, <2>4
  <2>6. IsMeta(k)
    BY <1>2, <2>2, <2>4, <2>5 DEF IsMeta
  <2>7. QED BY <2>5, <2>6 DEF Meta, m, b
<1>6. QED BY <1>1, <1>4, <1>5

LEMMA OffsetNat ==
  ASSUME ConstantsOK, LockInv, NEW w \in Windows
  PROVE  /\ Offset(w) \in Nat
         /\ run[w].n # 0 => /\ run[w].n \in Names
                            /\ file[run[w].n].data \in Data
                            /\ Offset(w) = Len(file[run[w].n].data)
<1>1. run[w].n = 0 \/ run[w].n \in Names
  BY DEF LockInv, TypeInv, Run, Record, Names
<1>2. \A n \in Names : file[n].data \in Data /\ Len(file[n].data) \in Nat
  BY DEF LockInv, TypeInv, File, Data
<1>3. QED BY <1>1, <1>2 DEF Offset

LEMMA BeginInv ==
  ASSUME ConstantsOK, LockInv, NEW w \in Windows, Begin(w) \/ Preallocate(w)
  PROVE  LockInv'
<1>1. /\ run[w] \in Run /\ run[w] \in Record /\ run[w].pc = "begin" /\ run[w].ver \in Versions
      /\ run[w].idx \in Servers /\ UNCHANGED server
  BY DEF Begin, Preallocate, LockInv, TypeInv, Run, Record
<1>2. run[w].pc \in Holding
  BY <1>1 DEF Holding
<1>3. Offset(w) \in Nat
  BY OffsetNat
<1>4. ASSUME NEW n \in Destination(w), NEW pc \in {"body", "sized"}, NEW m \in Meta,
             pc = "sized" => m.todo # None
      PROVE  LET q == [run[w] EXCEPT !.pc = pc, !.n = n, !.meta = m, !.from = {run[w].idx}]
             IN  q \in Run /\ q.n = n
  <2> DEFINE q == [run[w] EXCEPT !.pc = pc, !.n = n, !.meta = m, !.from = {run[w].idx}]
  <2>1. n \in 0 .. NNames /\ n # 0 /\ pc \in Places
    BY <1>2, CreatedTyped DEF Names, Places
  <2>2. q \in Record /\ q.n = n /\ q.ver = run[w].ver /\ q.pc = pc /\ q.meta = m
        /\ q.got = run[w].got
    BY <1>1, <2>1 DEF Record
  <2>3. q \in Run
    BY <1>1, <1>4, <2>1, <2>2 DEF Run
  <2>4. QED BY <2>2, <2>3
<1>5. CASE Begin(w)
  <2>1. PICK n \in Destination(w), total \in Totals(w) :
          /\ file' = [file EXCEPT ![n] = Created(w, n)]
          /\ run' = [run EXCEPT ![w] =
                       [@ EXCEPT !.pc = "body", !.n = n, !.meta = MetaOf(w, total),
                                 !.from = {run[w].idx}]]
          /\ SaveMeta(n, MetaOf(w, total))
    BY <1>5 DEF Begin
  <2> DEFINE q == [run[w] EXCEPT !.pc = "body", !.n = n, !.meta = MetaOf(w, total),
                                 !.from = {run[w].idx}]
  <2>2. MetaOf(w, total) \in Meta
    BY <1>1, <1>3, MetaOfTyped
  <2>3. q \in Run /\ q.n = n
    BY <1>4, <2>2
  <2>4. run' = [run EXCEPT ![w] = q]
    BY <2>1 DEF LockInv, TypeInv
  <2>5. n \in Names
    BY <1>2, CreatedTyped
  <2>6. sidecar' \in [Names -> {None} \cup {{k} : k \in Meta}]
    BY <2>1, <2>2, <2>5, SaveTyped DEF LockInv
  <2> DEFINE f == Created(w, n)
  <2>7. /\ n = run[w].n \/ file[n].name = "none"
        /\ f \in File /\ f.holder = w /\ f.name # "none"
    BY <1>2, CreatedTyped
  <2>8. file' = [file EXCEPT ![n] = f]
    BY <2>1
  <2> HIDE DEF q, f
  <2>9. QED BY <1>1, <1>2, <2>3, <2>4, <2>5, <2>6, <2>7, <2>8, CreateInv
<1>6. CASE Preallocate(w)
  <2>0. PICK n \in Destination(w), total \in Totals(w) : \E t \in total :
          /\ file' = [file EXCEPT ![n] = [Created(w, n) EXCEPT !.data = SetLen(@, t)]]
          /\ run' = [run EXCEPT ![w] =
               [@ EXCEPT !.pc = "sized", !.n = n, !.from = {run[w].idx},
                  !.meta = [MetaOf(w, total) EXCEPT !.todo = {(Offset(w) + 1) .. t}]]]
    BY <1>6 DEF Preallocate
  <2>1. PICK t \in total :
          /\ file' = [file EXCEPT ![n] = [Created(w, n) EXCEPT !.data = SetLen(@, t)]]
          /\ run' = [run EXCEPT ![w] =
               [@ EXCEPT !.pc = "sized", !.n = n, !.from = {run[w].idx},
                  !.meta = [MetaOf(w, total) EXCEPT !.todo = {(Offset(w) + 1) .. t}]]]
    BY <2>0
  <2> DEFINE m == [MetaOf(w, total) EXCEPT !.todo = {(Offset(w) + 1) .. t}]
             q == [run[w] EXCEPT !.pc = "sized", !.n = n, !.meta = m, !.from = {run[w].idx}]
             f == [Created(w, n) EXCEPT !.data = SetLen(Created(w, n).data, t)]
  <2>2. m \in Meta /\ m.todo # None
    BY <1>1, <1>3, MetaOfTyped DEF MetaOf, None
  <2>11. t \in Sizes
    BY <1>1, <1>3, MetaOfTyped DEF None
  <2>3. q \in Run /\ q.n = n
    BY <1>4, <2>2
  <2>4. run' = [run EXCEPT ![w] = q]
    BY <2>1 DEF LockInv, TypeInv
  <2>5. /\ n \in Names /\ (n = run[w].n \/ file[n].name = "none")
        /\ Created(w, n) \in File /\ Created(w, n).holder = w /\ Created(w, n).name # "none"
    BY <1>2, CreatedTyped
  <2>6. SetLen(Created(w, n).data, t) \in Data
    BY <2>5, <2>11, SetLenTyped DEF File
  <2>7. f \in File /\ f.holder = w /\ f.name # "none"
    BY <2>5, <2>6 DEF File
  <2>8. file' = [file EXCEPT ![n] = f]
    BY <2>1
  <2>9. sidecar' \in [Names -> {None} \cup {{k} : k \in Meta}]
    BY <1>6 DEF Preallocate, LockInv, TypeInv
  <2> HIDE DEF q, f
  <2>10. QED BY <1>1, <1>2, <2>3, <2>4, <2>5, <2>7, <2>8, <2>9, CreateInv
<1>7. QED BY <1>5, <1>6

\* SaveMeta of what the window knows, with a move.
LEMMA SaveInv ==
  ASSUME ConstantsOK, LockInv, NEW w \in Windows, NEW pc \in {"segmented", "retry"},
         run[w].pc = (IF pc = "segmented" THEN "sized" ELSE "truncated"),
         SaveMeta(run[w].n, run[w].meta), GoTo(w, pc),
         UNCHANGED <<file, server>>
  PROVE  LockInv'
<1>1. /\ run[w].meta \in Meta /\ run[w].n \in Names /\ run[w].n # 0
      /\ pc = "segmented" => Segmented(run[w].meta)
  BY DEF LockInv, TypeInv, Run, Record, OnFile, Names, Segmented
<1>2. sidecar' \in [Names -> {None} \cup {{k} : k \in Meta}]
  BY <1>1, SaveTyped DEF LockInv
<1>3. QED BY <1>1, <1>2, GoToInv DEF Places, Holding

LEMMA BodyInv ==
  ASSUME ConstantsOK, LockInv, NEW w \in Windows, Body(w)
  PROVE  LockInv'
<1> DEFINE n == run[w].n
           d == Append(file[n].data, run[w].ver)
<1>1. /\ run[w] \in Run /\ n # 0 /\ n \in Names /\ run[w].ver \in Versions
      /\ Write(n, d) /\ UNCHANGED <<sidecar, server, run>> /\ Offset(w) < SizeOf[run[w].ver]
  BY DEF Body, LockInv, TypeInv, Run, Record, OnFile, Names
<1>2. /\ file[n].data \in Seq(0 .. NVersions) /\ Offset(w) = Len(file[n].data)
      /\ run[w].ver \in 0 .. NVersions
  BY <1>1, OffsetNat DEF Data, Versions
<1>3. SizeOf[run[w].ver] \in Nat /\ SizeOf[run[w].ver] \in Sizes
  BY <1>1 DEF ConstantsOK, Sizes
<1>4. d \in Seq(0 .. NVersions) /\ Len(d) = Len(file[n].data) + 1
  BY <1>2
<1>5. d \in Data
  BY <1>1, <1>2, <1>3, <1>4 DEF Data
<1>6. run' = [run EXCEPT ![w] = run[w]]
  BY <1>1 DEF LockInv, TypeInv
<1>7. sidecar' \in [Names -> {None} \cup {{k} : k \in Meta}]
  BY <1>1 DEF LockInv, TypeInv
<1>8. QED BY <1>1, <1>5, <1>6, <1>7, WriteInv

\* A file with holes has a total it can be set to.
LEMMA ResumeInv ==
  ASSUME ConstantsOK, LockInv, NEW w \in Windows, Resume(w)
  PROVE  LockInv'
<1> DEFINE n == run[w].n
<1>1. /\ run[w] \in Run /\ run[w].meta \in Meta /\ n # 0 /\ n \in Names
      /\ run[w].pc = "request" /\ UNCHANGED <<sidecar, server>> /\ Segmented(run[w].meta)
  BY DEF Resume, Segmented, LockInv, TypeInv, Run, Record, Names
<1>2. sidecar' \in [Names -> {None} \cup {{k} : k \in Meta}]
  BY <1>1 DEF LockInv, TypeInv
<1>3. CASE \E pc \in {"finish", "fatal", "segmented"} : GoTo(w, pc) /\ UNCHANGED file
  BY <1>1, <1>2, <1>3, GoToInv DEF Places, Holding
<1>4. CASE GoTo(w, "segmented") /\ \E total \in run[w].meta.total :
             Write(n, SetLen(file[n].data, total))
  <2>1. PICK total \in run[w].meta.total : Write(n, SetLen(file[n].data, total))
    BY <1>4
  <2>2. total \in Sizes
    BY <1>1 DEF Meta, IsMeta, Options, None
  <2>3. SetLen(file[n].data, total) \in Data
    BY <1>1, <2>2, OffsetNat, SetLenTyped
  <2> DEFINE r == [run[w] EXCEPT !.pc = "segmented"]
  <2>4. r \in Run /\ r.n = n
    BY <1>1 DEF Run, Record, Places, OnFile, Segmented
  <2>5. run' = [run EXCEPT ![w] = r]
    BY <1>4 DEF GoTo, LockInv, TypeInv
  <2> HIDE DEF r
  <2>6. QED BY <1>1, <1>2, <2>1, <2>3, <2>4, <2>5, WriteInv DEF Holding
<1>5. QED BY <1>3, <1>4 DEF Resume

LEMMA SegmentWriteInv ==
  ASSUME ConstantsOK, LockInv, NEW w \in Windows, SegmentWrite(w)
  PROVE  LockInv'
<1> DEFINE n == run[w].n
<1>1. PICK b \in Missing(w) \ run[w].got, s \in Serving(w) :
        /\ file' = [file EXCEPT ![n].data[b] = server[s].ver]
        /\ run' = [run EXCEPT ![w].got = @ \cup {b}]
  BY DEF SegmentWrite
<1>2. /\ run[w] \in Run /\ run[w] \in Record /\ run[w].meta \in Meta /\ n # 0 /\ n \in Names
      /\ run[w].pc = "segmented" /\ UNCHANGED <<sidecar, server>>
  BY DEF SegmentWrite, LockInv, TypeInv, Run, Record, OnFile, Names
<1>3. b \in Nat
  BY <1>2 DEF Missing, Meta
<1>4. server[s].ver \in 0 .. NVersions
  BY DEF Serving, LockInv, TypeInv, Versions
<1> DEFINE old == file[n].data
           d == [old EXCEPT ![b] = server[s].ver]
           r == [run[w] EXCEPT !.got = @ \cup {b}]
<1>5. old \in Data /\ old \in Seq(0 .. NVersions)
  BY <1>2, OffsetNat DEF Data
<1>6. d \in Seq(0 .. NVersions) /\ Len(d) = Len(old)
  <2>1. old \in [1 .. Len(old) -> 0 .. NVersions] /\ Len(old) \in Nat
    BY <1>5, LenProperties
  <2>2. CASE b \in 1 .. Len(old)
    BY <1>4, <1>5, <2>2, ExceptSeq
  <2>3. CASE b \notin 1 .. Len(old)
    <3>1. d = old
      BY <2>1, <2>3
    <3>2. QED BY <1>5, <3>1
  <2>4. QED BY <2>2, <2>3
<1>7. d \in Data
  <2>1. old = <<>> => d = <<>>
    BY <1>5, <1>6
  <2>2. QED BY <1>5, <1>6, <2>1 DEF Data
<1>8. Write(n, d)
  BY <1>1, <1>2 DEF Write, LockInv, TypeInv, File
<1>9. r \in Run /\ r.n = n /\ r.pc = "segmented"
  BY <1>2, <1>3 DEF Run, Record
<1>10. run' = [run EXCEPT ![w] = r]
  BY <1>1 DEF LockInv, TypeInv
<1>11. sidecar' \in [Names -> {None} \cup {{k} : k \in Meta}]
  BY <1>2 DEF LockInv, TypeInv
<1> HIDE DEF r, d
<1>12. QED BY <1>2, <1>7, <1>8, <1>9, <1>10, <1>11, WriteInv DEF Holding

\* What a checkpoint leaves of the list.
LEMMA CheckpointMeta ==
  ASSUME ConstantsOK, LockInv, NEW w \in Windows, Segmented(run[w].meta)
  PROVE  [run[w].meta EXCEPT !.todo = {Missing(w) \ run[w].got}] \in Meta
<1> DEFINE m == run[w].meta
           b == Missing(w) \ run[w].got
<1>1. m \in Meta /\ m.todo # None
  BY DEF LockInv, TypeInv, Run, Record, Segmented
<1>2. PICK t \in m.total : \E c \in SUBSET (1 .. t) : m.todo = {c}
  BY <1>1 DEF Meta, IsMeta
<1>3. b \in SUBSET (1 .. t) /\ b \in SUBSET Nat
  BY <1>1, <1>2 DEF Missing, Meta
<1>4. [m EXCEPT !.todo = {b}] \in [total : SUBSET Nat, tag : SUBSET Nat, todo : SUBSET SUBSET Nat]
  BY <1>1, <1>3 DEF Meta
<1>5. IsMeta([m EXCEPT !.todo = {b}])
  <2>1. /\ [m EXCEPT !.todo = {b}].total = m.total /\ [m EXCEPT !.todo = {b}].tag = m.tag
        /\ [m EXCEPT !.todo = {b}].todo = {b}
        /\ DOMAIN [m EXCEPT !.todo = {b}] = {"total", "tag", "todo"}
    BY <1>1 DEF Meta, IsMeta
  <2>2. QED BY <1>1, <1>2, <1>3, <2>1 DEF Meta, IsMeta
<1>6. QED BY <1>4, <1>5 DEF Meta

LEMMA CheckpointInv ==
  ASSUME ConstantsOK, LockInv, NEW w \in Windows,
         NEW pc \in {"segmented", "finish", "retry", "restart", "fatal"},
         run[w].pc = "segmented", Checkpoint(w, pc),
         UNCHANGED <<file, server>>
  PROVE  LockInv'
<1> DEFINE m == [run[w].meta EXCEPT !.todo = {Missing(w) \ run[w].got}]
           r == [run[w] EXCEPT !.pc = pc, !.meta = m, !.got = {}]
<1>1. m \in Meta /\ m.todo # None
  <2>1. Segmented(run[w].meta) /\ run[w].meta \in Meta
    BY DEF Segmented, LockInv, TypeInv, Run, Record
  <2>2. QED BY <2>1, CheckpointMeta DEF Meta, None
<1> HIDE DEF m
<1>2. run[w] \in Run /\ run[w] \in Record /\ run[w].n # 0 /\ run[w].n \in Names
  BY DEF LockInv, TypeInv, Run, Record, OnFile, Names
<1>3. pc \in Places
  BY DEF Places
<1>4. r \in Record /\ r.pc = pc /\ r.n = run[w].n /\ r.meta = m /\ r.got = {}
  BY <1>1, <1>2, <1>3 DEF Record
<1>5. r \in Run
  BY <1>1, <1>2, <1>4 DEF Run
<1>6. SaveMeta(run[w].n, m) /\ run' = [run EXCEPT ![w] = r]
  BY DEF Checkpoint, m, LockInv, TypeInv
<1>7. sidecar' \in [Names -> {None} \cup {{k} : k \in Meta}]
  BY <1>1, <1>2, <1>6, SaveTyped DEF LockInv
<1> HIDE DEF r
<1>8. QED BY <1>4, <1>5, <1>6, <1>7, QuietInv DEF Holding

LEMMA RetryInv ==
  ASSUME ConstantsOK, LockInv, NEW w \in Windows, Retry(w)
  PROVE  LockInv'
<1>1. /\ run[w] \in Run /\ run[w] \in Record /\ run[w].pc = "retry"
      /\ UNCHANGED <<sidecar, server>>
  BY DEF Retry, LockInv, TypeInv, Run
<1> DEFINE idx == (run[w].idx % NServers) + 1
           r == [run[w] EXCEPT !.pc = "request", !.idx = (run[w].idx % NServers) + 1,
                               !.status = 0, !.ver = 0]
<1>2. CASE /\ run' = [run EXCEPT ![w] =
                         [@ EXCEPT !.pc = "request", !.idx = (run[w].idx % NServers) + 1,
                                   !.status = 0, !.ver = 0]]
           /\ UNCHANGED file
  <2>6. run' = [run EXCEPT ![w] = r]
    BY <1>2
  <2>1. run[w].idx \in Nat /\ NServers \in Nat \ {0}
    BY <1>1 DEF Record, Servers, ConstantsOK
  <2>2. idx \in Servers
    BY <2>1 DEF Servers
  <2>3. "request" \in Places /\ 0 \in 0 .. NVersions
    BY DEF Places, ConstantsOK
  <2>4. r \in Record /\ r.pc = "request" /\ r.n = run[w].n /\ r.meta = run[w].meta
        /\ r.got = run[w].got
    BY <1>1, <2>2, <2>3 DEF Record
  <2>5. r \in Run
    BY <1>1, <2>4 DEF Run, OnFile
  <2>7. sidecar' \in [Names -> {None} \cup {{k} : k \in Meta}]
    BY <1>1 DEF LockInv, TypeInv
  <2> HIDE DEF r
  <2>8. QED BY <1>1, <1>2, <2>4, <2>5, <2>6, <2>7, QuietInv DEF Holding
<1>3. CASE Stop(w) /\ file' = Unlocked(w)
  BY <1>1, <1>3, CloseInv
<1>4. QED BY <1>2, <1>3 DEF Retry

LEMMA RenameInv ==
  ASSUME ConstantsOK, LockInv, NEW w \in Windows, Finish(w) \/ Rename(w) \/ Cleanup(w)
  PROVE  LockInv'
<1> DEFINE n == run[w].n
<1>1. /\ run[w] \in Run /\ run[w] \in Record /\ n # 0 /\ n \in Names /\ UNCHANGED server
      /\ run[w].got = {}
  BY DEF Finish, Rename, Cleanup, LockInv, TypeInv, Run, Record, OnFile, Names
<1>2. \A pc \in {"renaming", "cleanup"} :
        LET r == [run[w] EXCEPT !.pc = pc] IN r \in Run /\ r.pc = pc
  <2>1. SUFFICES ASSUME NEW pc \in {"renaming", "cleanup"}
                 PROVE  [run[w] EXCEPT !.pc = pc] \in Run /\ [run[w] EXCEPT !.pc = pc].pc = pc
    OBVIOUS
  <2>2. QED BY <1>1 DEF Run, Record, Places, OnFile
<1>3. CASE Finish(w)
  <2>1. file' = Unlocked(w) /\ UNCHANGED <<sidecar, server>>
    BY <1>3 DEF Finish
  <2>2. run' = [run EXCEPT ![w] = [run[w] EXCEPT !.pc = "renaming"]]
    BY <1>3 DEF Finish, GoTo, LockInv, TypeInv
  <2>3. TypeInv'
    BY <1>2, <2>1, <2>2, UnlockedTyped, StepTypes DEF LockInv, TypeInv
  <2>4. QED BY <1>2, <2>1, <2>2, <2>3, ClosedLocks DEF Holding
<1>4. CASE Rename(w) /\ file[n].name = "part"
  <2>1. file' = [file EXCEPT ![n].name = "final"] /\ UNCHANGED <<sidecar, server>>
    BY <1>4 DEF Rename
  <2>2. run' = [run EXCEPT ![w] = [run[w] EXCEPT !.pc = "cleanup"]]
    BY <1>4 DEF Rename, GoTo, LockInv, TypeInv
  <2>3. file' \in [Names -> File]
    BY <1>1, <2>1 DEF LockInv, TypeInv, File
  <2>4. TypeInv'
    BY <1>2, <2>1, <2>2, <2>3, StepTypes DEF LockInv, TypeInv
  <2>5. \A k \in Names : /\ file'[k].holder = file[k].holder
                         /\ file'[k].name = (IF k = n THEN "final" ELSE file[k].name)
    BY <1>1, <2>1 DEF LockInv, TypeInv, File
  <2>6. \A k \in Names : file'[k].name = "none" => file'[k].holder = Nobody
    BY <2>5 DEF LockInv, NobodyHoldsNothing
  <2> DEFINE r == [run[w] EXCEPT !.pc = "cleanup"]
  <2>7. r.pc \notin Holding
    BY <1>2 DEF Holding
  <2>8. run' = [run EXCEPT ![w] = r]
    BY <2>2
  <2> HIDE DEF r
  <2>9. QED BY <2>4, <2>5, <2>6, <2>7, <2>8, LockStep
<1>5. CASE Rename(w) /\ file[n].name # "part"
  <2>1. Stop(w) /\ UNCHANGED <<file, sidecar, server>>
    BY <1>5 DEF Rename
  <2>2. sidecar' \in [Names -> {None} \cup {{k} : k \in Meta}]
    BY <2>1 DEF LockInv, TypeInv
  <2>3. QED BY <2>1, <2>2, StopInv
<1>6. CASE Cleanup(w)
  <2>1. sidecar' \in [Names -> {None} \cup {{k} : k \in Meta}]
    BY <1>6 DEF Cleanup, LockInv, TypeInv
  <2>2. QED BY <1>6, <2>1, StopInv DEF Cleanup
<1>7. QED BY <1>3, <1>4, <1>5, <1>6

LEMMA NextLocks == ASSUME ConstantsOK, LockInv, Next PROVE LockInv'
<1>1. ASSUME NEW w \in Windows, WindowStep(w) PROVE LockInv'
  <2>1. UNCHANGED sidecar => sidecar' \in [Names -> {None} \cup {{k} : k \in Meta}]
    BY DEF LockInv, TypeInv
  <2>2. run[w].pc \in OnFile => run[w].n # 0
    BY <1>1 DEF LockInv, TypeInv, Run
  <2>3. CASE Find(w)
    BY <2>3, FindInv
  <2>4. CASE Open(w)
    BY <2>4, OpenInv
  <2>5. CASE OpenFails(w)
    BY <2>1, <2>5, StopInv DEF OpenFails
  <2>6. CASE \/ AnswerPartial(w) \/ AnswerWhole(w) \/ AnswerNoRange(w)
             \/ AnswerWrongRange(w) \/ AnswerRefused(w)
    BY <2>6, RequestInv
  <2>7. CASE Begin(w) \/ Preallocate(w)
    BY <2>7, BeginInv
  <2>8. CASE SaveSegmented(w)
    BY <2>8, SaveInv DEF SaveSegmented
  <2>9. CASE BeginFails(w)
    BY <2>1, <2>9, GoToInv DEF BeginFails, Holding, Places, OnFile
  <2>10. CASE Body(w)
    BY <2>10, BodyInv
  <2>11. CASE BodyEnds(w) \/ BodyFails(w)
    <3>1. PICK pc \in {"finish", "retry", "fatal"} : GoTo(w, pc)
      BY <2>11 DEF BodyEnds, BodyFails
    <3>2. run[w].pc = "body" /\ UNCHANGED <<file, sidecar, server>>
      BY <2>11 DEF BodyEnds, BodyFails
    <3>3. QED BY <2>1, <2>2, <3>1, <3>2, GoToInv DEF Holding, Places, OnFile
  <2>12. CASE Resume(w)
    BY <2>12, ResumeInv
  <2>13. CASE SegmentWrite(w)
    BY <2>13, SegmentWriteInv
  <2>14. CASE SegmentTick(w) \/ SegmentEnds(w)
    <3>1. PICK pc \in {"segmented", "finish", "retry", "restart", "fatal"} : Checkpoint(w, pc)
      BY <2>14 DEF SegmentTick, SegmentEnds
    <3>2. run[w].pc = "segmented" /\ UNCHANGED <<file, server>>
      BY <2>14 DEF SegmentTick, SegmentEnds
    <3>3. QED BY <3>1, <3>2, CheckpointInv
  <2>15. CASE Restart(w)
    BY <2>2, <2>15, TruncateInv DEF Restart, Holding, OnFile
  <2>16. CASE SaveRestarted(w)
    BY <2>16, SaveInv DEF SaveRestarted
  <2>17. CASE Retry(w)
    BY <2>17, RetryInv
  <2>18. CASE Fatal(w) \/ Cancel(w)
    <3>1. /\ Stop(w) /\ UNCHANGED server /\ run[w].pc \in Holding
          /\ \/ run[w].n # 0 /\ Discard(w)
             \/ file' = Unlocked(w) /\ UNCHANGED sidecar
      BY <2>18 DEF Fatal, Cancel, Holding
    <3>2. QED BY <3>1, DiscardInv, CloseInv
  <2>19. CASE Finish(w) \/ Rename(w) \/ Cleanup(w)
    BY <2>19, RenameInv
  <2>20. CASE Kill(w)
    BY <2>20, CloseInv DEF Kill
  <2>21. QED BY <1>1, <2>3, <2>4, <2>5, <2>6, <2>7, <2>8, <2>9, <2>10, <2>11, <2>12, <2>13,
                <2>14, <2>15, <2>16, <2>17, <2>18, <2>19, <2>20 DEF WindowStep
<1>2. ASSUME NEW s \in Servers, ServerChanges(s) PROVE LockInv'
  <2>1. UNCHANGED <<file, sidecar, run>>
    BY <1>2 DEF ServerChanges
  <2>2. server[s].ver \in Versions /\ server[s].ranges \in BOOLEAN
    BY DEF LockInv, TypeInv
  <2>3. \/ server' = [server EXCEPT ![s].ver = @ + 1] /\ server[s].ver + 1 \in Versions
        \/ server' = [server EXCEPT ![s].ranges = FALSE]
    BY <1>2, <2>2 DEF ServerChanges, Versions, ConstantsOK
  <2>4. server' \in [Servers -> [ver : Versions, ranges : BOOLEAN]]
    BY <2>3 DEF LockInv, TypeInv
  <2>5. TypeInv'
    BY <2>1, <2>4 DEF LockInv, TypeInv
  <2>6. QED BY <2>1, <2>5 DEF LockInv, HoldsItsFile, NobodyHoldsNothing
<1>3. QED BY <1>1, <1>2 DEF Next

LEMMA LocksHold == ASSUME ConstantsOK PROVE Spec => []LockInv
<1>1. Init => LockInv
  BY LockInit
<1>2. LockInv /\ [Next]_vars => LockInv'
  <2>1. ASSUME LockInv, UNCHANGED vars PROVE LockInv'
    BY <2>1 DEF vars, LockInv, TypeInv, HoldsItsFile, NobodyHoldsNothing
  <2>2. QED BY <2>1, NextLocks
<1>3. QED BY <1>1, <1>2, PTL DEF Spec

-----------------------------------------------------------------------------
\* Every variable keeps its type, whatever the windows do to one another's
\* files, and a sidecar lists holes inside its total only.
THEOREM FilesTyped == ASSUME ConstantsOK PROVE Spec => []TypeOK
<1>1. ASSUME LockInv PROVE TypeOK
  <2>1. ASSUME NEW n \in Names
        PROVE  /\ file[n].name \in {"none", "part", "final"}
               /\ file[n].data \in Seq(0 .. NVersions)
               /\ file[n].data = <<>> \/ \E size \in Sizes : Len(file[n].data) <= size
               /\ file[n].holder \in Windows \cup {Nobody}
    BY <1>1 DEF LockInv, TypeInv, File, Data
  <2>2. ASSUME NEW n \in Names
        PROVE  sidecar[n] = None \/ \E m \in sidecar[n] : IsMeta(m) /\ sidecar[n] = {m}
    BY <1>1 DEF LockInv, TypeInv, Meta
  <2>3. ASSUME NEW s \in Servers
        PROVE  server[s].ver \in Versions /\ server[s].ranges \in BOOLEAN
    BY <1>1 DEF LockInv, TypeInv
  <2>4. ASSUME NEW w \in Windows
        PROVE  run[w].pc \in Places /\ run[w].n \in 0 .. NNames /\ IsMeta(run[w].meta)
    BY <1>1 DEF LockInv, TypeInv, Run, Record, Meta
  <2>5. QED BY <2>1, <2>2, <2>3, <2>4 DEF TypeOK
<1>2. QED BY <1>1, LocksHold, PTL

\* Two windows never write to one file at a time: who writes holds the lock
\* (Dest::lock, downloads.rs), for any windows, names and faults.
THEOREM FilesHaveOneWriter == ASSUME ConstantsOK PROVE Spec => []OneWriter
<1>1. ASSUME LockInv PROVE OneWriter
  BY <1>1 DEF LockInv, HoldsItsFile, OneWriter, Writing, Holding
<1>2. QED BY <1>1, LocksHold, PTL

-----------------------------------------------------------------------------
(* What one window leaves behind. *)

OneWindow == \A v, w \in Windows : v = w
\* No kill and no lost save between the steps of a window.
Undisturbed == OneWindow /\ Faults \cap {"kill", "save"} = {}

\* The bytes that were never fetched are listed; a list goes with the length.
NoHole(d) == \A i \in 1 .. Len(d) : d[i] # 0
Listed(d, todo) == \A i \in 1 .. Len(d) : d[i] = 0 => \E b \in todo : i \in b
Truthful(m, d) == Listed(d, m.todo) /\ (m.todo # None => m.total = {Len(d)})
IsWhole(d) == NoHole(d) /\ \E v \in Versions : Len(d) = SizeOf[v]

\* A file while nobody is between two saves of its sidecar.
Resting(f, sc) ==
  /\ f.name = "part" => \E m \in Meta : sc = {m} /\ Truthful(m, f.data)
  /\ f.name = "final" => IsWhole(f.data)

\* A download and its file: what is kept in memory, and what is on disk.
Emptied(r, f, sc) == r.meta = NoMeta /\ f.data = <<>> /\ \A m \in sc : m.todo = None
Known(r, f, sc) == sc = {r.meta} \/ Emptied(r, f, sc)
Touching == Holding \cup {"open", "renaming"}
Working(r, f, sc) ==
  /\ r.pc \in Touching => f.name = "part"
  /\ r.pc \in {"open", "request", "retry", "fatal", "restart"} => Known(r, f, sc)
  /\ r.pc \in {"begin", "body"} =>
       r.meta.todo = None /\ NoHole(f.data) /\ \A m \in sc : m.todo = None
  /\ r.pc \in {"body", "segmented"} => sc = {r.meta}
  /\ r.pc = "sized" => Truthful(r.meta, f.data)
  /\ r.pc = "segmented" => Listed(f.data, {(UNION r.meta.todo) \ r.got})
  /\ r.pc = "truncated" => r.meta = NoMeta /\ f.data = <<>>
  /\ r.pc \in {"finish", "renaming"} => IsWhole(f.data)
  /\ r.pc = "cleanup" => f.name = "final"

Between == {"sized", "truncated"}
WholeInv ==
  /\ LockInv
  /\ \A w \in Windows :
       run[w].n # 0 => Working(run[w], file[run[w].n], sidecar[run[w].n])
  /\ \A n \in Names :
       (\A w \in Windows : run[w].n = n => run[w].pc \notin Between)
         => Resting(file[n], sidecar[n])

\* A step of the window touches one file.
LEMMA WholeStep ==
  ASSUME OneWindow, WholeInv, LockInv', NEW w \in Windows, NEW r, run' = [run EXCEPT ![w] = r],
         NEW n \in 0 .. NNames, r.n \in {0, n}, run[w].n \in {0, n},
         \A k \in Names : k # n =>
           /\ file'[k].name = file[k].name /\ file'[k].data = file[k].data
           /\ file[k].name = "part" => sidecar'[k] = sidecar[k],
         r.n # 0 => Working(r, file'[n], sidecar'[n]),
         n # 0 /\ (r.n = 0 \/ r.pc \notin Between) => Resting(file'[n], sidecar'[n])
  PROVE  WholeInv'
<1>1. run'[w] = r /\ \A v \in Windows : v = w
  BY DEF OneWindow, WholeInv, LockInv, TypeInv
<1>2. ASSUME NEW k \in Names, run'[w].n = k => run'[w].pc \notin Between
      PROVE  Resting(file'[k], sidecar'[k])
  <2>1. CASE k = n
    BY <1>1, <1>2, <2>1 DEF Names
  <2>2. CASE k # n
    <3>1. Resting(file[k], sidecar[k])
      BY <1>1, <2>2 DEF WholeInv, Names
    <3>2. QED BY <2>2, <3>1 DEF Resting
  <2>3. QED BY <2>1, <2>2
<1>3. QED BY <1>1, <1>2 DEF WholeInv

\* The window's own file, before a step.
LEMMA OwnFile ==
  ASSUME ConstantsOK, WholeInv, NEW w \in Windows, run[w].n # 0, OneWindow
  PROVE  /\ run[w].n \in Names /\ run[w].n \in 0 .. NNames
         /\ run[w].meta \in Meta
         /\ file[run[w].n].data \in Seq(0 .. NVersions)
         /\ Working(run[w], file[run[w].n], sidecar[run[w].n])
         /\ run[w].pc \notin Between => Resting(file[run[w].n], sidecar[run[w].n])
<1>1. /\ run[w].n \in Names /\ run[w].n \in 0 .. NNames /\ run[w].meta \in Meta
      /\ file[run[w].n].data \in Seq(0 .. NVersions)
  BY DEF WholeInv, LockInv, TypeInv, Run, Record, Names, File, Data
<1>2. QED BY <1>1 DEF WholeInv, OneWindow

\* Steps that leave the files alone: their names and bytes, at least.
LEMMA WholeQuiet ==
  ASSUME ConstantsOK, OneWindow, WholeInv, LockInv', NEW w \in Windows, NEW r,
         run' = [run EXCEPT ![w] = r], r.n \in {0, run[w].n},
         \A k \in Names : file'[k].name = file[k].name /\ file'[k].data = file[k].data,
         UNCHANGED sidecar, run[w].n = 0 \/ run[w].pc \notin Between,
         r.n # 0 => Working(r, file[r.n], sidecar[r.n])
  PROVE  WholeInv'
<1>1. run[w].n \in 0 .. NNames /\ (run[w].n # 0 => run[w].n \in Names)
  BY DEF WholeInv, LockInv, TypeInv, Run, Record, Names
<1>2. run[w].n # 0 => Resting(file'[run[w].n], sidecar'[run[w].n])
  BY <1>1, OwnFile DEF Resting
<1>3. r.n # 0 => Working(r, file'[run[w].n], sidecar'[run[w].n])
  BY <1>1 DEF Working, Known, Emptied
<1>4. QED BY <1>1, <1>2, <1>3, WholeStep

LEMMA WholeGoTo ==
  ASSUME ConstantsOK, OneWindow, WholeInv, LockInv', NEW w \in Windows, NEW pc, GoTo(w, pc),
         \A k \in Names : file'[k].name = file[k].name /\ file'[k].data = file[k].data,
         UNCHANGED sidecar, run[w].n = 0 \/ run[w].pc \notin Between,
         LET r == [run[w] EXCEPT !.pc = pc]
         IN  run[w].n # 0 => Working(r, file[run[w].n], sidecar[run[w].n])
  PROVE  WholeInv'
<1> DEFINE r == [run[w] EXCEPT !.pc = pc]
<1>1. run' = [run EXCEPT ![w] = r] /\ r.n = run[w].n
  BY DEF GoTo, WholeInv, LockInv, TypeInv, Run, Record
<1> HIDE DEF r
<1>2. run[w].n # 0 => Working(r, file[run[w].n], sidecar[run[w].n])
  BY DEF r
<1>3. QED BY <1>1, <1>2, WholeQuiet

LEMMA WholeStops ==
  ASSUME ConstantsOK, OneWindow, WholeInv, LockInv', NEW w \in Windows, Stop(w),
         \A k \in Names : file'[k].name = file[k].name /\ file'[k].data = file[k].data,
         UNCHANGED sidecar, run[w].pc \notin Between
  PROVE  WholeInv'
<1>1. run' = [run EXCEPT ![w] = Idle] /\ Idle.n = 0
  BY DEF Stop, Idle
<1>2. QED BY <1>1, WholeQuiet

LEMMA UnlockedSame ==
  ASSUME LockInv, NEW w \in Windows, NEW k \in Names
  PROVE  Unlocked(w)[k].name = file[k].name /\ Unlocked(w)[k].data = file[k].data
BY DEF Unlocked, LockInv, TypeInv, File

LEMMA WholeInit == ASSUME ConstantsOK, OneWindow, Init PROVE WholeInv
<1>1. LockInv BY LockInit
<1>2. \A w \in Windows : run[w].n = 0
  BY DEF Init, Idle
<1>3. \A n \in Names : file[n].name = "none"
  BY DEF Init, NoFile
<1>4. QED BY <1>1, <1>2, <1>3 DEF WholeInv, Resting

LEMMA WholeFind ==
  ASSUME ConstantsOK, OneWindow, WholeInv, LockInv', NEW w \in Windows, Find(w)
  PROVE  WholeInv'
<1>1. run[w].n = 0 /\ UNCHANGED file
  BY DEF Find, WholeInv, LockInv, TypeInv, Run
<1>2. \A n \in Names : Resting(file[n], sidecar[n])
  BY <1>1 DEF WholeInv, OneWindow, Names
<1>3. \A n \in Names : file[n].name = "part" => sidecar'[n] = sidecar[n] /\ sidecar[n] # None
  BY ZenonT(40), <1>2 DEF Find, Resting, WholeInv, LockInv, TypeInv, None
<1>4. CASE \E n \in Names : \E m \in sidecar[n] :
             /\ file[n].name = "part"
             /\ run' = [run EXCEPT ![w] = [Idle EXCEPT !.pc = "open", !.n = n, !.meta = m]]
  <2>1. PICK n \in Names : \E m \in sidecar[n] :
             /\ file[n].name = "part"
             /\ run' = [run EXCEPT ![w] = [Idle EXCEPT !.pc = "open", !.n = n, !.meta = m]]
    BY <1>4
  <2>2. PICK m \in sidecar[n] :
             /\ file[n].name = "part"
             /\ run' = [run EXCEPT ![w] = [Idle EXCEPT !.pc = "open", !.n = n, !.meta = m]]
    BY <2>1
  <2> DEFINE r == [Idle EXCEPT !.pc = "open", !.n = n, !.meta = m]
  <2>3. r.pc = "open" /\ r.n = n /\ r.meta = m
    BY DEF Idle
  <2>4. n \in 0 .. NNames
    BY DEF Names
  <2>5. sidecar[n] = {m} /\ sidecar'[n] = {m}
    BY <1>2, <1>3, <2>2 DEF Resting
  <2>6. Resting(file'[n], sidecar'[n])
    BY <1>1, <1>2, <2>5 DEF Resting
  <2>7. Working(r, file'[n], sidecar'[n])
    BY <1>1, <2>2, <2>3, <2>5 DEF Working, Known
  <2>8. run' = [run EXCEPT ![w] = r]
    BY <2>2
  <2> HIDE DEF r
  <2>9. \A k \in Names : k # n =>
          /\ file'[k].name = file[k].name /\ file'[k].data = file[k].data
          /\ file[k].name = "part" => sidecar'[k] = sidecar[k]
    BY <1>1, <1>3
  <2>10. r.n \in {0, n} /\ run[w].n \in {0, n}
    BY <1>1, <2>3
  <2>11. QED BY <2>4, <2>6, <2>7, <2>8, <2>9, <2>10, WholeStep
<1>5. CASE run' = [run EXCEPT ![w] = [Idle EXCEPT !.pc = "request"]]
  <2> DEFINE r == [Idle EXCEPT !.pc = "request"]
  <2>1. r.n = 0 /\ 0 \in 0 .. NNames
    BY DEF Idle, ConstantsOK
  <2>2. run' = [run EXCEPT ![w] = r]
    BY <1>5
  <2> HIDE DEF r
  <2>3. QED BY <1>1, <1>3, <2>1, <2>2, WholeStep
<1>6. QED BY <1>3, <1>4, <1>5 DEF Find

LEMMA WholeOpen ==
  ASSUME ConstantsOK, OneWindow, Undisturbed, WholeInv, LockInv', NEW w \in Windows, Open(w)
  PROVE  WholeInv'
<1> DEFINE n == run[w].n
           r == [run[w] EXCEPT !.pc = "request", !.from = IF NServers = 1 THEN {1} ELSE None]
<1>1. /\ run[w].pc = "open" /\ n # 0 /\ n \in Names /\ n \in 0 .. NNames /\ run[w].meta \in Meta
      /\ Working(run[w], file[n], sidecar[n]) /\ Resting(file[n], sidecar[n])
  BY OwnFile DEF Open, WholeInv, LockInv, TypeInv, Run, OnFile, Between
<1>2. sidecar' = [sidecar EXCEPT ![n] = {run[w].meta}]
  BY DEF Open, SaveMeta, Undisturbed
<1>3. \A k \in Names : file'[k].name = file[k].name /\ file'[k].data = file[k].data
  BY <1>1 DEF Open, WholeInv, LockInv, TypeInv, File
<1>4. sidecar'[n] = {run[w].meta} /\ \A k \in Names : k # n => sidecar'[k] = sidecar[k]
  BY <1>1, <1>2 DEF WholeInv, LockInv, TypeInv
<1>5. r.pc = "request" /\ r.n = n /\ r.meta = run[w].meta /\ run' = [run EXCEPT ![w] = r]
  BY DEF Open, WholeInv, LockInv, TypeInv, Run, Record
<1> HIDE DEF r
<1>6. file[n].name = "part" /\ Known(run[w], file[n], sidecar[n])
  BY <1>1 DEF Working, Touching
<1>7. Truthful(run[w].meta, file[n].data)
  <2>1. CASE sidecar[n] = {run[w].meta}
    BY <1>1, <1>6, <2>1 DEF Resting
  <2>2. CASE Emptied(run[w], file[n], sidecar[n])
    BY <2>2 DEF Emptied, Truthful, Listed, NoMeta
  <2>3. QED BY <1>6, <2>1, <2>2 DEF Known
<1>8. Working(r, file'[n], sidecar'[n])
  BY <1>1, <1>3, <1>4, <1>5, <1>6 DEF Working, Known
<1>9. Resting(file'[n], sidecar'[n])
  BY <1>1, <1>3, <1>4, <1>6, <1>7 DEF Resting
<1>10. \A k \in Names : k # n =>
         /\ file'[k].name = file[k].name /\ file'[k].data = file[k].data
         /\ file[k].name = "part" => sidecar'[k] = sidecar[k]
  BY <1>3, <1>4
<1>11. r.n \in {0, n} /\ run[w].n \in {0, n} /\ run' = [run EXCEPT ![w] = r]
  BY <1>5
<1> HIDE DEF n
<1>12. QED BY <1>1, <1>8, <1>9, <1>10, <1>11, WholeStep

\* A window that asks for bytes: its file has no holes.
LEMMA Asking ==
  ASSUME ConstantsOK, OneWindow, WholeInv, NEW w \in Windows, Requesting(w), run[w].n # 0
  PROVE  LET f == file[run[w].n] IN LET sc == sidecar[run[w].n] IN
         /\ f.name = "part" /\ NoHole(f.data) /\ \A m \in sc : m.todo = None
         /\ Known(run[w], f, sc) /\ run[w].meta.todo = None
<1> DEFINE f == file[run[w].n]
           sc == sidecar[run[w].n]
<1>1. /\ f.name = "part" /\ Known(run[w], f, sc) /\ Resting(f, sc) /\ run[w].meta.todo = None
  BY OwnFile DEF Requesting, Segmented, Working, Touching, Holding, Between
<1> HIDE DEF f, sc
<1>2. PICK m \in Meta : sc = {m} /\ Truthful(m, f.data)
  BY <1>1 DEF Resting
<1>3. m.todo = None
  BY <1>1, <1>2 DEF Known, Emptied
<1>4. NoHole(f.data)
  BY <1>2, <1>3 DEF Truthful, Listed, NoHole, None
<1>5. QED BY <1>1, <1>2, <1>3, <1>4 DEF f, sc

\* The file starts over.
LEMMA WholeTruncate ==
  ASSUME ConstantsOK, OneWindow, WholeInv, LockInv', NEW w \in Windows,
         NEW pc \in {"retry", "truncated"}, Truncate(w, pc), run[w].n # 0,
         run[w].pc \notin Between, UNCHANGED sidecar, file[run[w].n].name = "part",
         pc = "retry" => \A m \in sidecar[run[w].n] : m.todo = None
  PROVE  WholeInv'
<1> DEFINE n == run[w].n
           r == [run[w] EXCEPT !.pc = pc, !.meta = NoMeta, !.got = {}]
<1>1. /\ n \in Names /\ n \in 0 .. NNames /\ Resting(file[n], sidecar[n])
  BY OwnFile
<1>2. r.pc = pc /\ r.n = n /\ r.meta = NoMeta /\ run' = [run EXCEPT ![w] = r]
  BY DEF Truncate, WholeInv, LockInv, TypeInv, Run, Record
<1>3. \A k \in Names : /\ file'[k].name = file[k].name
                       /\ file'[k].data = (IF k = n THEN <<>> ELSE file[k].data)
  BY <1>1 DEF Truncate, Write, WholeInv, LockInv, TypeInv, File
<1> HIDE DEF r
<1>4. Working(r, file'[n], sidecar'[n])
  BY <1>1, <1>2, <1>3 DEF Working, Known, Emptied, Touching
<1>5. pc = "retry" => Resting(file'[n], sidecar'[n])
  <2>1. SUFFICES ASSUME pc = "retry" PROVE Resting(file'[n], sidecar'[n])
    OBVIOUS
  <2>2. PICK m \in Meta : sidecar[n] = {m}
    BY <1>1 DEF Resting
  <2>3. Truthful(m, <<>>)
    BY <2>1, <2>2 DEF Truthful, Listed
  <2>4. QED BY <1>1, <1>3, <2>2, <2>3 DEF Resting
<1>6. \A k \in Names : k # n =>
        /\ file'[k].name = file[k].name /\ file'[k].data = file[k].data
        /\ file[k].name = "part" => sidecar'[k] = sidecar[k]
  BY <1>3
<1>7. r.n \in {0, n} /\ run[w].n \in {0, n} /\ run' = [run EXCEPT ![w] = r]
  BY <1>2
<1>8. r.n # 0 /\ (r.pc \notin Between => Resting(file'[n], sidecar'[n]))
  BY <1>2, <1>5 DEF Between
<1> HIDE DEF n
<1>9. QED BY <1>1, <1>4, <1>6, <1>7, <1>8, WholeStep

\* What asking for bytes leaves to prove: the download's next record.
LEMMA WholeAnswered ==
  ASSUME ConstantsOK, OneWindow, WholeInv, LockInv', NEW w \in Windows, Requesting(w),
         NEW status, run' = [run EXCEPT ![w] = Answered(w, status)],
         UNCHANGED <<file, sidecar>>
  PROVE  WholeInv'
<1> DEFINE r == Answered(w, status)
<1>1. r.pc = "begin" /\ r.n = run[w].n /\ r.meta = run[w].meta
  BY DEF Answered, WholeInv, LockInv, TypeInv, Run, Record
<1>2. run' = [run EXCEPT ![w] = r] /\ run[w].pc \notin Between
  BY DEF Requesting, Between
<1> HIDE DEF r
<1>3. r.n # 0 => Working(r, file[r.n], sidecar[r.n])
  BY <1>1, Asking DEF Working
<1>4. QED BY <1>1, <1>2, <1>3, WholeQuiet

LEMMA WholeAnswerWhole ==
  ASSUME ConstantsOK, OneWindow, WholeInv, LockInv', NEW w \in Windows, AnswerWhole(w)
  PROVE  WholeInv'
<1>1. CASE ~(Offset(w) > 0)
  BY <1>1, WholeAnswered DEF AnswerWhole
<1>2. CASE Offset(w) > 0
  <2> DEFINE n == run[w].n
             r == [Answered(w, 200) EXCEPT !.meta = NoMeta]
  <2>1. Requesting(w) /\ n # 0 /\ UNCHANGED sidecar
    BY <1>2 DEF AnswerWhole, Offset
  <2>2. /\ n \in Names /\ n \in 0 .. NNames /\ file[n].name = "part"
        /\ Resting(file[n], sidecar[n]) /\ \A m \in sidecar[n] : m.todo = None
    BY <2>1, OwnFile, Asking DEF Requesting, Between
  <2>3. r.pc = "begin" /\ r.n = n /\ r.meta = NoMeta /\ run' = [run EXCEPT ![w] = r]
    BY <1>2 DEF AnswerWhole, Answered, WholeInv, LockInv, TypeInv, Run, Record
  <2>4. \A k \in Names : /\ file'[k].name = file[k].name
                         /\ file'[k].data = (IF k = n THEN <<>> ELSE file[k].data)
    BY <1>2, <2>2 DEF AnswerWhole, Write, WholeInv, LockInv, TypeInv, File
  <2> HIDE DEF r
  <2>5. Working(r, file'[n], sidecar'[n])
    BY <2>1, <2>2, <2>3, <2>4 DEF Working, NoHole, NoMeta
  <2>6. PICK m \in Meta : sidecar[n] = {m} /\ m.todo = None
    BY <2>2 DEF Resting
  <2>7. Truthful(m, <<>>)
    BY <2>6 DEF Truthful, Listed
  <2>8. Resting(file'[n], sidecar'[n])
    BY <2>1, <2>2, <2>4, <2>6, <2>7 DEF Resting
  <2>9. \A k \in Names : k # n =>
          /\ file'[k].name = file[k].name /\ file'[k].data = file[k].data
          /\ file[k].name = "part" => sidecar'[k] = sidecar[k]
    BY <2>1, <2>4
  <2>10. r.n \in {0, n} /\ run[w].n \in {0, n} /\ run' = [run EXCEPT ![w] = r]
    BY <2>3
  <2> HIDE DEF n
  <2>11. QED BY <2>2, <2>5, <2>8, <2>9, <2>10, WholeStep
<1>3. QED BY <1>1, <1>2

\* Nothing after our bytes, and their number agrees: they are a version.
LEMMA WholeAnswerNoRange ==
  ASSUME ConstantsOK, OneWindow, WholeInv, LockInv', NEW w \in Windows, AnswerNoRange(w)
  PROVE  WholeInv'
<1> DEFINE n == run[w].n
<1>1. /\ Requesting(w) /\ n # 0 /\ UNCHANGED sidecar /\ run[w].pc \notin Between
      /\ run[w].pc = "request"
  BY DEF AnswerNoRange, Offset, Requesting, Between
<1>2. /\ n \in Names /\ file[n].name = "part" /\ NoHole(file[n].data)
      /\ \A m \in sidecar[n] : m.todo = None
      /\ run[w].meta \in Meta /\ file[n].data \in Seq(0 .. NVersions)
  BY <1>1, OwnFile, Asking
<1>3. CASE Truncate(w, "retry")
  BY <1>1, <1>2, <1>3, WholeTruncate
<1>4. CASE /\ GoTo(w, "finish") /\ UNCHANGED file
           /\ {Offset(w)} = {SizeOf[Asked(w).ver]} \/ {Offset(w)} = run[w].meta.total
  <2>1. Asked(w).ver \in Versions
    BY DEF Asked, WholeInv, LockInv, TypeInv, Run, Record
  <2>2. \E v \in Versions : Len(file[n].data) = SizeOf[v]
    BY <1>1, <1>2, <1>4, <2>1 DEF Offset, Meta, IsMeta, Options, Sizes, None
  <2>3. IsWhole(file[n].data)
    BY <1>2, <2>2 DEF IsWhole
  <2> DEFINE r == [run[w] EXCEPT !.pc = "finish"]
  <2>4. r.pc = "finish"
    BY DEF WholeInv, LockInv, TypeInv, Run, Record
  <2> HIDE DEF r
  <2>5. Working(r, file[n], sidecar[n])
    BY <1>2, <2>3, <2>4 DEF Working
  <2>6. QED BY <1>1, <1>4, <2>5, WholeGoTo DEF r
<1>5. QED BY <1>1, <1>3, <1>4 DEF AnswerNoRange

\* Failures that only change where a download is.
LEMMA WholeGivesUp ==
  ASSUME ConstantsOK, OneWindow, WholeInv, LockInv', NEW w \in Windows,
         NEW pc \in {"retry", "fatal"}, GoTo(w, pc), UNCHANGED <<file, sidecar>>,
         run[w].pc \in {"request", "begin", "body", "segmented"},
         run[w].n = 0 \/ (/\ file[run[w].n].name = "part"
                          /\ Known(run[w], file[run[w].n], sidecar[run[w].n]))
  PROVE  WholeInv'
<1> DEFINE r == [run[w] EXCEPT !.pc = pc]
<1>1. r.pc = pc /\ r.meta = run[w].meta
  BY DEF WholeInv, LockInv, TypeInv, Run, Record
<1> HIDE DEF r
<1>2. run[w].n # 0 => Working(r, file[run[w].n], sidecar[run[w].n])
  BY <1>1 DEF Working, Known, Emptied
<1>3. QED BY <1>2, WholeGoTo DEF r, Between

LEMMA WholeAnswerWrongRange ==
  ASSUME ConstantsOK, OneWindow, WholeInv, LockInv', NEW w \in Windows, AnswerWrongRange(w)
  PROVE  WholeInv'
<1>1. CASE run[w].n = 0
  BY <1>1, WholeGivesUp DEF AnswerWrongRange, Requesting
<1>2. CASE run[w].n # 0
  BY <1>2, Asking, WholeTruncate DEF AnswerWrongRange, Requesting, Between
<1>3. QED BY <1>1, <1>2

LEMMA WholeAnswerRefused ==
  ASSUME ConstantsOK, OneWindow, WholeInv, LockInv', NEW w \in Windows, AnswerRefused(w)
  PROVE  WholeInv'
<1>1. Requesting(w) /\ run[w].pc = "request" /\ UNCHANGED <<file, sidecar>>
  BY DEF AnswerRefused, Requesting
<1>2. run[w].n # 0 => /\ file[run[w].n].name = "part"
                      /\ Known(run[w], file[run[w].n], sidecar[run[w].n])
  BY <1>1, Asking
<1>3. QED BY <1>1, <1>2, WholeGivesUp DEF AnswerRefused

\* The file a body goes into, from nothing or from what was there: no holes.
LEMMA Destined ==
  ASSUME ConstantsOK, OneWindow, WholeInv, NEW w \in Windows, run[w].pc = "begin",
         NEW n \in Destination(w)
  PROVE  /\ n \in Names /\ n \in 0 .. NNames /\ run[w].n \in {0, n}
         /\ Created(w, n) \in File /\ Created(w, n).name = "part"
         /\ NoHole(Created(w, n).data) /\ Len(Created(w, n).data) = Offset(w)
<1>1. n \in Names /\ Created(w, n) \in File
  BY CreatedTyped DEF Holding, WholeInv
<1>2. n \in 0 .. NNames
  BY <1>1 DEF Names
<1>3. CASE run[w].n # 0
  <2>1. n = run[w].n /\ Created(w, n) = file[n] /\ Len(file[n].data) = Offset(w)
    BY <1>3 DEF Destination, Created, Offset
  <2>2. Working(run[w], file[n], sidecar[n])
    BY <1>3, <2>1, OwnFile
  <2>3. file[n].name = "part" /\ NoHole(file[n].data)
    BY <2>2 DEF Working, Touching, Holding
  <2>4. QED BY <1>1, <1>2, <2>1, <2>3
<1>4. CASE run[w].n = 0
  <2>1. Created(w, n) = [name |-> "part", data |-> <<>>, holder |-> w] /\ Offset(w) = 0
    BY <1>4 DEF Created, Offset
  <2>2. QED BY <1>1, <1>2, <1>4, <2>1 DEF NoHole
<1>5. QED BY <1>3, <1>4

LEMMA WholeBegin ==
  ASSUME ConstantsOK, OneWindow, Undisturbed, WholeInv, LockInv', NEW w \in Windows, Begin(w)
  PROVE  WholeInv'
<1>1. PICK n \in Destination(w), total \in Totals(w) :
        /\ file' = [file EXCEPT ![n] = Created(w, n)]
        /\ run' = [run EXCEPT ![w] =
                     [@ EXCEPT !.pc = "body", !.n = n, !.meta = MetaOf(w, total),
                               !.from = {run[w].idx}]]
        /\ SaveMeta(n, MetaOf(w, total))
  BY DEF Begin
<1> DEFINE m == MetaOf(w, total)
           r == [run[w] EXCEPT !.pc = "body", !.n = n, !.meta = m, !.from = {run[w].idx}]
           f == Created(w, n)
<1>2. /\ n \in Names /\ n \in 0 .. NNames /\ run[w].n \in {0, n}
      /\ f.name = "part" /\ NoHole(f.data)
  BY Destined DEF Begin
<1>3. m \in Meta /\ m.todo = None
  <2>1. Offset(w) \in Nat /\ run[w].ver \in Versions
    BY OffsetNat DEF Begin, WholeInv, LockInv, TypeInv, Run
  <2>2. QED BY <2>1, MetaOfTyped DEF MetaOf
<1>4. r.pc = "body" /\ r.n = n /\ r.meta = m /\ run' = [run EXCEPT ![w] = r]
  BY <1>1 DEF WholeInv, LockInv, TypeInv, Run, Record
<1>5. sidecar' = [sidecar EXCEPT ![n] = {m}]
  BY <1>1 DEF SaveMeta, Undisturbed
<1> HIDE DEF m, r
<1>6. /\ file'[n] = f /\ sidecar'[n] = {m}
      /\ \A k \in Names : k # n => file'[k] = file[k] /\ sidecar'[k] = sidecar[k]
  BY <1>1, <1>2, <1>5 DEF WholeInv, LockInv, TypeInv
<1> HIDE DEF f
<1>7. Working(r, file'[n], sidecar'[n])
  BY <1>2, <1>3, <1>4, <1>6 DEF Working
<1>8. Truthful(m, f.data)
  BY <1>2, <1>3 DEF Truthful, Listed, NoHole
<1>9. Resting(file'[n], sidecar'[n])
  BY <1>2, <1>3, <1>6, <1>8 DEF Resting
<1>10. \A k \in Names : k # n =>
         /\ file'[k].name = file[k].name /\ file'[k].data = file[k].data
         /\ file[k].name = "part" => sidecar'[k] = sidecar[k]
  BY <1>6
<1>11. r.n \in {0, n}
  BY <1>4
<1>12. QED BY <1>2, <1>4, <1>7, <1>9, <1>10, <1>11, WholeStep

\* The holes of a file preallocated for segments are what was not there.
LEMMA WholePreallocate ==
  ASSUME ConstantsOK, OneWindow, WholeInv, LockInv', NEW w \in Windows, Preallocate(w)
  PROVE  WholeInv'
<1>0. PICK n \in Destination(w), total \in Totals(w) :
        /\ Splits(w, total)
        /\ \E t \in total :
             /\ file' = [file EXCEPT ![n] = [Created(w, n) EXCEPT !.data = SetLen(@, t)]]
             /\ run' = [run EXCEPT ![w] =
                  [@ EXCEPT !.pc = "sized", !.n = n, !.from = {run[w].idx},
                     !.meta = [MetaOf(w, total) EXCEPT !.todo = {(Offset(w) + 1) .. t}]]]
  BY DEF Preallocate
<1>1. PICK t \in total :
        /\ file' = [file EXCEPT ![n] = [Created(w, n) EXCEPT !.data = SetLen(@, t)]]
        /\ run' = [run EXCEPT ![w] =
             [@ EXCEPT !.pc = "sized", !.n = n, !.from = {run[w].idx},
                !.meta = [MetaOf(w, total) EXCEPT !.todo = {(Offset(w) + 1) .. t}]]]
  BY <1>0
<1> DEFINE m == [MetaOf(w, total) EXCEPT !.todo = {(Offset(w) + 1) .. t}]
           r == [run[w] EXCEPT !.pc = "sized", !.n = n, !.from = {run[w].idx}, !.meta = m]
           c == Created(w, n)
<1>2. /\ n \in Names /\ n \in 0 .. NNames /\ run[w].n \in {0, n}
      /\ c \in File /\ c.name = "part" /\ NoHole(c.data) /\ Len(c.data) = Offset(w)
  BY Destined DEF Preallocate
<1>3. total = {t} /\ t \in Sizes /\ t \in Nat /\ UNCHANGED sidecar
  <2>1. run[w].ver \in Versions
    BY DEF Preallocate, WholeInv, LockInv, TypeInv, Run
  <2>2. SizeOf[run[w].ver] \in Sizes
    BY <2>1 DEF Sizes
  <2>3. QED BY <1>0, <2>2, SizeNat DEF Preallocate, Totals, Splits, None
<1>4. m.todo = {(Offset(w) + 1) .. t} /\ m.total = {t}
  BY <1>3 DEF MetaOf
<1>5. r.pc = "sized" /\ r.n = n /\ r.meta = m /\ run' = [run EXCEPT ![w] = r]
  BY <1>1 DEF WholeInv, LockInv, TypeInv, Run, Record
<1> HIDE DEF m, r
<1>6. /\ file'[n].name = "part" /\ file'[n].data = SetLen(c.data, t)
      /\ \A k \in Names : k # n => file'[k] = file[k]
  BY <1>1, <1>2 DEF WholeInv, LockInv, TypeInv, File
<1> HIDE DEF c
<1>7. c.data \in Seq(0 .. NVersions)
  BY <1>2 DEF File, Data
<1>8. Truthful(m, SetLen(c.data, t))
  <2>1. /\ Len(SetLen(c.data, t)) = t
        /\ \A i \in 1 .. t : SetLen(c.data, t)[i] = IF i <= Len(c.data) THEN c.data[i] ELSE 0
    BY <1>3, <1>7, SetLenData
  <2>2. ASSUME NEW i \in 1 .. t, SetLen(c.data, t)[i] = 0 PROVE i \in (Offset(w) + 1) .. t
    <3>1. ~(i <= Len(c.data))
      BY <1>2, <1>7, <2>1, <2>2 DEF NoHole
    <3>2. Offset(w) \in Nat
      BY OffsetNat DEF WholeInv
    <3>3. QED BY <1>2, <1>3, <3>1, <3>2
  <2>3. QED BY <1>4, <2>1, <2>2 DEF Truthful, Listed
<1>9. Working(r, file'[n], sidecar'[n])
  BY <1>5, <1>6, <1>8 DEF Working
<1>10. \A k \in Names : k # n =>
         /\ file'[k].name = file[k].name /\ file'[k].data = file[k].data
         /\ file[k].name = "part" => sidecar'[k] = sidecar[k]
  BY <1>3, <1>6
<1>11. r.n \in {0, n} /\ n # 0 /\ r.n # 0 /\ r.pc \in Between
  BY <1>2, <1>5 DEF Between, Names
<1>12. QED BY <1>2, <1>5, <1>9, <1>10, <1>11, WholeStep

LEMMA WholeBeginFails ==
  ASSUME ConstantsOK, OneWindow, WholeInv, LockInv', NEW w \in Windows, BeginFails(w)
  PROVE  WholeInv'
<1>1. run[w].n = 0
  BY DEF BeginFails, Destination
<1>2. QED BY <1>1, WholeGivesUp DEF BeginFails

LEMMA WholeBody ==
  ASSUME ConstantsOK, OneWindow, WholeInv, LockInv', NEW w \in Windows, Body(w)
  PROVE  WholeInv'
<1> DEFINE n == run[w].n
           r == run[w]
           d == file[n].data
           e == Append(d, run[w].ver)
<1>1. /\ r.pc = "body" /\ n # 0 /\ r.ver \in Versions /\ UNCHANGED <<sidecar, run>>
      /\ file' = [file EXCEPT ![n].data = e]
  BY DEF Body, Write, WholeInv, LockInv, TypeInv, Run, OnFile
<1>2. /\ n \in Names /\ n \in 0 .. NNames /\ file[n].name = "part" /\ NoHole(d)
      /\ r.meta \in Meta /\ r.meta.todo = None /\ sidecar[n] = {r.meta}
      /\ d \in Seq(0 .. NVersions)
  BY <1>1, OwnFile DEF Working, Touching, Holding
<1>3. NoHole(e)
  <2>1. r.ver # 0 /\ r.ver \in Nat
    BY <1>1 DEF Versions
  <2>2. Len(e) = Len(d) + 1 /\ Len(d) \in Nat
    BY <1>2, <2>1
  <2>3. ASSUME NEW i \in 1 .. Len(e) PROVE e[i] # 0
    <3>1. CASE i = Len(e)
      <4>1. e[Len(d) + 1] = r.ver
        BY <1>2
      <4>2. QED BY <2>1, <2>2, <3>1, <4>1
    <3>2. CASE i # Len(e)
      <4>1. i \in 1 .. Len(d) /\ e[i] = d[i]
        BY <1>2, <2>2, <3>2
      <4>2. QED BY <1>2, <4>1 DEF NoHole
    <3>3. QED BY <3>1, <3>2
  <2>4. QED BY <2>3 DEF NoHole
<1>4. \A k \in Names : /\ file'[k].name = file[k].name
                       /\ file'[k].data = (IF k = n THEN e ELSE file[k].data)
  BY <1>1, <1>2 DEF WholeInv, LockInv, TypeInv, File
<1>5. run' = [run EXCEPT ![w] = r] /\ r.n \in {0, n} /\ run[w].n \in {0, n}
  BY <1>1 DEF WholeInv, LockInv, TypeInv
<1> HIDE DEF r, d, e
<1>6. Working(r, file'[n], sidecar'[n])
  BY <1>1, <1>2, <1>3, <1>4 DEF Working
<1>7. Resting(file'[n], sidecar'[n])
  BY <1>1, <1>2, <1>3, <1>4 DEF Resting, Truthful, Listed, NoHole
<1>8. \A k \in Names : k # n =>
        /\ file'[k].name = file[k].name /\ file'[k].data = file[k].data
        /\ file[k].name = "part" => sidecar'[k] = sidecar[k]
  BY <1>1, <1>4
<1> HIDE DEF n
<1>9. QED BY <1>2, <1>5, <1>6, <1>7, <1>8, WholeStep

LEMMA WholeBodyEnds ==
  ASSUME ConstantsOK, OneWindow, WholeInv, LockInv', NEW w \in Windows, BodyEnds(w)
  PROVE  WholeInv'
<1> DEFINE n == run[w].n
           r == [run[w] EXCEPT !.pc = "finish"]
<1>1. /\ run[w].pc = "body" /\ n # 0 /\ run[w].ver \in Versions
      /\ Len(file[n].data) = SizeOf[run[w].ver]
  BY DEF BodyEnds, Offset, WholeInv, LockInv, TypeInv, Run, OnFile
<1>2. file[n].name = "part" /\ IsWhole(file[n].data)
  BY <1>1, OwnFile DEF Working, Touching, Holding, IsWhole
<1>3. r.pc = "finish"
  BY DEF WholeInv, LockInv, TypeInv, Run, Record
<1> HIDE DEF r
<1>4. Working(r, file[n], sidecar[n])
  BY <1>2, <1>3 DEF Working
<1>5. QED BY <1>1, <1>4, WholeGoTo DEF BodyEnds, Between, r

LEMMA WholeBodyFails ==
  ASSUME ConstantsOK, OneWindow, WholeInv, LockInv', NEW w \in Windows, BodyFails(w)
  PROVE  WholeInv'
<1>1. run[w].pc = "body" /\ run[w].n # 0
  BY DEF BodyFails, WholeInv, LockInv, TypeInv, Run, OnFile
<1>2. file[run[w].n].name = "part" /\ Known(run[w], file[run[w].n], sidecar[run[w].n])
  BY <1>1, OwnFile DEF Working, Touching, Holding, Known
<1>3. QED BY <1>1, <1>2, WholeGivesUp DEF BodyFails

LEMMA WholeSaveSegmented ==
  ASSUME ConstantsOK, OneWindow, Undisturbed, WholeInv, LockInv', NEW w \in Windows,
         SaveSegmented(w)
  PROVE  WholeInv'
<1> DEFINE n == run[w].n
           r == [run[w] EXCEPT !.pc = "segmented"]
<1>1. run[w].pc = "sized" /\ n # 0 /\ run[w].got = {} /\ UNCHANGED file
  BY DEF SaveSegmented, WholeInv, LockInv, TypeInv, Run, OnFile
<1>2. /\ n \in Names /\ n \in 0 .. NNames /\ run[w].meta \in Meta
      /\ file[n].name = "part" /\ Truthful(run[w].meta, file[n].data)
  BY <1>1, OwnFile DEF Working, Touching, Holding
<1>3. sidecar' = [sidecar EXCEPT ![n] = {run[w].meta}]
  BY DEF SaveSegmented, SaveMeta, Undisturbed
<1>4. sidecar'[n] = {run[w].meta} /\ \A k \in Names : k # n => sidecar'[k] = sidecar[k]
  BY <1>2, <1>3 DEF WholeInv, LockInv, TypeInv
<1>5. /\ r.pc = "segmented" /\ r.n = n /\ r.meta = run[w].meta /\ r.got = {}
      /\ run' = [run EXCEPT ![w] = r]
  BY <1>1 DEF SaveSegmented, GoTo, WholeInv, LockInv, TypeInv, Run, Record
<1> HIDE DEF r
<1>6. Listed(file[n].data, {(UNION r.meta.todo) \ r.got})
  BY <1>2, <1>5 DEF Truthful, Listed
<1>7. Working(r, file'[n], sidecar'[n])
  BY <1>1, <1>2, <1>4, <1>5, <1>6 DEF Working
<1>8. Resting(file'[n], sidecar'[n])
  BY <1>1, <1>2, <1>4 DEF Resting
<1>9. \A k \in Names : k # n =>
        /\ file'[k].name = file[k].name /\ file'[k].data = file[k].data
        /\ file[k].name = "part" => sidecar'[k] = sidecar[k]
  BY <1>1, <1>4
<1>10. r.n \in {0, n} /\ run[w].n \in {0, n}
  BY <1>5
<1> HIDE DEF n
<1>11. QED BY <1>2, <1>5, <1>7, <1>8, <1>9, <1>10, WholeStep

\* A file whose holes are all filled has the size its sidecar gives.
LEMMA FilledIsWhole ==
  ASSUME ConstantsOK, NEW m \in Meta, NEW d \in Seq(0 .. NVersions), m.total = {Len(d)},
         NoHole(d)
  PROVE  IsWhole(d)
<1>1. m.total \in Options(Sizes)
  BY DEF Meta, IsMeta
<1>2. \E v \in Versions : Len(d) = SizeOf[v]
  BY <1>1 DEF Options, Sizes, None
<1>3. QED BY <1>2 DEF IsWhole

LEMMA WholeResume ==
  ASSUME ConstantsOK, OneWindow, WholeInv, LockInv', NEW w \in Windows, Resume(w)
  PROVE  WholeInv'
<1> DEFINE n == run[w].n
<1>1. /\ run[w].pc = "request" /\ run[w].meta.todo # None /\ n # 0 /\ run[w].got = {}
      /\ UNCHANGED sidecar
  BY DEF Resume, Segmented, WholeInv, LockInv, TypeInv, Run
<1>2. /\ run[w].meta \in Meta /\ file[n].data \in Seq(0 .. NVersions)
      /\ file[n].name = "part" /\ Known(run[w], file[n], sidecar[n])
      /\ Resting(file[n], sidecar[n])
  BY <1>1, OwnFile DEF Working, Touching, Holding, Between
<1>3. sidecar[n] = {run[w].meta} /\ Truthful(run[w].meta, file[n].data)
  BY SMTT(30), <1>1, <1>2 DEF Known, Emptied, NoMeta, Resting
<1>4. /\ run[w].meta.total = {Len(file[n].data)}
      /\ Listed(file[n].data, run[w].meta.todo)
  BY <1>1, <1>3 DEF Truthful
<1>5. CASE Missing(w) = {} /\ GoTo(w, "finish") /\ UNCHANGED file
  <2> DEFINE r == [run[w] EXCEPT !.pc = "finish"]
  <2>1. NoHole(file[n].data)
    BY <1>4, <1>5 DEF Missing, Listed, NoHole
  <2>2. IsWhole(file[n].data)
    BY <1>2, <1>4, <2>1, FilledIsWhole
  <2>3. r.pc = "finish"
    BY DEF WholeInv, LockInv, TypeInv, Run, Record
  <2> HIDE DEF r
  <2>4. Working(r, file[n], sidecar[n])
    BY <1>2, <2>2, <2>3 DEF Working
  <2>5. QED BY <1>1, <1>5, <2>4, WholeGoTo DEF Between, r
<1>6. CASE GoTo(w, "segmented") /\ UNCHANGED file
  <2> DEFINE r == [run[w] EXCEPT !.pc = "segmented"]
  <2>1. r.pc = "segmented" /\ r.meta = run[w].meta /\ r.got = {}
    BY <1>1 DEF WholeInv, LockInv, TypeInv, Run, Record
  <2> HIDE DEF r
  <2>2. Listed(file[n].data, {(UNION r.meta.todo) \ r.got})
    BY <1>4, <2>1 DEF Listed
  <2>3. Working(r, file[n], sidecar[n])
    BY <1>2, <1>3, <2>1, <2>2 DEF Working
  <2>4. QED BY <1>1, <1>6, <2>3, WholeGoTo DEF Between, r
<1>7. Len(file[n].data) \in Nat
  BY <1>2
<1>8. QED BY <1>2, <1>4, <1>5, <1>6, <1>7 DEF Resume

LEMMA WholeSegmentWrite ==
  ASSUME ConstantsOK, OneWindow, WholeInv, LockInv', NEW w \in Windows, SegmentWrite(w)
  PROVE  WholeInv'
<1> DEFINE n == run[w].n
           d == file[n].data
<1>1. PICK b \in Missing(w) \ run[w].got, s \in Serving(w) :
        /\ file' = [file EXCEPT ![n].data[b] = server[s].ver]
        /\ run' = [run EXCEPT ![w].got = @ \cup {b}]
  BY DEF SegmentWrite
<1> DEFINE r == [run[w] EXCEPT !.got = run[w].got \cup {b}]
           e == [d EXCEPT ![b] = server[s].ver]
<1>2. run[w].pc = "segmented" /\ n # 0 /\ UNCHANGED sidecar /\ server[s].ver \in Versions
  BY DEF SegmentWrite, Serving, WholeInv, LockInv, TypeInv, Run, OnFile
<1>3. /\ n \in Names /\ n \in 0 .. NNames /\ run[w].meta \in Meta /\ d \in Seq(0 .. NVersions)
      /\ file[n].name = "part" /\ sidecar[n] = {run[w].meta} /\ Resting(file[n], sidecar[n])
      /\ Listed(d, {Missing(w) \ run[w].got})
  BY <1>2, OwnFile DEF Working, Touching, Holding, Between, Missing
<1>4. Truthful(run[w].meta, d)
  BY <1>3 DEF Resting
<1>5. /\ r.pc = "segmented" /\ r.n = n /\ r.meta = run[w].meta /\ r.got = run[w].got \cup {b}
      /\ run' = [run EXCEPT ![w] = r]
  BY <1>1, <1>2 DEF WholeInv, LockInv, TypeInv, Run, Record
<1>6. \A k \in Names : /\ file'[k].name = file[k].name
                       /\ file'[k].data = (IF k = n THEN e ELSE file[k].data)
  BY <1>1, <1>3 DEF WholeInv, LockInv, TypeInv, File
<1>7. /\ Len(e) = Len(d)
      /\ \A i \in 1 .. Len(d) : e[i] = (IF i = b THEN server[s].ver ELSE d[i])
  BY <1>3
<1>8. server[s].ver # 0
  BY <1>2 DEF Versions
<1> HIDE DEF r, e, d
<1>9. Listed(e, {Missing(w) \ (run[w].got \cup {b})})
  BY <1>3, <1>7, <1>8 DEF Listed
<1>10. Truthful(run[w].meta, e)
  BY <1>4, <1>7, <1>8 DEF Truthful, Listed
<1>11. file'[n].name = "part" /\ file'[n].data = e
  BY <1>3, <1>6
<1>12. Working(r, file'[n], sidecar'[n])
  BY <1>2, <1>3, <1>5, <1>9, <1>11 DEF Working, Missing
<1>13. Resting(file'[n], sidecar'[n])
  BY <1>2, <1>3, <1>10, <1>11 DEF Resting
<1>14. \A k \in Names : k # n =>
         /\ file'[k].name = file[k].name /\ file'[k].data = file[k].data
         /\ file[k].name = "part" => sidecar'[k] = sidecar[k]
  BY <1>2, <1>6
<1>15. r.n \in {0, n} /\ run[w].n \in {0, n}
  BY <1>5
<1> HIDE DEF n
<1>16. QED BY <1>3, <1>5, <1>12, <1>13, <1>14, <1>15, WholeStep

\* What was filled leaves the list, and what was not stays on it.
LEMMA WholeCheckpoint ==
  ASSUME ConstantsOK, OneWindow, Undisturbed, WholeInv, LockInv', NEW w \in Windows,
         NEW pc \in {"segmented", "finish", "retry", "restart", "fatal"}, Checkpoint(w, pc),
         run[w].pc = "segmented", UNCHANGED file,
         pc = "finish" => Missing(w) \subseteq run[w].got
  PROVE  WholeInv'
<1> DEFINE n == run[w].n
           d == file[n].data
           m == [run[w].meta EXCEPT !.todo = {Missing(w) \ run[w].got}]
           r == [run[w] EXCEPT !.pc = pc, !.meta = m, !.got = {}]
<1>1. n # 0 /\ run[w].meta.todo # None
  BY DEF WholeInv, LockInv, TypeInv, Run, OnFile
<1>2. /\ n \in Names /\ n \in 0 .. NNames /\ run[w].meta \in Meta /\ d \in Seq(0 .. NVersions)
      /\ file[n].name = "part" /\ sidecar[n] = {run[w].meta} /\ Resting(file[n], sidecar[n])
      /\ Listed(d, {Missing(w) \ run[w].got})
  BY <1>1, OwnFile DEF Working, Touching, Holding, Between, Missing
<1>3. run[w].meta.total = {Len(d)}
  BY <1>1, <1>2 DEF Resting, Truthful
<1>4. m \in Meta /\ m.total = {Len(d)} /\ m.todo = {Missing(w) \ run[w].got}
  <2>1. m \in Meta
    BY <1>1, <1>2, CheckpointMeta DEF WholeInv, Segmented
  <2>2. QED BY <1>2, <1>3, <2>1 DEF Meta
<1>5. sidecar' = [sidecar EXCEPT ![n] = {m}]
  BY DEF Checkpoint, SaveMeta, Undisturbed
<1>6. r.pc = pc /\ r.n = n /\ r.meta = m /\ r.got = {} /\ run' = [run EXCEPT ![w] = r]
  BY DEF Checkpoint, WholeInv, LockInv, TypeInv, Run, Record
<1> HIDE DEF m, r
<1>7. sidecar'[n] = {m} /\ \A k \in Names : k # n => sidecar'[k] = sidecar[k]
  BY <1>2, <1>5 DEF WholeInv, LockInv, TypeInv
<1>8. Truthful(m, d)
  BY <1>2, <1>4 DEF Truthful
<1>9. pc = "finish" => IsWhole(d)
  <2>1. pc = "finish" => NoHole(d)
    BY <1>2 DEF Listed, NoHole
  <2>2. QED BY <1>2, <1>4, <2>1, FilledIsWhole
<1>10. Listed(d, {(UNION m.todo) \ {}})
  BY <1>2, <1>4 DEF Listed
<1>11. Working(r, file'[n], sidecar'[n])
  BY <1>2, <1>6, <1>7, <1>9, <1>10 DEF Working, Known
<1>12. Resting(file'[n], sidecar'[n])
  BY <1>2, <1>4, <1>7, <1>8 DEF Resting
<1>13. \A k \in Names : k # n =>
         /\ file'[k].name = file[k].name /\ file'[k].data = file[k].data
         /\ file[k].name = "part" => sidecar'[k] = sidecar[k]
  BY <1>7
<1>14. r.n \in {0, n} /\ run[w].n \in {0, n}
  BY <1>6
<1> HIDE DEF n
<1>15. QED BY <1>2, <1>6, <1>11, <1>12, <1>13, <1>14, WholeStep

LEMMA WholeSegments ==
  ASSUME ConstantsOK, OneWindow, Undisturbed, WholeInv, LockInv', NEW w \in Windows,
         SegmentTick(w) \/ SegmentEnds(w)
  PROVE  WholeInv'
<1>1. run[w].pc = "segmented" /\ UNCHANGED file
  BY DEF SegmentTick, SegmentEnds
<1>2. CASE SegmentTick(w)
  BY <1>1, <1>2, WholeCheckpoint DEF SegmentTick
<1>3. CASE SegmentEnds(w)
  BY <1>1, <1>3, WholeCheckpoint DEF SegmentEnds
<1>4. QED BY <1>2, <1>3

LEMMA WholeRestart ==
  ASSUME ConstantsOK, OneWindow, WholeInv, LockInv', NEW w \in Windows, Restart(w)
  PROVE  WholeInv'
<1>1. run[w].pc = "restart" /\ run[w].n # 0
  BY DEF Restart, WholeInv, LockInv, TypeInv, Run, OnFile
<1>2. file[run[w].n].name = "part"
  BY <1>1, OwnFile DEF Working, Touching, Holding
<1>3. QED BY <1>1, <1>2, WholeTruncate DEF Restart, Between

LEMMA WholeSaveRestarted ==
  ASSUME ConstantsOK, OneWindow, Undisturbed, WholeInv, LockInv', NEW w \in Windows,
         SaveRestarted(w)
  PROVE  WholeInv'
<1> DEFINE n == run[w].n
           r == [run[w] EXCEPT !.pc = "retry"]
<1>1. run[w].pc = "truncated" /\ n # 0 /\ UNCHANGED file
  BY DEF SaveRestarted, WholeInv, LockInv, TypeInv, Run, OnFile
<1>2. /\ n \in Names /\ n \in 0 .. NNames /\ run[w].meta = NoMeta
      /\ file[n].name = "part" /\ file[n].data = <<>>
  BY <1>1, OwnFile DEF Working, Touching, Holding
<1>3. sidecar' = [sidecar EXCEPT ![n] = {NoMeta}]
  BY <1>2 DEF SaveRestarted, SaveMeta, Undisturbed
<1>4. sidecar'[n] = {NoMeta} /\ \A k \in Names : k # n => sidecar'[k] = sidecar[k]
  BY <1>2, <1>3 DEF WholeInv, LockInv, TypeInv
<1>5. r.pc = "retry" /\ r.n = n /\ r.meta = NoMeta /\ run' = [run EXCEPT ![w] = r]
  BY <1>2 DEF SaveRestarted, GoTo, WholeInv, LockInv, TypeInv, Run, Record
<1> HIDE DEF r
<1>6. Working(r, file'[n], sidecar'[n])
  BY <1>1, <1>2, <1>4, <1>5 DEF Working, Known
<1>7. Truthful(NoMeta, <<>>)
  BY DEF Truthful, Listed, NoMeta
<1>8. Resting(file'[n], sidecar'[n])
  BY <1>1, <1>2, <1>4, <1>7, NoMetaTyped DEF Resting
<1>9. \A k \in Names : k # n =>
        /\ file'[k].name = file[k].name /\ file'[k].data = file[k].data
        /\ file[k].name = "part" => sidecar'[k] = sidecar[k]
  BY <1>1, <1>4
<1>10. r.n \in {0, n} /\ run[w].n \in {0, n}
  BY <1>5
<1> HIDE DEF n
<1>11. QED BY <1>2, <1>5, <1>6, <1>8, <1>9, <1>10, WholeStep

\* The `.part` goes, with its sidecar.
LEMMA WholeDiscard ==
  ASSUME ConstantsOK, OneWindow, WholeInv, LockInv', NEW w \in Windows, run[w].n # 0,
         run[w].pc \in Touching, Discard(w), Stop(w)
  PROVE  WholeInv'
<1> DEFINE n == run[w].n
           r == Idle
<1>1. n \in Names /\ n \in 0 .. NNames /\ file[n].name = "part"
  BY OwnFile DEF Working
<1>2. file'[n].name = "none"
  BY <1>1, UnlockedTyped DEF Discard, NoFile, WholeInv, LockInv
<1>3. \A k \in Names : k # n => /\ file'[k].name = file[k].name /\ file'[k].data = file[k].data
                               /\ sidecar'[k] = sidecar[k]
  <2>1. \A k \in Names : k # n => file'[k] = Unlocked(w)[k] /\ sidecar'[k] = sidecar[k]
    BY UnlockedTyped DEF Discard, WholeInv, LockInv, TypeInv
  <2>2. QED BY <2>1, UnlockedSame DEF WholeInv
<1>4. run' = [run EXCEPT ![w] = r] /\ r.n = 0
  BY DEF Stop, Idle
<1> HIDE DEF r
<1>5. Resting(file'[n], sidecar'[n])
  BY <1>2 DEF Resting
<1>6. r.n \in {0, n} /\ run[w].n \in {0, n}
  BY <1>4
<1>7. \A k \in Names : k # n =>
        /\ file'[k].name = file[k].name /\ file'[k].data = file[k].data
        /\ file[k].name = "part" => sidecar'[k] = sidecar[k]
  BY <1>3
<1> HIDE DEF n
<1>8. QED BY ZenonT(40), <1>1, <1>4, <1>5, <1>6, <1>7, WholeStep

LEMMA WholeGone ==
  ASSUME ConstantsOK, OneWindow, WholeInv, LockInv', NEW w \in Windows, Fatal(w) \/ Cancel(w)
  PROVE  WholeInv'
<1>1. Stop(w) /\ run[w].pc \in Touching /\ run[w].pc \notin Between
  BY DEF Fatal, Cancel, Touching, Holding, Between
<1>2. CASE run[w].n # 0 /\ Discard(w)
  BY <1>1, <1>2, WholeDiscard
<1>3. CASE file' = Unlocked(w) /\ UNCHANGED sidecar
  BY <1>1, <1>3, UnlockedSame, WholeStops DEF WholeInv
<1>4. QED BY <1>2, <1>3 DEF Fatal, Cancel

LEMMA WholeRetry ==
  ASSUME ConstantsOK, OneWindow, WholeInv, LockInv', NEW w \in Windows, Retry(w)
  PROVE  WholeInv'
<1> DEFINE r == [run[w] EXCEPT !.pc = "request", !.idx = (run[w].idx % NServers) + 1,
                               !.status = 0, !.ver = 0]
<1>1. run[w].pc = "retry" /\ UNCHANGED sidecar
  BY DEF Retry
<1>2. CASE Stop(w) /\ file' = Unlocked(w)
  BY <1>1, <1>2, UnlockedSame, WholeStops DEF WholeInv, Between
<1>3. CASE run' = [run EXCEPT ![w] = r] /\ UNCHANGED file
  <2>1. r.pc = "request" /\ r.n = run[w].n /\ r.meta = run[w].meta
    BY DEF WholeInv, LockInv, TypeInv, Run, Record
  <2> HIDE DEF r
  <2>2. run[w].n # 0 =>
          /\ file[run[w].n].name = "part" /\ Known(run[w], file[run[w].n], sidecar[run[w].n])
    BY <1>1, OwnFile DEF Working, Touching, Holding
  <2>3. r.n # 0 => Working(r, file[r.n], sidecar[r.n])
    BY <2>1, <2>2 DEF Working, Known, Emptied
  <2>4. QED BY <1>1, <1>3, <2>1, <2>3, WholeQuiet DEF Between
<1>4. QED BY <1>2, <1>3 DEF Retry

LEMMA WholeFinish ==
  ASSUME ConstantsOK, OneWindow, WholeInv, LockInv', NEW w \in Windows, Finish(w)
  PROVE  WholeInv'
<1> DEFINE n == run[w].n
           r == [run[w] EXCEPT !.pc = "renaming"]
<1>1. run[w].pc = "finish" /\ n # 0
  BY DEF Finish, WholeInv, LockInv, TypeInv, Run, OnFile
<1>2. file[n].name = "part" /\ IsWhole(file[n].data)
  BY <1>1, OwnFile DEF Working, Touching, Holding
<1>3. r.pc = "renaming"
  BY DEF WholeInv, LockInv, TypeInv, Run, Record
<1> HIDE DEF r
<1>4. Working(r, file[n], sidecar[n])
  BY <1>2, <1>3 DEF Working
<1>5. QED BY <1>1, <1>4, UnlockedSame, WholeGoTo DEF Finish, Between, r, WholeInv

LEMMA WholeRename ==
  ASSUME ConstantsOK, OneWindow, WholeInv, LockInv', NEW w \in Windows, Rename(w)
  PROVE  WholeInv'
<1> DEFINE n == run[w].n
           r == [run[w] EXCEPT !.pc = "cleanup"]
<1>1. run[w].pc = "renaming" /\ n # 0 /\ UNCHANGED sidecar
  BY DEF Rename, WholeInv, LockInv, TypeInv, Run, OnFile
<1>2. n \in Names /\ n \in 0 .. NNames /\ file[n].name = "part" /\ IsWhole(file[n].data)
  BY <1>1, OwnFile DEF Working, Touching
<1>3. file' = [file EXCEPT ![n].name = "final"] /\ GoTo(w, "cleanup")
  BY <1>2 DEF Rename
<1>4. r.pc = "cleanup" /\ r.n = n /\ run' = [run EXCEPT ![w] = r]
  BY <1>3 DEF GoTo, WholeInv, LockInv, TypeInv, Run, Record
<1> HIDE DEF r
<1>5. \A k \in Names : /\ file'[k].data = file[k].data
                       /\ file'[k].name = (IF k = n THEN "final" ELSE file[k].name)
  BY <1>2, <1>3 DEF WholeInv, LockInv, TypeInv, File
<1>6. Working(r, file'[n], sidecar'[n]) /\ Resting(file'[n], sidecar'[n])
  BY <1>2, <1>4, <1>5 DEF Working, Touching, Holding, Resting
<1>7. \A k \in Names : k # n =>
        /\ file'[k].name = file[k].name /\ file'[k].data = file[k].data
        /\ file[k].name = "part" => sidecar'[k] = sidecar[k]
  BY <1>1, <1>5
<1>8. r.n \in {0, n} /\ run[w].n \in {0, n}
  BY <1>4
<1> HIDE DEF n
<1>9. QED BY <1>2, <1>4, <1>6, <1>7, <1>8, WholeStep

LEMMA WholeCleanup ==
  ASSUME ConstantsOK, OneWindow, WholeInv, LockInv', NEW w \in Windows, Cleanup(w)
  PROVE  WholeInv'
<1> DEFINE n == run[w].n
           r == Idle
<1>1. /\ run[w].pc = "cleanup" /\ n # 0 /\ UNCHANGED file
      /\ sidecar' = [sidecar EXCEPT ![n] = None] /\ Stop(w)
  BY DEF Cleanup, WholeInv, LockInv, TypeInv, Run, OnFile
<1>2. n \in Names /\ n \in 0 .. NNames /\ file[n].name = "final" /\ IsWhole(file[n].data)
  BY <1>1, OwnFile DEF Working, Between, Resting
<1>3. run' = [run EXCEPT ![w] = r] /\ r.n = 0
  BY <1>1 DEF Stop, Idle
<1> HIDE DEF r
<1>4. Resting(file'[n], sidecar'[n])
  BY <1>1, <1>2 DEF Resting
<1>5. \A k \in Names : k # n =>
        /\ file'[k].name = file[k].name /\ file'[k].data = file[k].data
        /\ file[k].name = "part" => sidecar'[k] = sidecar[k]
  BY <1>1 DEF WholeInv, LockInv, TypeInv
<1>6. r.n \in {0, n} /\ run[w].n \in {0, n}
  BY <1>3
<1>7. run' = [run EXCEPT ![w] = r] /\ (r.n # 0 => Working(r, file'[n], sidecar'[n]))
  BY <1>3
<1> HIDE DEF n
<1>8. QED BY <1>2, <1>4, <1>5, <1>6, <1>7, WholeStep

LEMMA WholeNext ==
  ASSUME ConstantsOK, Undisturbed, WholeInv, LockInv', Next
  PROVE  WholeInv'
<1>1. OneWindow
  BY DEF Undisturbed
<1>2. ASSUME NEW w \in Windows, WindowStep(w) PROVE WholeInv'
  <2>1. CASE Find(w)
    BY <1>1, <2>1, WholeFind
  <2>2. CASE Open(w)
    BY <1>1, <2>2, WholeOpen
  <2>3. CASE OpenFails(w)
    BY <1>1, <2>3, WholeStops DEF OpenFails, Between
  <2>4. CASE AnswerPartial(w)
    BY <1>1, <2>4, WholeAnswered DEF AnswerPartial
  <2>5. CASE AnswerWhole(w) \/ AnswerNoRange(w)
    BY <1>1, <2>5, WholeAnswerWhole, WholeAnswerNoRange
  <2>6. CASE AnswerWrongRange(w) \/ AnswerRefused(w)
    BY <1>1, <2>6, WholeAnswerWrongRange, WholeAnswerRefused
  <2>7. CASE Begin(w) \/ Preallocate(w)
    BY <1>1, <2>7, WholeBegin, WholePreallocate
  <2>8. CASE SaveSegmented(w) \/ BeginFails(w)
    BY <1>1, <2>8, WholeSaveSegmented, WholeBeginFails
  <2>9. CASE Body(w) \/ BodyEnds(w) \/ BodyFails(w)
    BY <1>1, <2>9, WholeBody, WholeBodyEnds, WholeBodyFails
  <2>10. CASE Resume(w) \/ SegmentWrite(w)
    BY <1>1, <2>10, WholeResume, WholeSegmentWrite
  <2>11. CASE SegmentTick(w) \/ SegmentEnds(w)
    BY <1>1, <2>11, WholeSegments
  <2>12. CASE Restart(w) \/ SaveRestarted(w)
    BY <1>1, <2>12, WholeRestart, WholeSaveRestarted
  <2>13. CASE Retry(w)
    BY <1>1, <2>13, WholeRetry
  <2>14. CASE Fatal(w) \/ Cancel(w)
    BY <1>1, <2>14, WholeGone
  <2>15. CASE Finish(w) \/ Rename(w) \/ Cleanup(w)
    BY <1>1, <2>15, WholeFinish, WholeRename, WholeCleanup
  <2>16. ~Kill(w)
    BY DEF Kill, Undisturbed
  <2>17. QED BY <1>2, <2>1, <2>2, <2>3, <2>4, <2>5, <2>6, <2>7, <2>8, <2>9, <2>10, <2>11,
                <2>12, <2>13, <2>14, <2>15, <2>16 DEF WindowStep
<1>3. ASSUME NEW s \in Servers, ServerChanges(s) PROVE WholeInv'
  <2>1. UNCHANGED <<file, sidecar, run>>
    BY <1>3 DEF ServerChanges
  <2>2. QED BY <2>1 DEF WholeInv
<1>4. QED BY <1>2, <1>3 DEF Next

LEMMA WholeHolds == ASSUME ConstantsOK, Undisturbed PROVE Spec => []WholeInv
<1>1. Init => WholeInv
  BY WholeInit DEF Undisturbed
<1>2. WholeInv /\ LockInv' /\ [Next]_vars => WholeInv'
  <2>1. ASSUME WholeInv, LockInv', UNCHANGED vars PROVE WholeInv'
    BY <2>1 DEF vars, WholeInv
  <2>2. QED BY <2>1, WholeNext
<1>3. QED BY <1>1, <1>2, LocksHold, PTL DEF Spec

\* When nothing is killed and every sidecar is written, a file that carries its
\* final name has the length of a version and every byte of it was fetched,
\* through any answers, restarts and changes of the content (finish).
THEOREM FinishedFilesAreWhole ==
  ASSUME ConstantsOK, Undisturbed PROVE Spec => []FinishedIsWhole
<1>1. ASSUME WholeInv, NEW n \in Names, file[n].name = "final" PROVE IsWhole(file[n].data)
  <2>1. CASE \E w \in Windows : run[w].n = n /\ run[w].pc \in Between
    <3>1. PICK w \in Windows : run[w].n = n /\ run[w].pc \in Between
      BY <2>1
    <3>2. Working(run[w], file[n], sidecar[n])
      BY <1>1, <3>1 DEF WholeInv, Names
    <3>3. QED BY <1>1, <3>1, <3>2 DEF Working, Touching, Holding, Between
  <2>2. CASE \A w \in Windows : run[w].n = n => run[w].pc \notin Between
    BY <1>1, <2>2 DEF WholeInv, Resting
  <2>3. QED BY <2>1, <2>2
<1>2. WholeInv => FinishedIsWhole
  <2>1. \A n \in Names : IsWhole(file[n].data) =>
          0 \notin Bytes(n) /\ \E v \in Versions : Len(file[n].data) = SizeOf[v]
    BY DEF IsWhole, NoHole, Bytes
  <2>2. QED BY <1>1, <2>1 DEF FinishedIsWhole
<1>3. QED BY <1>2, WholeHolds, PTL

\* What a window that is gone leaves tells the truth about its holes, so the
\* next one that finds the file fetches every byte that is not there.
THEOREM SidecarsAreHonest ==
  ASSUME ConstantsOK, Undisturbed PROVE Spec => []SidecarHonest
<1>1. ASSUME WholeInv, NEW n \in Names, NEW m \in sidecar[n], file[n].name = "part",
             file[n].holder = Nobody
      PROVE  Listed(file[n].data, m.todo)
  <2>1. ASSUME NEW w \in Windows, run[w].n = n PROVE run[w].pc \notin Between
    <3>1. w # Nobody /\ n # 0
      BY DEF ConstantsOK, Nobody, Names
    <3>2. QED BY <1>1, <2>1, <3>1 DEF WholeInv, LockInv, HoldsItsFile, Holding, Between
  <2>2. Resting(file[n], sidecar[n])
    BY <1>1, <2>1 DEF WholeInv
  <2>3. QED BY <1>1, <2>2 DEF Resting, Truthful
<1>2. WholeInv => SidecarHonest
  BY <1>1 DEF SidecarHonest, Listed
<1>3. QED BY <1>2, WholeHolds, PTL

-----------------------------------------------------------------------------
(* One version: a title fetched in sequence from one server, whatever it      *)
(* answers and however often the window is killed.                            *)

\* One window and one server, files too small for several connections, and no
\* lost save; everything else may happen, kills and new content included.
Sequential ==
  /\ OneWindow /\ NServers = 1 /\ "save" \notin Faults
  /\ \A v \in Versions : SizeOf[v] < SplitMin

\* The bytes are of one version; they are all of it; a sidecar that says whose.
Uniform(d, v) == \A i \in 1 .. Len(d) : d[i] = v
IsVersion(d) == \E v \in Versions : Uniform(d, v) /\ Len(d) = SizeOf[v]
Tagged(m, d) ==
  /\ m.todo = None
  /\ \E v \in Versions : m.tag = {v} /\ m.total \in {None, {SizeOf[v]}} /\ Uniform(d, v)

Settled(f, sc) ==
  /\ f.name = "part" => \E m \in Meta : sc = {m} /\ Tagged(m, f.data)
  /\ f.name = "final" => IsVersion(f.data)

\* What a download remembers of its file: its sidecar, or nothing of an empty one.
Remembered(r, f, sc) == sc = {r.meta} \/ (r.meta = NoMeta /\ f.data = <<>>)
Following(r, f, sc) ==
  /\ r.pc \in Touching => f.name = "part"
  /\ r.pc \in {"open", "body"} => sc = {r.meta}
  /\ r.pc \in {"request", "retry"} => Remembered(r, f, sc) /\ r.from = {1}
  /\ r.pc = "begin" => \/ r.status = 206 /\ Uniform(f.data, r.ver)
                       \/ f.data = <<>>
  /\ r.pc = "body" => r.meta.tag = {r.ver} /\ r.from = {1}
  /\ r.pc \in {"finish", "renaming"} => IsVersion(f.data)
  /\ r.pc = "cleanup" => f.name = "final"

SplitPlaces == {"sized", "segmented", "restart", "truncated"}
VersionInv ==
  /\ LockInv
  /\ \A w \in Windows :
       /\ run[w].pc \notin SplitPlaces
       /\ run[w].n # 0 => Following(run[w], file[run[w].n], sidecar[run[w].n])
  /\ \A n \in Names : Settled(file[n], sidecar[n])

LEMMA VersionStep ==
  ASSUME OneWindow, VersionInv, LockInv', NEW w \in Windows, NEW r,
         run' = [run EXCEPT ![w] = r], r.pc \notin SplitPlaces,
         NEW n \in 0 .. NNames, r.n \in {0, n}, run[w].n \in {0, n},
         \A k \in Names : k # n =>
           /\ file'[k].name = file[k].name /\ file'[k].data = file[k].data
           /\ file[k].name = "part" => sidecar'[k] = sidecar[k],
         r.n # 0 => Following(r, file'[n], sidecar'[n]),
         n # 0 => Settled(file'[n], sidecar'[n])
  PROVE  VersionInv'
<1>1. run'[w] = r /\ \A v \in Windows : v = w
  BY DEF OneWindow, VersionInv, LockInv, TypeInv
<1>2. ASSUME NEW k \in Names PROVE Settled(file'[k], sidecar'[k])
  <2>1. CASE k = n
    BY <2>1 DEF Names
  <2>2. CASE k # n
    <3>1. Settled(file[k], sidecar[k])
      BY DEF VersionInv
    <3>2. QED BY <2>2, <3>1 DEF Settled
  <2>3. QED BY <2>1, <2>2
<1>3. QED BY <1>1, <1>2 DEF VersionInv

LEMMA OwnVersion ==
  ASSUME ConstantsOK, VersionInv, NEW w \in Windows, run[w].n # 0
  PROVE  /\ run[w].n \in Names /\ run[w].n \in 0 .. NNames
         /\ run[w].meta \in Meta
         /\ file[run[w].n].data \in Seq(0 .. NVersions)
         /\ Following(run[w], file[run[w].n], sidecar[run[w].n])
         /\ Settled(file[run[w].n], sidecar[run[w].n])
<1>1. /\ run[w].n \in Names /\ run[w].n \in 0 .. NNames /\ run[w].meta \in Meta
      /\ file[run[w].n].data \in Seq(0 .. NVersions)
  BY DEF VersionInv, LockInv, TypeInv, Run, Record, Names, File, Data
<1>2. QED BY <1>1 DEF VersionInv

LEMMA VersionQuiet ==
  ASSUME ConstantsOK, OneWindow, VersionInv, LockInv', NEW w \in Windows, NEW r,
         run' = [run EXCEPT ![w] = r], r.n \in {0, run[w].n}, r.pc \notin SplitPlaces,
         \A k \in Names : file'[k].name = file[k].name /\ file'[k].data = file[k].data,
         UNCHANGED sidecar, r.n # 0 => Following(r, file[r.n], sidecar[r.n])
  PROVE  VersionInv'
<1>1. run[w].n \in 0 .. NNames /\ (run[w].n # 0 => run[w].n \in Names)
  BY DEF VersionInv, LockInv, TypeInv, Run, Record, Names
<1>2. run[w].n # 0 => Settled(file'[run[w].n], sidecar'[run[w].n])
  BY <1>1, OwnVersion DEF Settled
<1>3. r.n # 0 => Following(r, file'[run[w].n], sidecar'[run[w].n])
  BY <1>1 DEF Following, Remembered
<1>4. QED BY <1>1, <1>2, <1>3, VersionStep

LEMMA VersionGoTo ==
  ASSUME ConstantsOK, OneWindow, VersionInv, LockInv', NEW w \in Windows,
         NEW pc \in Places \ SplitPlaces, GoTo(w, pc),
         \A k \in Names : file'[k].name = file[k].name /\ file'[k].data = file[k].data,
         UNCHANGED sidecar,
         LET r == [run[w] EXCEPT !.pc = pc]
         IN  run[w].n # 0 => Following(r, file[run[w].n], sidecar[run[w].n])
  PROVE  VersionInv'
<1> DEFINE r == [run[w] EXCEPT !.pc = pc]
<1>1. run' = [run EXCEPT ![w] = r] /\ r.n = run[w].n /\ r.pc \notin SplitPlaces
  BY DEF GoTo, VersionInv, LockInv, TypeInv, Run, Record
<1> HIDE DEF r
<1>2. run[w].n # 0 => Following(r, file[run[w].n], sidecar[run[w].n])
  BY DEF r
<1>3. QED BY <1>1, <1>2, VersionQuiet

LEMMA VersionStops ==
  ASSUME ConstantsOK, OneWindow, VersionInv, LockInv', NEW w \in Windows, Stop(w),
         \A k \in Names : file'[k].name = file[k].name /\ file'[k].data = file[k].data,
         UNCHANGED sidecar
  PROVE  VersionInv'
<1>1. run' = [run EXCEPT ![w] = Idle] /\ Idle.n = 0 /\ Idle.pc \notin SplitPlaces
  BY DEF Stop, Idle, SplitPlaces
<1>2. QED BY <1>1, VersionQuiet

LEMMA VersionInit == ASSUME ConstantsOK, OneWindow, Init PROVE VersionInv
<1>1. LockInv BY LockInit
<1>2. \A w \in Windows : run[w].n = 0 /\ run[w].pc \notin SplitPlaces
  BY DEF Init, Idle, SplitPlaces
<1>3. \A n \in Names : file[n].name = "none"
  BY DEF Init, NoFile
<1>4. QED BY <1>1, <1>2, <1>3 DEF VersionInv, Settled

LEMMA VersionFind ==
  ASSUME ConstantsOK, OneWindow, VersionInv, LockInv', NEW w \in Windows, Find(w)
  PROVE  VersionInv'
<1>1. run[w].n = 0 /\ UNCHANGED file
  BY DEF Find, VersionInv, LockInv, TypeInv, Run
<1>2. \A n \in Names : Settled(file[n], sidecar[n])
  BY DEF VersionInv
<1>3. \A n \in Names : file[n].name = "part" => sidecar'[n] = sidecar[n] /\ sidecar[n] # None
  BY <1>2 DEF Find, Settled, VersionInv, LockInv, TypeInv, None
<1>4. CASE \E n \in Names : \E m \in sidecar[n] :
             /\ file[n].name = "part"
             /\ run' = [run EXCEPT ![w] = [Idle EXCEPT !.pc = "open", !.n = n, !.meta = m]]
  <2>1. PICK n \in Names : \E m \in sidecar[n] :
             /\ file[n].name = "part"
             /\ run' = [run EXCEPT ![w] = [Idle EXCEPT !.pc = "open", !.n = n, !.meta = m]]
    BY <1>4
  <2>2. PICK m \in sidecar[n] :
             /\ file[n].name = "part"
             /\ run' = [run EXCEPT ![w] = [Idle EXCEPT !.pc = "open", !.n = n, !.meta = m]]
    BY <2>1
  <2> DEFINE r == [Idle EXCEPT !.pc = "open", !.n = n, !.meta = m]
  <2>3. r.pc = "open" /\ r.n = n /\ r.meta = m /\ r.pc \notin SplitPlaces
    BY DEF Idle, SplitPlaces
  <2>4. n \in 0 .. NNames
    BY DEF Names
  <2>5. sidecar[n] = {m} /\ sidecar'[n] = {m}
    BY <1>2, <1>3, <2>2 DEF Settled
  <2>6. Settled(file'[n], sidecar'[n])
    BY <1>1, <1>2, <2>5 DEF Settled
  <2>7. Following(r, file'[n], sidecar'[n])
    BY <1>1, <2>2, <2>3, <2>5 DEF Following
  <2>8. run' = [run EXCEPT ![w] = r]
    BY <2>2
  <2> HIDE DEF r
  <2>9. \A k \in Names : k # n =>
          /\ file'[k].name = file[k].name /\ file'[k].data = file[k].data
          /\ file[k].name = "part" => sidecar'[k] = sidecar[k]
    BY <1>1, <1>3
  <2>10. r.n \in {0, n} /\ run[w].n \in {0, n}
    BY <1>1, <2>3
  <2>11. QED BY <2>3, <2>4, <2>6, <2>7, <2>8, <2>9, <2>10, VersionStep
<1>5. CASE run' = [run EXCEPT ![w] = [Idle EXCEPT !.pc = "request"]]
  <2> DEFINE r == [Idle EXCEPT !.pc = "request"]
  <2>1. r.n = 0 /\ 0 \in 0 .. NNames /\ r.pc \notin SplitPlaces
    BY DEF Idle, ConstantsOK, SplitPlaces
  <2>2. run' = [run EXCEPT ![w] = r]
    BY <1>5
  <2> HIDE DEF r
  <2>3. QED BY <1>1, <1>3, <2>1, <2>2, VersionStep
<1>6. QED BY <1>3, <1>4, <1>5 DEF Find

LEMMA VersionOpen ==
  ASSUME ConstantsOK, Sequential, VersionInv, LockInv', NEW w \in Windows, Open(w)
  PROVE  VersionInv'
<1> DEFINE n == run[w].n
           r == [run[w] EXCEPT !.pc = "request", !.from = IF NServers = 1 THEN {1} ELSE None]
<1>1. /\ run[w].pc = "open" /\ n # 0 /\ n \in Names /\ n \in 0 .. NNames
      /\ file[n].name = "part" /\ sidecar[n] = {run[w].meta} /\ Settled(file[n], sidecar[n])
  BY OwnVersion DEF Open, VersionInv, LockInv, TypeInv, Run, OnFile, Following, Touching
<1>2. sidecar' = [sidecar EXCEPT ![n] = {run[w].meta}]
  BY DEF Open, SaveMeta, Sequential
<1>3. \A k \in Names : file'[k].name = file[k].name /\ file'[k].data = file[k].data
  BY <1>1 DEF Open, VersionInv, LockInv, TypeInv, File
<1>4. UNCHANGED sidecar
  BY <1>1, <1>2 DEF VersionInv, LockInv, TypeInv
<1>5. /\ r.pc = "request" /\ r.n = n /\ r.meta = run[w].meta /\ r.from = {1}
      /\ run' = [run EXCEPT ![w] = r]
  BY DEF Open, VersionInv, LockInv, TypeInv, Run, Record, Sequential
<1> HIDE DEF r
<1>6. Following(r, file[n], sidecar[n])
  BY <1>1, <1>5 DEF Following, Remembered
<1>7. r.n \in {0, run[w].n} /\ r.pc \notin SplitPlaces /\ OneWindow
  BY <1>5 DEF SplitPlaces, Sequential
<1>8. QED BY <1>3, <1>4, <1>5, <1>6, <1>7, VersionQuiet

\* What a window that asks remembers is the version of its bytes: when the
\* server serves the range, that is what the server has now.
LEMMA AskingVersion ==
  ASSUME ConstantsOK, Sequential, VersionInv, NEW w \in Windows, run[w].pc = "request",
         run[w].n # 0
  PROVE  LET f == file[run[w].n] IN LET sc == sidecar[run[w].n] IN
         /\ f.name = "part" /\ run[w].from = {1} /\ Remembered(run[w], f, sc)
         /\ run[w].meta.todo = None
         /\ Current(w) /\ Offset(w) > 0 =>
              /\ Uniform(f.data, Asked(w).ver)
              /\ run[w].meta.total \in {None, {SizeOf[Asked(w).ver]}}
<1> DEFINE f == file[run[w].n]
           sc == sidecar[run[w].n]
<1>1. /\ f.name = "part" /\ run[w].from = {1} /\ Remembered(run[w], f, sc) /\ Settled(f, sc)
      /\ f.data \in Seq(0 .. NVersions) /\ Offset(w) = Len(f.data)
  BY OwnVersion DEF Following, Touching, Holding, Offset
<1>2. run[w].idx = 1
  BY DEF VersionInv, LockInv, TypeInv, Run, Record, Servers, Sequential
<1> HIDE DEF f, sc
<1>3. CASE run[w].meta = NoMeta /\ f.data = <<>>
  <2>1. Offset(w) = 0
    BY <1>1, <1>3
  <2>2. QED BY <1>1, <1>3, <2>1 DEF NoMeta, f, sc
<1>4. CASE sc = {run[w].meta}
  <2>1. Tagged(run[w].meta, f.data)
    BY <1>1, <1>4 DEF Settled
  <2>2. PICK v \in Versions : /\ run[w].meta.tag = {v} /\ Uniform(f.data, v)
                              /\ run[w].meta.total \in {None, {SizeOf[v]}}
    BY <2>1 DEF Tagged
  <2>3. Current(w) /\ Offset(w) > 0 => v = Asked(w).ver
    BY <1>1, <1>2, <2>2 DEF Current, Validator
  <2>4. run[w].meta.todo = None
    BY <2>1 DEF Tagged
  <2>5. QED BY <1>1, <2>2, <2>3, <2>4 DEF f, sc
<1>5. QED BY <1>1, <1>3, <1>4 DEF Remembered

LEMMA VersionAnswered ==
  ASSUME ConstantsOK, Sequential, VersionInv, LockInv', NEW w \in Windows,
         Requesting(w), NEW status, run' = [run EXCEPT ![w] = Answered(w, status)],
         UNCHANGED <<file, sidecar>>, Offset(w) > 0 => status = 206 /\ Current(w)
  PROVE  VersionInv'
<1> DEFINE r == Answered(w, status)
<1>1. r.pc = "begin" /\ r.n = run[w].n /\ r.status = status /\ r.ver = Asked(w).ver
  BY DEF Answered, VersionInv, LockInv, TypeInv, Run, Record
<1>2. run' = [run EXCEPT ![w] = r] /\ r.pc \notin SplitPlaces /\ OneWindow
  BY <1>1 DEF SplitPlaces, Sequential
<1> HIDE DEF r
<1>3. ASSUME r.n # 0 PROVE Following(r, file[r.n], sidecar[r.n])
  <2>1. /\ file[r.n].name = "part"
        /\ Offset(w) > 0 => status = 206 /\ Uniform(file[r.n].data, Asked(w).ver)
    BY <1>1, <1>3, AskingVersion DEF Requesting
  <2>2. Offset(w) = Len(file[r.n].data) /\ file[r.n].data \in Seq(0 .. NVersions)
    BY <1>1, <1>3, OwnVersion DEF Offset
  <2>3. QED BY <1>1, <2>1, <2>2 DEF Following
<1>4. QED BY <1>1, <1>2, <1>3, VersionQuiet

\* The file starts over.
LEMMA VersionEmptied ==
  ASSUME ConstantsOK, OneWindow, VersionInv, LockInv', NEW w \in Windows, run[w].n # 0,
         Write(run[w].n, <<>>), UNCHANGED sidecar, file[run[w].n].name = "part",
         NEW r, run' = [run EXCEPT ![w] = r], r.n = run[w].n, r.meta = NoMeta,
         r.pc \in {"retry", "begin"}, r.from = {1}
  PROVE  VersionInv'
<1> DEFINE n == run[w].n
<1>1. n \in Names /\ n \in 0 .. NNames /\ Settled(file[n], sidecar[n])
  BY OwnVersion
<1>2. \A k \in Names : /\ file'[k].name = file[k].name
                       /\ file'[k].data = (IF k = n THEN <<>> ELSE file[k].data)
  BY <1>1 DEF Write, VersionInv, LockInv, TypeInv, File
<1>3. Following(r, file'[n], sidecar'[n])
  BY <1>1, <1>2 DEF Following, Remembered
<1>4. PICK m \in Meta : sidecar[n] = {m} /\ Tagged(m, file[n].data)
  BY <1>1 DEF Settled
<1>5. Tagged(m, <<>>)
  BY <1>4 DEF Tagged, Uniform
<1>6. Settled(file'[n], sidecar'[n])
  BY <1>1, <1>2, <1>4, <1>5 DEF Settled
<1>7. \A k \in Names : k # n =>
        /\ file'[k].name = file[k].name /\ file'[k].data = file[k].data
        /\ file[k].name = "part" => sidecar'[k] = sidecar[k]
  BY <1>2
<1>8. r.n \in {0, n} /\ run[w].n \in {0, n} /\ r.pc \notin SplitPlaces
  BY DEF SplitPlaces
<1> HIDE DEF n
<1>9. QED BY <1>1, <1>3, <1>6, <1>7, <1>8, VersionStep

LEMMA VersionTruncate ==
  ASSUME ConstantsOK, Sequential, VersionInv, LockInv', NEW w \in Windows,
         run[w].pc = "request", run[w].n # 0, Truncate(w, "retry"), UNCHANGED sidecar
  PROVE  VersionInv'
<1> DEFINE r == [run[w] EXCEPT !.pc = "retry", !.meta = NoMeta, !.got = {}]
<1>1. file[run[w].n].name = "part" /\ run[w].from = {1}
  BY AskingVersion
<1>2. /\ r.pc = "retry" /\ r.n = run[w].n /\ r.meta = NoMeta /\ r.from = {1}
      /\ run' = [run EXCEPT ![w] = r]
  BY <1>1 DEF Truncate, VersionInv, LockInv, TypeInv, Run, Record
<1> HIDE DEF r
<1>3. QED BY <1>1, <1>2, VersionEmptied DEF Truncate, Sequential

LEMMA VersionAnswerWhole ==
  ASSUME ConstantsOK, Sequential, VersionInv, LockInv', NEW w \in Windows, AnswerWhole(w)
  PROVE  VersionInv'
<1>1. CASE ~(Offset(w) > 0)
  BY <1>1, VersionAnswered DEF AnswerWhole
<1>2. CASE Offset(w) > 0
  <2> DEFINE r == [Answered(w, 200) EXCEPT !.meta = NoMeta]
  <2>1. Requesting(w) /\ run[w].n # 0 /\ UNCHANGED sidecar /\ Write(run[w].n, <<>>)
    BY <1>2 DEF AnswerWhole, Offset
  <2>2. file[run[w].n].name = "part" /\ run[w].from = {1}
    BY <2>1, AskingVersion DEF Requesting
  <2>3. /\ r.pc = "begin" /\ r.n = run[w].n /\ r.meta = NoMeta /\ r.from = {1}
        /\ run' = [run EXCEPT ![w] = r]
    BY <1>2, <2>2 DEF AnswerWhole, Answered, VersionInv, LockInv, TypeInv, Run, Record
  <2> HIDE DEF r
  <2>4. QED BY <2>1, <2>2, <2>3, VersionEmptied DEF Sequential
<1>3. QED BY <1>1, <1>2

LEMMA VersionAnswerNoRange ==
  ASSUME ConstantsOK, Sequential, VersionInv, LockInv', NEW w \in Windows, AnswerNoRange(w)
  PROVE  VersionInv'
<1> DEFINE n == run[w].n
<1>1. /\ run[w].pc = "request" /\ n # 0 /\ UNCHANGED sidecar /\ Current(w) /\ Offset(w) > 0
      /\ Offset(w) = Len(file[n].data)
  BY DEF AnswerNoRange, Offset, Requesting
<1>2. /\ file[n].name = "part" /\ Uniform(file[n].data, Asked(w).ver)
      /\ run[w].meta.total \in {None, {SizeOf[Asked(w).ver]}}
  BY <1>1, AskingVersion
<1>3. CASE Truncate(w, "retry")
  BY <1>1, <1>3, VersionTruncate
<1>4. CASE /\ GoTo(w, "finish") /\ UNCHANGED file
           /\ {Offset(w)} = {SizeOf[Asked(w).ver]} \/ {Offset(w)} = run[w].meta.total
  <2>1. Asked(w).ver \in Versions
    BY DEF Asked, VersionInv, LockInv, TypeInv, Run, Record
  <2>2. Len(file[n].data) = SizeOf[Asked(w).ver]
    BY <1>1, <1>2, <1>4 DEF None
  <2>3. IsVersion(file[n].data)
    BY <1>2, <2>1, <2>2 DEF IsVersion
  <2> DEFINE r == [run[w] EXCEPT !.pc = "finish"]
  <2>4. r.pc = "finish"
    BY DEF VersionInv, LockInv, TypeInv, Run, Record
  <2> HIDE DEF r
  <2>5. Following(r, file[n], sidecar[n])
    BY <1>2, <2>3, <2>4 DEF Following
  <2>6. "finish" \in Places \ SplitPlaces
    BY DEF Places, SplitPlaces
  <2>7. QED BY <1>1, <1>4, <2>5, <2>6, VersionGoTo DEF r, Sequential
<1>5. QED BY <1>1, <1>3, <1>4 DEF AnswerNoRange

LEMMA VersionGivesUp ==
  ASSUME ConstantsOK, Sequential, VersionInv, LockInv', NEW w \in Windows,
         NEW pc \in {"retry", "fatal"}, GoTo(w, pc), UNCHANGED <<file, sidecar>>,
         run[w].n = 0 \/ run[w].pc \in {"request", "body"}
  PROVE  VersionInv'
<1> DEFINE r == [run[w] EXCEPT !.pc = pc]
<1>1. r.pc = pc /\ r.meta = run[w].meta /\ r.from = run[w].from
  BY DEF VersionInv, LockInv, TypeInv, Run, Record
<1> HIDE DEF r
<1>2. ASSUME run[w].n # 0 PROVE Following(r, file[run[w].n], sidecar[run[w].n])
  <2>1. Following(run[w], file[run[w].n], sidecar[run[w].n])
    BY <1>2, OwnVersion
  <2>2. QED BY <1>1, <1>2, <2>1 DEF Following, Remembered, Touching, Holding
<1>3. pc \in Places \ SplitPlaces
  BY DEF Places, SplitPlaces
<1>4. QED BY <1>2, <1>3, VersionGoTo DEF r, Sequential

LEMMA VersionAnswers ==
  ASSUME ConstantsOK, Sequential, VersionInv, LockInv', NEW w \in Windows,
         \/ AnswerPartial(w) \/ AnswerWhole(w) \/ AnswerNoRange(w)
         \/ AnswerWrongRange(w) \/ AnswerRefused(w)
  PROVE  VersionInv'
<1>1. CASE AnswerPartial(w)
  BY <1>1, VersionAnswered DEF AnswerPartial
<1>2. CASE AnswerWhole(w) \/ AnswerNoRange(w)
  BY <1>2, VersionAnswerWhole, VersionAnswerNoRange
<1>3. CASE AnswerWrongRange(w)
  BY <1>3, VersionTruncate, VersionGivesUp DEF AnswerWrongRange, Requesting
<1>4. CASE AnswerRefused(w)
  BY <1>4, VersionGivesUp DEF AnswerRefused, Requesting
<1>5. QED BY <1>1, <1>2, <1>3, <1>4

LEMMA VersionBegin ==
  ASSUME ConstantsOK, Sequential, VersionInv, LockInv', NEW w \in Windows, Begin(w)
  PROVE  VersionInv'
<1>1. PICK n \in Destination(w), total \in Totals(w) :
        /\ file' = [file EXCEPT ![n] = Created(w, n)]
        /\ run' = [run EXCEPT ![w] =
                     [@ EXCEPT !.pc = "body", !.n = n, !.meta = MetaOf(w, total),
                               !.from = {run[w].idx}]]
        /\ SaveMeta(n, MetaOf(w, total))
  BY DEF Begin
<1> DEFINE m == MetaOf(w, total)
           r == [run[w] EXCEPT !.pc = "body", !.n = n, !.meta = m, !.from = {run[w].idx}]
           f == Created(w, n)
<1>2. /\ run[w].pc = "begin" /\ run[w].ver \in Versions /\ Offset(w) \in Nat
      /\ run[w].idx = 1
  BY OffsetNat DEF Begin, VersionInv, LockInv, TypeInv, Run, Record, Servers, Sequential
<1>3. /\ n \in Names /\ n \in 0 .. NNames /\ run[w].n \in {0, n}
      /\ f.name = "part" /\ Uniform(f.data, run[w].ver)
  <2>1. n \in Names /\ n \in 0 .. NNames
    BY <1>2, CreatedTyped DEF Holding, VersionInv, Names
  <2>2. CASE run[w].n # 0
    <3>1. n = run[w].n /\ f = file[n]
      BY <2>2 DEF Destination, Created
    <3>2. Following(run[w], file[n], sidecar[n])
      BY <2>2, <3>1, OwnVersion
    <3>3. file[n].name = "part" /\ Uniform(file[n].data, run[w].ver)
      BY <1>2, <3>2 DEF Following, Touching, Holding, Uniform
    <3>4. QED BY <2>1, <3>1, <3>3
  <2>3. CASE run[w].n = 0
    BY <2>1, <2>3 DEF Created, Uniform
  <2>4. QED BY <2>2, <2>3
<1>4. m \in Meta /\ m.todo = None /\ m.tag = {run[w].ver} /\ m.total = total
  BY <1>2, MetaOfTyped DEF MetaOf
<1>5. /\ r.pc = "body" /\ r.n = n /\ r.meta = m /\ r.from = {1} /\ r.ver = run[w].ver
      /\ run' = [run EXCEPT ![w] = r]
  BY <1>1, <1>2 DEF VersionInv, LockInv, TypeInv, Run, Record
<1>6. sidecar' = [sidecar EXCEPT ![n] = {m}]
  BY <1>1 DEF SaveMeta, Sequential
<1> HIDE DEF m, r
<1>7. /\ file'[n] = f /\ sidecar'[n] = {m}
      /\ \A k \in Names : k # n => file'[k] = file[k] /\ sidecar'[k] = sidecar[k]
  BY <1>1, <1>3, <1>6 DEF VersionInv, LockInv, TypeInv
<1> HIDE DEF f
<1>8. Following(r, file'[n], sidecar'[n])
  BY <1>3, <1>4, <1>5, <1>7 DEF Following
<1>9. Tagged(m, f.data)
  BY <1>2, <1>3, <1>4 DEF Tagged, Totals
<1>10. Settled(file'[n], sidecar'[n])
  BY <1>3, <1>4, <1>7, <1>9 DEF Settled
<1>11. \A k \in Names : k # n =>
         /\ file'[k].name = file[k].name /\ file'[k].data = file[k].data
         /\ file[k].name = "part" => sidecar'[k] = sidecar[k]
  BY <1>7
<1>12. r.n \in {0, n} /\ r.pc \notin SplitPlaces /\ OneWindow
  BY <1>5 DEF SplitPlaces, Sequential
<1>13. QED BY <1>3, <1>5, <1>8, <1>10, <1>11, <1>12, VersionStep

LEMMA VersionBody ==
  ASSUME ConstantsOK, Sequential, VersionInv, LockInv', NEW w \in Windows, Body(w)
  PROVE  VersionInv'
<1> DEFINE n == run[w].n
           r == run[w]
           d == file[n].data
           e == Append(d, run[w].ver)
<1>1. /\ r.pc = "body" /\ n # 0 /\ r.ver \in Versions /\ UNCHANGED <<sidecar, run>>
      /\ file' = [file EXCEPT ![n].data = e]
  BY DEF Body, Write, VersionInv, LockInv, TypeInv, Run, OnFile
<1>2. /\ n \in Names /\ n \in 0 .. NNames /\ file[n].name = "part" /\ r.meta \in Meta
      /\ sidecar[n] = {r.meta} /\ r.meta.tag = {r.ver} /\ r.from = {1}
      /\ d \in Seq(0 .. NVersions) /\ Settled(file[n], sidecar[n])
  BY <1>1, OwnVersion DEF Following, Touching, Holding
<1>3. Tagged(r.meta, d)
  BY <1>2 DEF Settled
<1>4. \A k \in Names : /\ file'[k].name = file[k].name
                       /\ file'[k].data = (IF k = n THEN e ELSE file[k].data)
  BY <1>1, <1>2 DEF VersionInv, LockInv, TypeInv, File
<1>5. run' = [run EXCEPT ![w] = r] /\ r.n \in {0, n} /\ run[w].n \in {0, n}
  BY <1>1 DEF VersionInv, LockInv, TypeInv
<1>6. Tagged(r.meta, e)
  <2>1. PICK v \in Versions : /\ r.meta.tag = {v} /\ Uniform(d, v)
                              /\ r.meta.total \in {None, {SizeOf[v]}}
    BY <1>3 DEF Tagged
  <2>2. v = run[w].ver
    BY <1>2, <2>1
  <2> HIDE DEF d
  <2>3. Len(e) = Len(d) + 1 /\ \A i \in 1 .. Len(e) : e[i] = IF i <= Len(d) THEN d[i] ELSE v
    BY <1>1, <1>2, <2>2 DEF Versions
  <2>4. Uniform(e, v)
    BY <1>2, <2>1, <2>3 DEF Uniform
  <2>5. QED BY <1>3, <2>1, <2>4 DEF Tagged
<1> HIDE DEF r, d, e
<1>7. Following(r, file'[n], sidecar'[n])
  BY <1>1, <1>2, <1>4 DEF Following
<1>8. Settled(file'[n], sidecar'[n])
  BY <1>1, <1>2, <1>4, <1>6 DEF Settled
<1>9. \A k \in Names : k # n =>
        /\ file'[k].name = file[k].name /\ file'[k].data = file[k].data
        /\ file[k].name = "part" => sidecar'[k] = sidecar[k]
  BY <1>1, <1>4
<1>10. r.pc \notin SplitPlaces /\ OneWindow
  BY <1>1 DEF SplitPlaces, Sequential
<1> HIDE DEF n
<1>11. QED BY <1>2, <1>5, <1>7, <1>8, <1>9, <1>10, VersionStep

LEMMA VersionBodyEnds ==
  ASSUME ConstantsOK, Sequential, VersionInv, LockInv', NEW w \in Windows, BodyEnds(w)
  PROVE  VersionInv'
<1> DEFINE n == run[w].n
           r == [run[w] EXCEPT !.pc = "finish"]
<1>1. /\ run[w].pc = "body" /\ n # 0 /\ run[w].ver \in Versions
      /\ Len(file[n].data) = SizeOf[run[w].ver]
  BY DEF BodyEnds, Offset, VersionInv, LockInv, TypeInv, Run, OnFile
<1>2. /\ file[n].name = "part" /\ sidecar[n] = {run[w].meta} /\ run[w].meta.tag = {run[w].ver}
      /\ Settled(file[n], sidecar[n])
  BY <1>1, OwnVersion DEF Following, Touching, Holding
<1>3. IsVersion(file[n].data)
  BY <1>1, <1>2 DEF Settled, Tagged, IsVersion
<1>4. r.pc = "finish"
  BY DEF VersionInv, LockInv, TypeInv, Run, Record
<1> HIDE DEF r
<1>5. Following(r, file[n], sidecar[n])
  BY <1>2, <1>3, <1>4 DEF Following
<1>6. "finish" \in Places \ SplitPlaces
  BY DEF Places, SplitPlaces
<1>7. QED BY <1>1, <1>5, <1>6, VersionGoTo DEF BodyEnds, r, Sequential

LEMMA VersionRetry ==
  ASSUME ConstantsOK, Sequential, VersionInv, LockInv', NEW w \in Windows, Retry(w)
  PROVE  VersionInv'
<1> DEFINE r == [run[w] EXCEPT !.pc = "request", !.idx = (run[w].idx % NServers) + 1,
                               !.status = 0, !.ver = 0]
<1>1. run[w].pc = "retry" /\ UNCHANGED sidecar /\ OneWindow
  BY DEF Retry, Sequential
<1>2. CASE Stop(w) /\ file' = Unlocked(w)
  BY <1>1, <1>2, UnlockedSame, VersionStops DEF VersionInv
<1>3. CASE run' = [run EXCEPT ![w] = r] /\ UNCHANGED file
  <2>1. /\ r.pc = "request" /\ r.n = run[w].n /\ r.meta = run[w].meta /\ r.from = run[w].from
        /\ r.pc \notin SplitPlaces
    BY DEF VersionInv, LockInv, TypeInv, Run, Record, SplitPlaces
  <2> HIDE DEF r
  <2>2. run[w].n # 0 => Following(run[w], file[run[w].n], sidecar[run[w].n])
    BY OwnVersion
  <2>3. r.n # 0 => Following(r, file[r.n], sidecar[r.n])
    BY <1>1, <2>1, <2>2 DEF Following, Remembered, Touching, Holding
  <2>4. QED BY <1>1, <1>3, <2>1, <2>3, VersionQuiet
<1>4. QED BY <1>2, <1>3 DEF Retry

LEMMA VersionGone ==
  ASSUME ConstantsOK, OneWindow, VersionInv, LockInv', NEW w \in Windows,
         Fatal(w) \/ Cancel(w) \/ Kill(w)
  PROVE  VersionInv'
<1>1. Stop(w)
  BY DEF Fatal, Cancel, Kill
<1>2. CASE run[w].n # 0 /\ Discard(w)
  <2> DEFINE n == run[w].n
             r == Idle
  <2>1. n \in Names /\ n \in 0 .. NNames
    BY <1>2, OwnVersion
  <2>2. Settled(file[n], sidecar[n]) /\ Unlocked(w) \in [Names -> File]
    BY <1>2, OwnVersion, UnlockedTyped DEF VersionInv, LockInv
  <2>3. \A k \in Names : k # n => /\ file'[k] = Unlocked(w)[k] /\ sidecar'[k] = sidecar[k]
    BY <1>2, <2>2 DEF Discard, VersionInv, LockInv, TypeInv
  <2>4. file'[n] = IF file[n].name = "part" THEN NoFile ELSE Unlocked(w)[n]
    BY <1>2, <2>1, <2>2 DEF Discard
  <2>5. Settled(file'[n], sidecar'[n])
    BY <2>1, <2>2, <2>4, UnlockedSame DEF Settled, NoFile, VersionInv
  <2>6. run' = [run EXCEPT ![w] = r] /\ r.n = 0 /\ r.pc \notin SplitPlaces
    BY <1>1 DEF Stop, Idle, SplitPlaces
  <2> HIDE DEF r
  <2>7. \A k \in Names : k # n =>
          /\ file'[k].name = file[k].name /\ file'[k].data = file[k].data
          /\ file[k].name = "part" => sidecar'[k] = sidecar[k]
    BY <2>3, UnlockedSame DEF VersionInv
  <2>8. /\ r.n \in {0, n} /\ run[w].n \in {0, n} /\ r.pc \notin SplitPlaces
        /\ run' = [run EXCEPT ![w] = r]
        /\ r.n # 0 => Following(r, file'[n], sidecar'[n])
    BY <2>6
  <2> HIDE DEF n
  <2>9. QED BY <2>1, <2>5, <2>7, <2>8, VersionStep
<1>3. CASE file' = Unlocked(w) /\ UNCHANGED sidecar
  BY <1>1, <1>3, UnlockedSame, VersionStops DEF VersionInv
<1>4. QED BY <1>2, <1>3 DEF Fatal, Cancel, Kill

LEMMA VersionEnds ==
  ASSUME ConstantsOK, OneWindow, VersionInv, LockInv', NEW w \in Windows,
         Finish(w) \/ Rename(w) \/ Cleanup(w)
  PROVE  VersionInv'
<1> DEFINE n == run[w].n
<1>1. n # 0 /\ run[w].pc \in {"finish", "renaming", "cleanup"}
  BY DEF Finish, Rename, Cleanup, VersionInv, LockInv, TypeInv, Run, OnFile
<1>2. /\ n \in Names /\ n \in 0 .. NNames /\ Following(run[w], file[n], sidecar[n])
      /\ Settled(file[n], sidecar[n])
  BY <1>1, OwnVersion
<1>3. CASE Finish(w)
  <2> DEFINE r == [run[w] EXCEPT !.pc = "renaming"]
  <2>1. r.pc = "renaming" /\ "renaming" \in Places \ SplitPlaces
    BY DEF VersionInv, LockInv, TypeInv, Run, Record, Places, SplitPlaces
  <2>2. file[n].name = "part" /\ IsVersion(file[n].data)
    BY <1>2, <1>3 DEF Finish, Following, Touching, Holding
  <2> HIDE DEF r
  <2>3. Following(r, file[n], sidecar[n])
    BY <2>1, <2>2 DEF Following
  <2>4. QED BY <1>3, <2>1, <2>3, UnlockedSame, VersionGoTo DEF Finish, r, VersionInv
<1>4. CASE Rename(w)
  <2> DEFINE r == [run[w] EXCEPT !.pc = "cleanup"]
  <2>1. file[n].name = "part" /\ IsVersion(file[n].data) /\ UNCHANGED sidecar
    BY <1>2, <1>4 DEF Rename, Following, Touching
  <2>2. file' = [file EXCEPT ![n].name = "final"] /\ GoTo(w, "cleanup")
    BY <1>4, <2>1 DEF Rename
  <2>3. /\ r.pc = "cleanup" /\ r.n = n /\ run' = [run EXCEPT ![w] = r]
        /\ r.pc \notin SplitPlaces
    BY <2>2 DEF GoTo, VersionInv, LockInv, TypeInv, Run, Record, SplitPlaces
  <2> HIDE DEF r
  <2>4. \A k \in Names : /\ file'[k].data = file[k].data
                         /\ file'[k].name = (IF k = n THEN "final" ELSE file[k].name)
    BY <1>2, <2>2 DEF VersionInv, LockInv, TypeInv, File
  <2>5. Following(r, file'[n], sidecar'[n]) /\ Settled(file'[n], sidecar'[n])
    BY <1>2, <2>1, <2>3, <2>4 DEF Following, Touching, Holding, Settled
  <2>6. \A k \in Names : k # n =>
          /\ file'[k].name = file[k].name /\ file'[k].data = file[k].data
          /\ file[k].name = "part" => sidecar'[k] = sidecar[k]
    BY <2>1, <2>4
  <2>7. r.n \in {0, n} /\ run[w].n \in {0, n}
    BY <2>3
  <2> HIDE DEF n
  <2>8. QED BY <1>2, <2>3, <2>5, <2>6, <2>7, VersionStep
<1>5. CASE Cleanup(w)
  <2> DEFINE r == Idle
  <2>1. file[n].name = "final" /\ UNCHANGED file /\ sidecar' = [sidecar EXCEPT ![n] = None]
    BY <1>2, <1>5 DEF Cleanup, Following
  <2>2. run' = [run EXCEPT ![w] = r] /\ r.n = 0 /\ r.pc \notin SplitPlaces
    BY <1>5 DEF Cleanup, Stop, Idle, SplitPlaces
  <2> HIDE DEF r
  <2>3. Settled(file'[n], sidecar'[n])
    BY <1>2, <2>1 DEF Settled
  <2>4. \A k \in Names : k # n =>
          /\ file'[k].name = file[k].name /\ file'[k].data = file[k].data
          /\ file[k].name = "part" => sidecar'[k] = sidecar[k]
    BY <2>1 DEF VersionInv, LockInv, TypeInv
  <2>5. /\ r.n \in {0, n} /\ run[w].n \in {0, n} /\ r.pc \notin SplitPlaces
        /\ run' = [run EXCEPT ![w] = r]
        /\ r.n # 0 => Following(r, file'[n], sidecar'[n])
    BY <2>2
  <2> HIDE DEF n
  <2>6. QED BY <1>2, <2>3, <2>4, <2>5, VersionStep
<1>6. QED BY <1>3, <1>4, <1>5

\* The steps of a fetch in segments: a window with one server that is asked in
\* sequence never gets to them.
LEMMA NeverSplits ==
  ASSUME ConstantsOK, Sequential, VersionInv, NEW w \in Windows
  PROVE  /\ ~Preallocate(w) /\ ~SaveSegmented(w) /\ ~Resume(w) /\ ~SegmentWrite(w)
         /\ ~SegmentTick(w) /\ ~SegmentEnds(w) /\ ~Restart(w) /\ ~SaveRestarted(w)
<1>1. run[w].pc \notin SplitPlaces
  BY DEF VersionInv
<1>2. /\ ~SaveSegmented(w) /\ ~SegmentWrite(w) /\ ~SegmentTick(w) /\ ~SegmentEnds(w)
      /\ ~Restart(w) /\ ~SaveRestarted(w)
  BY <1>1 DEF SplitPlaces, SaveSegmented, SegmentWrite, SegmentTick, SegmentEnds, Restart,
              SaveRestarted
<1>3. ~Preallocate(w)
  <2>1. SUFFICES ASSUME Preallocate(w) PROVE FALSE
    OBVIOUS
  <2>2. run[w].ver \in Versions /\ Offset(w) \in Nat
    BY <2>1, OffsetNat DEF Preallocate, VersionInv, LockInv, TypeInv, Run
  <2>3. /\ SizeOf[run[w].ver] \in Nat /\ SizeOf[run[w].ver] < SplitMin /\ SplitMin \in Nat
    BY <2>2 DEF ConstantsOK, Sequential
  <2>4. PICK total \in Totals(w) : Splits(w, total)
    BY <2>1 DEF Preallocate
  <2>5. PICK t \in total : t - Offset(w) >= SplitMin
    BY <2>4 DEF Splits
  <2>6. t = SizeOf[run[w].ver]
    BY <2>4, <2>5 DEF Totals, None
  <2>7. QED BY <2>2, <2>3, <2>5, <2>6
<1>4. ~Resume(w)
  <2>1. SUFFICES ASSUME Resume(w) PROVE FALSE
    OBVIOUS
  <2>2. run[w].pc = "request" /\ run[w].meta.todo # None /\ run[w].n # 0
    BY <2>1 DEF Resume, Segmented, VersionInv, LockInv, TypeInv, Run
  <2>3. QED BY <2>2, AskingVersion
<1>5. QED BY <1>2, <1>3, <1>4

LEMMA VersionNext ==
  ASSUME ConstantsOK, Sequential, VersionInv, LockInv', Next
  PROVE  VersionInv'
<1>1. OneWindow
  BY DEF Sequential
<1>2. ASSUME NEW w \in Windows, WindowStep(w) PROVE VersionInv'
  <2>1. CASE Find(w) \/ Open(w)
    BY <1>1, <2>1, VersionFind, VersionOpen
  <2>2. CASE OpenFails(w)
    BY <1>1, <2>2, VersionStops DEF OpenFails
  <2>3. CASE \/ AnswerPartial(w) \/ AnswerWhole(w) \/ AnswerNoRange(w)
             \/ AnswerWrongRange(w) \/ AnswerRefused(w)
    BY <2>3, VersionAnswers
  <2>4. CASE Begin(w)
    BY <2>4, VersionBegin
  <2>5. CASE BeginFails(w)
    <3>1. run[w].n = 0
      BY <2>5 DEF BeginFails, Destination
    <3>2. QED BY <2>5, <3>1, VersionGivesUp DEF BeginFails
  <2>6. CASE Body(w) \/ BodyEnds(w)
    BY <2>6, VersionBody, VersionBodyEnds
  <2>7. CASE BodyFails(w)
    BY <2>7, VersionGivesUp DEF BodyFails
  <2>8. CASE Retry(w)
    BY <2>8, VersionRetry
  <2>9. CASE Fatal(w) \/ Cancel(w) \/ Kill(w)
    BY <1>1, <2>9, VersionGone
  <2>10. CASE Finish(w) \/ Rename(w) \/ Cleanup(w)
    BY <1>1, <2>10, VersionEnds
  <2>11. QED BY <1>2, NeverSplits, <2>1, <2>2, <2>3, <2>4, <2>5, <2>6, <2>7, <2>8, <2>9, <2>10
             DEF WindowStep
<1>3. ASSUME NEW s \in Servers, ServerChanges(s) PROVE VersionInv'
  <2>1. UNCHANGED <<file, sidecar, run>>
    BY <1>3 DEF ServerChanges
  <2>2. QED BY <2>1 DEF VersionInv
<1>4. QED BY <1>2, <1>3 DEF Next

\* However often the connection drops, the window is killed or the content is
\* replaced, a file fetched in sequence from one server is one version of the
\* title, never two spliced together (Meta::validator and If-Range).
THEOREM NeverSpliced ==
  ASSUME ConstantsOK, Sequential PROVE Spec => []FinishedIsOneVersion
<1>1. Init => VersionInv
  BY VersionInit DEF Sequential
<1>2. VersionInv /\ LockInv' /\ [Next]_vars => VersionInv'
  <2>1. ASSUME VersionInv, LockInv', UNCHANGED vars PROVE VersionInv'
    BY <2>1 DEF vars, VersionInv
  <2>2. QED BY <2>1, VersionNext
<1>3. VersionInv => FinishedIsOneVersion
  <2>1. ASSUME VersionInv, NEW n \in Names, file[n].name = "final"
        PROVE  \E v \in Versions : Bytes(n) = {v} /\ Len(file[n].data) = SizeOf[v]
    <3>1. PICK v \in Versions : Uniform(file[n].data, v) /\ Len(file[n].data) = SizeOf[v]
      BY <2>1 DEF VersionInv, Settled, IsVersion
    <3>2. SizeOf[v] \in Nat \ {0}
      BY DEF ConstantsOK
    <3>3. 1 \in 1 .. Len(file[n].data)
      BY <3>1, <3>2
    <3>4. Bytes(n) = {v}
      BY <3>1, <3>3 DEF Bytes, Uniform
    <3>5. QED BY <3>1, <3>4
  <2>2. QED BY <2>1 DEF FinishedIsOneVersion
<1>4. QED BY <1>1, <1>2, <1>3, LocksHold, PTL DEF Spec
=============================================================================
