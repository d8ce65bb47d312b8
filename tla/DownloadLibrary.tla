---------------------------- MODULE DownloadLibrary ----------------------------
(***************************************************************************)
(* What the application remembers of downloads: the library of finished    *)
(* files, the unfinished ones a title may resume from, and how a title is  *)
(* played from disk (src/crates/fluxplay/src/downloads.rs and app.rs).     *)
(*                                                                         *)
(* Both are kept by a key of the URL.  Media of a panel are the same on    *)
(* every server of the account, so their key leaves the host out; older    *)
(* versions took the whole URL.  The library is one file for all windows:  *)
(* each reads it when it starts and writes the whole of what it knows,     *)
(* through one temporary file whose name they share.  An open file follows *)
(* a rename, so that a window may write into a library another one has     *)
(* just put in place.                                                      *)
(*                                                                         *)
(* A window is seen with one transfer at a time; PartFile says how bytes   *)
(* get into a `.part`, DownloadQueue how transfers wait.  A key is the URL *)
(* or path that is hashed, a file the title whose bytes it holds.          *)
(***************************************************************************)
EXTENDS Naturals, FiniteSets, TLC

CONSTANTS
  Windows,   \* processes of the application
  Urls,      \* records [host, path, media]: media of a panel or a plain link
  Dirs,      \* download folders
  Home,      \* the first of them
  Stem,      \* the file name each title asks for
  Old,       \* whether an older version may have left a file and a `.part`
  Copies     \* names `<stem>.ext`, `<stem> (2).ext`, ... (bound)

Title(u) == IF u.media THEN <<u.path>> ELSE <<u.host, u.path>>
TitleKeys == {Title(u) : u \in Urls}
Paths == [dir : Dirs, stem : {Stem[t] : t \in TitleKeys}, n : 1 .. Copies]

VARIABLES
  files,   \* the title each finished file holds
  parts,   \* the key and the window of each `.part`
  disk,    \* the library file
  temp,    \* the temporary one: a set of at most one map
  saved,   \* settings.download_dir
  win,     \* each window: what it has in memory and what it does
  told     \* finished files the library has: put there by a window that still runs, or
           \* by the only one, before or after a restart

vars == <<files, parts, disk, temp, saved, win, told>>

NoTitle == <<>>
NoPart == [key |-> <<>>, by |-> "nobody"]
NoMap == [k \in {} |-> 0]
Nowhere == [dir |-> Home, stem |-> "", n |-> 0]
NoJob == [step |-> "none", url |-> CHOOSE u \in Urls : TRUE, path |-> Nowhere]
Closed == [open |-> FALSE, dir |-> Home, lib |-> NoMap, partials |-> {},
           job |-> NoJob, save |-> "no", at |-> "none", adds |-> {}]

-----------------------------------------------------------------------------
UrlKeyOfPath(u) == <<u.path>>
UrlKeyWhole(u) == <<u.host, u.path>>
UrlKey(u) == IF u.media THEN <<u.path>> ELSE <<u.host, u.path>>
LegacyKey(u) == <<u.host, u.path>>
Keys(u) == {UrlKey(u), LegacyKey(u)}

\* The first of its keys a URL is known under.
KeyInLegacyFirst(u, known) ==
  IF LegacyKey(u) \in known THEN {LegacyKey(u)} ELSE {UrlKey(u)} \cap known
KeyIn(u, known) ==
  IF UrlKey(u) \in known THEN {UrlKey(u)} ELSE {LegacyKey(u)} \cap known

IsFile(p) == files[p] # NoTitle
Drop(m, ks) == [k \in DOMAIN m \ ks |-> m[k]]

\* Library::get: a set of at most one path.
Get(w, u) == {win[w].lib[k] : k \in KeyIn(u, DOMAIN win[w].lib)}

\* Library::load, entries of files that are gone left out.
Load == Drop(disk, {k \in DOMAIN disk : ~IsFile(disk[k])})
\* scan_partials, by the keys of the sidecars.
Scan(dir, in) == {in[p].key : p \in {q \in Paths : q.dir = dir /\ in[q] # NoPart}}
ForgetFirst(w, u) == win[w].partials \ {UrlKey(u)}
Forget(w, u) == win[w].partials \ Keys(u)

Alone == Cardinality(Windows) = 1
AtHome(u, n) == [dir |-> Home, stem |-> Stem[Title(u)], n |-> n]
OldUrls == IF Old THEN Urls ELSE {}

Init ==
  /\ files \in {[p \in Paths |-> NoTitle]} \cup
       {[p \in Paths |-> IF p = AtHome(u, 1) THEN Title(u) ELSE NoTitle] : u \in OldUrls}
  /\ parts \in {[p \in Paths |-> NoPart]} \cup
       {[p \in Paths |-> IF p = AtHome(u, Copies)
                           THEN [NoPart EXCEPT !.key = LegacyKey(u)] ELSE NoPart] : u \in OldUrls}
  \* a library of an older version, or none
  /\ \/ disk = NoMap /\ told = {}
     \/ \E u \in OldUrls, p \in Paths :
          /\ files[p] = Title(u)
          /\ disk = LegacyKey(u) :> p
          /\ told = {[path |-> p, by |-> {u}, title |-> Title(u), who |-> w] : w \in
                        IF Alone THEN Windows ELSE {}}
  /\ temp = {} /\ saved = Home
  /\ win = [w \in Windows |-> Closed]

-----------------------------------------------------------------------------
Free(w) == win[w].open /\ win[w].save = "no"

Launch(w) ==
  /\ ~win[w].open
  /\ win' = [win EXCEPT ![w] =
       [Closed EXCEPT !.open = TRUE, !.dir = saved, !.lib = Load, !.partials = Scan(saved, parts)]]
  /\ UNCHANGED <<files, parts, disk, temp, saved, told>>

\* The process ends, whatever it was doing: its locks go.
Kill(w) ==
  /\ win[w].open
  /\ win' = [win EXCEPT ![w] = Closed]
  /\ parts' = [p \in Paths |-> IF parts[p].by = w THEN [parts[p] EXCEPT !.by = "nobody"] ELSE parts[p]]
  /\ told' = {e \in told : Alone \/ e.who # w}
  /\ UNCHANGED <<files, disk, temp, saved>>

\* The start of Library::save, with the map `lib` in memory.
Saves(w, lib, adds) ==
  [win[w] EXCEPT !.lib = lib, !.save = "open", !.adds = adds]

\* Library::insert
Inserted(w, u, p) == UrlKey(u) :> p @@ Drop(win[w].lib, Keys(u))

-----------------------------------------------------------------------------
\* Library::save.  fs::write opens the temporary file, which empties it, then writes;
\* rename puts it in place.
OpenTempInPlace(w) ==
  /\ win[w].save = "open"
  /\ disk' = NoMap
  /\ win' = [win EXCEPT ![w].save = "write", ![w].at = "disk"]
  /\ UNCHANGED <<files, parts, temp, saved, told>>

OpenTemp(w) ==
  /\ win[w].save = "open"
  /\ temp' = {NoMap}
  /\ win' = [win EXCEPT ![w].save = "write", ![w].at = "temp"]
  /\ UNCHANGED <<files, parts, disk, saved, told>>

WriteTemp(w) ==
  /\ win[w].save = "write"
  /\ temp' = IF win[w].at = "temp" THEN {win[w].lib} ELSE temp
  /\ disk' = IF win[w].at = "disk" THEN win[w].lib ELSE disk
  /\ win' = [win EXCEPT ![w].save = "rename"]
  /\ UNCHANGED <<files, parts, saved, told>>

\* A rename that finds no file fails, which is only logged.
Rename(w) ==
  LET moves == temp # {}
      At(v) == IF ~moves THEN win[v].at
               ELSE IF win[v].at = "temp" THEN "disk"
               ELSE IF win[v].at = "disk" THEN "none" ELSE win[v].at
  IN  /\ win[w].save = "rename"
      /\ IF moves THEN disk' \in temp /\ temp' = {} ELSE UNCHANGED <<disk, temp>>
      /\ told' = {e \in told : e.who = w => \A a \in win[w].adds : e.title # a.title} \cup
                 {a \in win[w].adds : IsFile(a.path)}
      /\ win' = [v \in Windows |-> IF v = w
                   THEN [win[w] EXCEPT !.save = "no", !.at = "none", !.adds = {}]
                   ELSE [win[v] EXCEPT !.at = At(v)]]
      /\ UNCHANGED <<files, parts, saved>>

-----------------------------------------------------------------------------
\* Every URL an entry is found by.
Same(u) == {v \in Urls : Title(v) = Title(u)}

\* start_download: find_resumable, else the first free name.
FreeNames(w, u) ==
  {p \in Paths : /\ p.dir = win[w].dir /\ p.stem = Stem[Title(u)]
                 /\ ~IsFile(p) /\ parts[p] = NoPart}
Resumable(w, u) == {p \in Paths : p.dir = win[w].dir /\ parts[p].key \in Keys(u)}
\* Another window has it: the transfer fails at once.
BeginFails(w, u) ==
  /\ Free(w) /\ win[w].job = NoJob
  /\ \E p \in Resumable(w, u) : parts[p].by # "nobody"
  /\ win' = [win EXCEPT ![w].partials = Scan(win[w].dir, parts)]
  /\ UNCHANGED <<files, parts, disk, temp, saved, told>>

Begin(w, u) ==
  /\ Free(w) /\ win[w].job = NoJob
  /\ \E p \in Paths :
       /\ IF Resumable(w, u) # {} THEN p \in Resumable(w, u) /\ parts[p].by = "nobody"
          ELSE p \in FreeNames(w, u) /\ \A q \in FreeNames(w, u) : p.n <= q.n
       /\ parts' = [parts EXCEPT ![p] = [key |-> UrlKey(u), by |-> w]]
       /\ win' = [win EXCEPT ![w].job = [step |-> "runs", url |-> u, path |-> p]]
  /\ UNCHANGED <<files, disk, temp, saved, told>>

\* finish: the task renames its `.part`, to another name if somebody took its own.  The
\* event arrives later.
Targets(p) ==
  LET free == {q \in Paths : q.dir = p.dir /\ q.stem = p.stem /\ ~IsFile(q)}
  IN  IF p \in free THEN {p} ELSE {q \in free : \A r \in free : q.n <= r.n}
Completes(w) ==
  LET job == win[w].job
  IN  /\ Free(w) /\ job.step = "runs"
      /\ \E p \in Targets(job.path) :
           /\ files' = [files EXCEPT ![p] = Title(job.url)]
           /\ win' = [win EXCEPT ![w].job = [job EXCEPT !.step = "complete", !.path = p]]
      /\ parts' = [parts EXCEPT ![job.path] = NoPart]
      /\ UNCHANGED <<disk, temp, saved, told>>

\* DownloadEvent::Finished
Finished(w) ==
  LET job == win[w].job
  IN  /\ Free(w) /\ job.step = "complete"
      /\ win' = [win EXCEPT ![w] =
           [Saves(w, Inserted(w, job.url, job.path),
                  {[path |-> job.path, by |-> Same(job.url), title |-> Title(job.url), who |-> w]})
            EXCEPT !.partials = Forget(w, job.url), !.job = NoJob]]
      /\ UNCHANGED <<files, parts, disk, temp, saved, told>>

\* The transfer fails: its `.part` stays, unless it is empty, and the folder is scanned.
Fails(w) ==
  /\ Free(w) /\ win[w].job.step = "runs"
  /\ \E empty \in BOOLEAN :
       parts' = [parts EXCEPT ![win[w].job.path] =
                   IF empty THEN NoPart ELSE [@ EXCEPT !.by = "nobody"]]
  /\ win' = [win EXCEPT ![w].job = NoJob,
       ![w].partials = Scan(win[w].dir, parts')]
  /\ UNCHANGED <<files, disk, temp, saved, told>>

\* cancel_download, once the application knows the `.part`.
Cancel(w) ==
  LET job == win[w].job
  IN  /\ Free(w) /\ job.step = "runs"
      /\ parts' = [parts EXCEPT ![job.path] = NoPart]
      /\ win' = [win EXCEPT ![w].job = NoJob, ![w].partials = Forget(w, job.url)]
      /\ UNCHANGED <<files, disk, temp, saved, told>>

-----------------------------------------------------------------------------
\* PlayMedia, downloaded_file: the library, then a file of that name; what is gone is
\* forgotten, what is found by its name is learnt.  The application may not know the name
\* the title was saved under (an episode's comes from its page).
ByName(w, u) == [dir |-> win[w].dir, stem |-> Stem[Title(u)], n |-> 1]
Runs(w, u) == win[w].job.step # "none" /\ win[w].job.url = u
Play(w, u) ==
  LET gone == {p \in Get(w, u) : ~IsFile(p)}
      lib == IF gone = {} THEN win[w].lib ELSE Drop(win[w].lib, Keys(u))
      p == ByName(w, u)
      Learnt == UrlKey(u) :> p @@ Drop(lib, Keys(u))
  IN  /\ Free(w)
      /\ Get(w, u) = gone
      /\ \/ /\ gone # {}
            /\ win' = [win EXCEPT ![w] = Saves(w, lib, {})]
         \/ /\ ~Runs(w, u) /\ IsFile(p)
            /\ win' = [win EXCEPT ![w] =
                 Saves(w, Learnt, {[path |-> p, by |-> Same(u), title |-> Title(u), who |-> w]})]
      /\ UNCHANGED <<files, parts, disk, temp, saved, told>>

SaveDownloadDir(w, dir) ==
  /\ Free(w) /\ dir # win[w].dir
  /\ saved' = dir
  /\ win' = [win EXCEPT ![w].dir = dir, ![w].partials = Scan(dir, parts)]
  /\ UNCHANGED <<files, parts, disk, temp, told>>

\* The user, in the folder.
DeleteFile(p) ==
  /\ IsFile(p)
  /\ files' = [files EXCEPT ![p] = NoTitle]
  /\ told' = {e \in told : e.path # p}
  /\ UNCHANGED <<parts, disk, temp, saved, win>>

Next ==
  \/ \E w \in Windows :
       \/ Launch(w) \/ Kill(w) \/ OpenTemp(w) \/ WriteTemp(w) \/ Rename(w)
       \/ \E u \in Urls : Begin(w, u) \/ BeginFails(w, u) \/ Play(w, u)
       \/ Completes(w) \/ Finished(w) \/ Fails(w) \/ Cancel(w)
       \/ \E dir \in Dirs : SaveDownloadDir(w, dir)
  \/ \E p \in Paths : DeleteFile(p)

Spec == Init /\ [][Next]_vars

-----------------------------------------------------------------------------
TypeOK ==
  /\ files \in [Paths -> TitleKeys \cup {NoTitle}]
  /\ Cardinality(temp) <= 1 /\ saved \in Dirs
  /\ \A w \in Windows :
       /\ win[w].save \in {"no", "open", "write", "rename"}
       /\ win[w].at \in {"none", "temp", "disk"}

\* Wherever the account's servers and the plain links of the same path are, whatever was
\* deleted, moved or written by other windows, a file played from disk is the title's.
PlaysItsTitle ==
  \A w \in Windows, u \in Urls : \A p \in Get(w, u) : IsFile(p) => files[p] = Title(u)

\* A finished file the library was told of is found by the URLs of its title from then
\* on, as long as it is there: by the window, and after a crash in the middle of a save,
\* with another folder and with the keys of an older version.  Two windows only keep what
\* they know while they run, for each writes its own map over the other's.
FoundAgain ==
  \A e \in told : Free(e.who) => \A u \in e.by : Get(e.who, u) = {e.path}

\* With one window and no transfer under way, a title is offered to resume only if there is a `.part` to resume.
ResumeOffered ==
  Alone =>
    \A w \in Windows, u \in Urls :
      win[w].job = NoJob /\ KeyIn(u, win[w].partials) # {} => Resumable(w, u) # {}
=============================================================================
