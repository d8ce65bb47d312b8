---------------------------- MODULE ExternalPlayers ----------------------------
(***************************************************************************)
(* The players of the system a stream is handed to on a desktop            *)
(* (src/crates/fluxplay-player/src/external.rs, start_external of          *)
(* backend.rs, the settings of src/crates/fluxplay/src/app.rs).            *)
(*                                                                         *)
(* Players are looked for in the file system: known ones as programs, then *)
(* as Flatpak applications, and the default of the desktop session from    *)
(* its associations and its .desktop entry.  The list found is kept for a  *)
(* minute; the settings show the one they saw first.  Meanwhile players    *)
(* are installed and removed and the associations change.                  *)
(***************************************************************************)
EXTENDS Naturals, Sequences, SequencesExt

CONSTANTS
  Known,    \* KNOWN: a sequence of [id, desktops]
  Mimes,    \* VIDEO_MIMES, a sequence
  Entries,  \* [desktop id -> [exec, mime, hidden]], exec a sequence of tokens
  Hosts,    \* machines at the start
  Moves,    \* machines it may become
  Saved,    \* the choice an earlier run may have saved
  Ttl,      \* CACHE_TTL
  MaxNow,   \* bound: the clock
  MaxMoves  \* bound: changes of the machine

VARIABLES
  host,   \* the machine: bins, apps, files, defaults, and whether it has `flatpak`
  moves,  \* how often it changed, and when last
  now,    \* the clock
  cache,  \* CACHE: what was found, when, on which machine
  shown,  \* external_players of the settings
  choice, \* settings.external_player, "" for the default
  told,   \* the player the settings named last, for which choice
  opened  \* the last player a stream was handed to

vars == <<host, moves, now, cache, shown, choice, told, opened>>

None == "none"
NoPlayer == [id |-> None, how |-> None, default |-> FALSE]
Nothing == [list |-> <<>>, at |-> 0, of |-> 0]
Player(id, how) == [id |-> id, how |-> how, default |-> FALSE]

-----------------------------------------------------------------------------
\* exec_template: the link takes the place of %u, other fields are dropped.
Dropped == {"@@u", "@@f", "@@", "%f", "%F", "%i", "%c", "%%"}
Template(exec) ==
  LET kept == SelectSeq(exec, LAMBDA t : t \notin Dropped)
  IN [i \in DOMAIN kept |-> IF kept[i] \in {"%u", "%U"} THEN "{url}" ELSE kept[i]]
TakesLink(exec) == "{url}" \in ToSet(Template(exec))
IsBrowser(entry) == entry.mime \cap {"text/html", "x-scheme-handler/http"} # {}

\* known_player: the program first.
HowKnown(h, k) == IF k.id \in h.bins THEN "native" ELSE IF k.id \in h.apps THEN "flatpak" ELSE None
KnownPlayers(h) ==
  LET there == SelectSeq(Known, LAMBDA k : HowKnown(h, k) # None)
  IN [i \in DOMAIN there |-> Player(there[i].id, HowKnown(h, there[i]))]

\* os_default_desktop_id: of the first type that has one, by xdg-mime or mimeapps.list.
OsDefault(h) ==
  LET having == SelectSeq(Mimes, LAMBDA m : h.defaults[m] # None)
  IN IF having = <<>> THEN None ELSE h.defaults[Head(having)]

\* desktop_player, whatever its entry opens
AnyEntry(h, id) == id \in h.files /\ ~Entries[id].hidden /\ TakesLink(Entries[id].exec)
\* desktop_player: an entry that takes a link and is no web browser
Usable(h, id) == id \in h.files /\ ~Entries[id].hidden /\ ~IsBrowser(Entries[id]) /\ TakesLink(Entries[id].exec)

\* The players of these that the desktop entry stands for
Named(list, id) ==
  {i \in DOMAIN list : \E k \in ToSet(Known) : k.id = list[i].id /\ id \in k.desktops}

\* detect_uncached, the default after the known ones
DetectedAfter(h) ==
  LET list == KnownPlayers(h)
      id == OsDefault(h)
  IN IF id # None /\ Named(list, id) = {} /\ Usable(h, id)
     THEN list \o <<[Player(id, "desktop") EXCEPT !.default = TRUE]>> ELSE list

\* detect_uncached: the default of the system in front.
Detected(h) ==
  LET list == KnownPlayers(h)
      id == OsDefault(h)
  IN IF id = None THEN list
     ELSE IF Named(list, id) # {}
     THEN LET i == CHOOSE i \in Named(list, id) : TRUE
          IN <<[list[i] EXCEPT !.default = TRUE]>> \o RemoveAt(list, i)
     ELSE IF Usable(h, id) THEN <<[Player(id, "desktop") EXCEPT !.default = TRUE]>> \o list
     ELSE list

\* detect_external_players
Read == [list |-> Detected(host), at |-> now, of |-> moves.n]
KeptForGood == IF cache # Nothing THEN cache ELSE Read
Found == IF cache # Nothing /\ now - cache.at < Ttl THEN cache ELSE Read

\* pick_external_player, or none
PickOwn(list, id) == SelectSeq(list, LAMBDA p : p.id = id)
Pick(list, id) ==
  IF PickOwn(list, id) # <<>> THEN Head(PickOwn(list, id)) ELSE IF list # <<>> THEN Head(list) ELSE NoPlayer

-----------------------------------------------------------------------------
Init ==
  /\ host \in Hosts /\ moves = [n |-> 1, at |-> 0] /\ now = 0
  /\ cache = Nothing /\ shown = Nothing
  /\ choice \in Saved
  /\ told = [by |-> ""]
  /\ opened = [what |-> None]

Tick == now < MaxNow /\ now' = now + 1 /\ UNCHANGED <<host, moves, cache, shown, choice, told, opened>>

\* A player comes or goes, the associations change.
HostMoves ==
  /\ moves.n <= MaxMoves
  /\ host' \in Moves \ {host}
  /\ moves' = [n |-> moves.n + 1, at |-> now]
  /\ UNCHANGED <<now, cache, shown, choice, told, opened>>

\* Message::Tab: the settings are shown for the first time.
ShowSettings ==
  /\ shown = Nothing
  /\ cache' = Found /\ shown' = Found
  /\ UNCHANGED <<host, moves, now, choice, told, opened>>

\* Message::SetExternalPlayer, of a player that is shown; the settings name the
\* player the next stream opens in.
SetExternalPlayer(id) ==
  /\ shown.list # <<>>
  /\ choice' = id
  /\ cache' = Found
  /\ told' = [by |-> id, player |-> Pick(Found.list, id), same |-> shown.of = moves.n]
  /\ UNCHANGED <<host, moves, now, shown, opened>>

\* command_line, launch_external: what comes of the command.  A Flatpak application
\* that is gone ends at once, after the start was told.
Spawned(p) ==
  LET there == p.id \in (CASE p.how = "native" -> host.bins
                            [] p.how = "flatpak" -> host.apps
                            [] p.how = "desktop" -> host.files)
      viaFlatpak == p.how = "flatpak" \/ (p.how = "desktop" /\ Head(Entries[p.id].exec) = "flatpak")
  IN IF viaFlatpak /\ ~host.flatpak THEN "failed"
     ELSE IF there THEN "started"
     ELSE IF viaFlatpak THEN "vanished" ELSE "failed"

\* start_external: refused while the streams go through the tunnel.
StartExternal(proxied) ==
  /\ IF proxied
     THEN opened' = [what |-> "refused"] /\ UNCHANGED cache
     ELSE LET p == Pick(Found.list, choice)
          IN /\ cache' = Found
             /\ opened' = [what |-> IF p = NoPlayer THEN None ELSE Spawned(p), player |-> p,
                           by |-> choice, host |-> host, settled |-> now - moves.at >= Ttl]
  /\ UNCHANGED <<host, moves, now, shown, choice, told>>

Next ==
  \/ Tick \/ HostMoves \/ ShowSettings
  \/ \E id \in {""} \cup {p.id : p \in ToSet(shown.list)} : SetExternalPlayer(id)
  \/ \E proxied \in BOOLEAN : StartExternal(proxied)

Spec == Init /\ [][Next]_vars

-----------------------------------------------------------------------------
Ids == {k.id : k \in ToSet(Known)} \cup DOMAIN Entries

TypeOK ==
  /\ moves.n \in 1 .. MaxMoves + 1 /\ moves.at \in 0 .. now /\ now \in 0 .. MaxNow
  /\ \A l \in {cache, shown} : l.of <= moves.n /\ l.at <= now
  /\ choice \in Saved \cup Ids \cup {""} /\ told.by \in Ids \cup {""}
  /\ opened.what \in {None, "refused", "started", "failed", "vanished"}

\* What can be opened on a machine, and what the session opens by default: "the OS
\* default video handler, then installed players known to handle IPTV links, native
\* binaries first and Flatpak apps second" (external.rs:3).
There(h) == {k.id : k \in {j \in ToSet(Known) : j.id \in h.bins \cup h.apps}}
Default(h) ==
  LET id == OsDefault(h)
      own == {k.id : k \in {j \in ToSet(Known) : id \in j.desktops}} \cap There(h)
  IN IF own # {} THEN own ELSE {i \in {id} \ {None} : Usable(h, i)}
Openable(h) == There(h) \cup Default(h)

\* A list names a player once, the default only in front, and nothing that opens a
\* link in a web browser or takes none ("never used for streams", external.rs:5).
ListIsSound ==
  \A l \in {cache.list, shown.list} :
    /\ \A i, j \in DOMAIN l : l[i].id = l[j].id => i = j
    /\ \A i \in DOMAIN l : l[i].default => i = 1
    /\ \A i \in DOMAIN l : l[i].how = "desktop" =>
         ~IsBrowser(Entries[l[i].id]) /\ TakesLink(Entries[l[i].id].exec)

\* Once the machine has been left alone for as long as a list is kept, a stream opens
\* in the player that was chosen when it is there, in the default or else in the best
\* one when it is not, and in none only if there is none.
SettledOpens ==
  opened.what \notin {"refused"} /\ "settled" \in DOMAIN opened /\ opened.settled =>
    LET h == opened.host
    IN IF Openable(h) = {} THEN opened.what = None
       ELSE /\ opened.what = "started" \/ (opened.what = "failed" /\ ~h.flatpak)
            /\ opened.by \in Openable(h) => opened.player.id = opened.by
            /\ opened.by \notin Openable(h) /\ Default(h) # {} => opened.player.id \in Default(h)
            /\ opened.player.id \in Openable(h)

\* The settings take the choice they offer, as long as the machine is the one they
\* looked at.
ChoiceTaken == told.by # "" /\ told.same => told.player.id = told.by
=============================================================================
