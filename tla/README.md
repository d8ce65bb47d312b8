# FluxPlay in TLA+

FluxPlay is an IPTV player written in Rust: it browses the catalogues of Xtream,
Stalker and M3U providers, plays their streams with mpv or FFmpeg, and downloads
films and episodes. This directory specifies it: what its threads, tasks and
handlers do, what must never come of it, and, for its core, why it never does.

Contents: [the system](#the-system), [what is hard](#what-is-hard),
[the modules](#the-modules), [the runs](#the-runs),
[conditions left out of the passing runs](#conditions-left-out-of-the-passing-runs),
[fairness](#fairness), [the proofs](#the-proofs),
[what was seen to go wrong](#what-was-seen-to-go-wrong),
[what is not modelled](#what-is-not-modelled), [the plan](#the-plan).
Paths are relative to `src/crates/fluxplay/src/`, or to the crate they name.

## The system

The user interface is one thread: `app.rs` handles one message at a time and starts
everything else as tasks and threads, which answer by messages. Around it:

| area | component and code | state it keeps | modules |
|---|---|---|---|
| downloads | manager, `app.rs` 2427–2570, 8238–8351 | states of the URLs, the queue, task handles | DownloadQueue |
| | account, `downloads/account.rs` | slots and their ceiling, leases, waiters, the trial under way | DownloadAccount |
| | part file, `downloads.rs` | the `.part`, its lock, the `.part.meta` sidecar | PartFile |
| | segmented fetch, `downloads/parallel.rs` | spans, server states, connections | SegmentedFetch, ResumableFile |
| | stream links, `downloads/links.rs` | one token per server, its age | StreamLinks |
| | finished files, `downloads.rs`, `app.rs` | the library of files, what may be resumed | DownloadLibrary |
| library | catalogue, `catalog_db.rs`, `app.rs` | one SQLite file per profile, the bundle in memory | Catalogue, LegacyCatalog |
| | browser, `app.rs`, `browser.rs` | the view, its index, categories, offsets | Browse, Sidebar, Languages, Scroll |
| | pictures, `images.rs` | memory cache, fetches, hosts at rest | Images |
| panels, network | servers, `fluxplay-providers/src/servers.rs` | ranking and probes | Servers |
| | requests, `xtream.rs`, `api_cache.rs` | cache on disk, permits | PanelLoad |
| | health of the panels, `fluxplay-providers/src/health.rs` | none | PortalCheck |
| | playlists and portals, `m3u_source.rs`, `stalker.rs`, `fluxplay-core/src/m3u.rs` | none | Playlists |
| | tunnel, `wg_tunnel.rs`, `wg_proxy.rs`, `http_client.rs` | the proxy, the clients' setting, slots, names | Tunnel, WgProxy |
| titles | pages, `app.rs` | the page that is open, caches of answers | Pages |
| | metadata, names, translation, `metadata.rs`, `names.rs`, `translate.rs` | the throttles | ApiGate, TitleLookup, TitleNames, Translate |
| | guide, `app.rs`, `catalog_db.rs`, `fluxplay-core/src/models.rs` | programmes in memory and on disk | Guide |
| playback | session and engines, `fluxplay-player/src/session.rs`, `backend.rs` | engine, volume, mute, settings | Player |
| | audio focus, `app.rs`, `android_bridge.rs` | focus, flag, posts | AudioFocus |
| | window and stage, `app.rs`, `video_stage.rs` | windows, generations, sizes | Stage, PlayerWindow |
| | frames, `ffmpeg_pump.rs`, `video_frame.rs` | slots of the card, the mask | FramePump |
| | embedded player, `native/ffmpeg_embed.c` | queues of packets and pictures, the ring of sound | EmbedPlayer, AudioQueue |
| | episodes, `app.rs` | queue of the series, the preload | Episodes |
| | start of an engine, `backend.rs`, `app.rs` | the engine, its process and socket, the options, the surface on Android | EngineStart |
| | players of the system, `fluxplay-player/src/external.rs` | the list found, its age, the choice | ExternalPlayers |
| not modelled | overlay, theme, dialogues, quality tables, storage, bindings, bridge, logs | | see [below](#what-is-not-modelled) |

How they interact. A download holds a lease of its account for its whole run and a
slot for each connection; it gets its URL from the links of a server, its servers
from the ranking, and tells the manager by messages that carry only the URL.
A portal's dump goes through the requests and the cache into the catalogue's file,
from there into the bundle in memory, from there into the browser's index; the pages
write what they learn into all three. The player takes its URLs from the servers, or a
file from the finished downloads, and the HTTP clients and the player take the proxy of
the tunnel that runs. Messages arrive in any order, and rarely say what they were
asked for.

## What is hard

* **Downloads.** A connection clamps a write under the lock, writes outside it and
  commits under it again; a checkpoint reads the holes, syncs, and replaces the
  sidecar while others write; the process may die, and the power go, at any of these
  points. Two windows may find one file; the content may change on the servers; an
  answer may be 206, 200, 416 or the wrong range. Two kinds of waiters share one
  `Notify`; a mutex is held over a sleep and a request. *No byte is fetched by two, none is
  forgotten, what gets the final name is one whole version; no wakeup and no slot is lost; a
  renewal never kills our own transfers whose target has not failed; no queued title waits beside a free transfer.*
* **Library.** A row of the catalogue lives in the file, in the bundle, in a load, in a page's copy
  and in an ingest at once, and each of them is saved as a whole. *What an
  enrichment found is not lost, what is shown at rest is what the file holds,
  and a dump is skipped only if nothing changed.*
* **Panels and network.** Probes, rankings, cached answers and edits of the profile change under one
  another; a tunnel's start awaits the network while the user turns it off. *Every server is used
  before giving up, and nothing goes around a tunnel that is on.*
* **Titles.** Answers come back after their page was left; services are
  asked by id, then by name; the same name is read by two parsers. *An answer reaches
  the title it is about, and what is known is not displaced by what was guessed.*
* **Playback.** Decoder, pump, interface and graphics card pass slots around; the activity's main
  thread, the tick and the system move the audio focus; windows change size late and tell it
  later. an engine fails, another is tried, a process ends at once and is started again; players are installed
  and removed while a list of them is kept. *No picture is torn, shown out of order or kept after the stop; the user's pause
  stays; threads end; one engine plays, it is the one named, and it keeps to the tunnel.*

## The modules

Each models whole handlers: an action is a handler, a task's stretch between two awaits, or a
thread's between two unlocks, with every call it makes that changes state. Where a
number of bytes, a time or a version matters only by comparison it is a small number;
elapsed time is otherwise a choice.

### Downloads

**SegmentedFetch** follows `parallel.rs`. `spans` is `Work.spans`; a span is
named by the offset it was pushed at instead of by a counter, and `OneFetcher`
checks that this name is unique. `conn[c]` is one task of `connection`: *acquiring*
a slot, *picking* a server, *opening* it, *fetching*, *writing* (the clamp is done
and the write is outside the lock), *written* (before the commit). `co` is the
coordinator's place in `run`: in its *loop*, at the *sync* or the *save* of a
checkpoint, at the *truncate*-and-save of a restart, *done*. `written` is the file as the
operating system shows it, `durable` what a power cut leaves of it. A connection
that was aborted while its write ran on a blocking thread is *detached*, and the
write lands later (`LateWrite`). **ResumableFile** is what it promises: bytes come in any
order, and one leaves the list of missing ones only once it survives a power cut.
`SegmentedFetch!IsResumableFile` is the refinement.

**PartFile** follows `find_resumable`, `download_into`, `attempt` and `finish` of `downloads.rs`.
A byte is the version of the content it came from, 0 when the file was only
extended, so that a splice of two versions and a hole are both visible. `run[w]`
is the download of window `w`: its place, its file, `Meta` in memory, the answer
it is reading. The segmented phase is `SegmentedFetch` from outside: it writes
missing bytes, checkpoints what it wrote, and ends or loses its ranges. `server`
is external: its content and its support of ranges change.

**DownloadAccount** follows `account.rs`. Each fetcher and each title has a place
in `acquire` or `lease`: *asking*, *enabled* (registered, has not looked at the
counters yet), *queued* (counted as waiting, not asleep yet), *waiting*, *holding*,
*dropped* (counter given back, notification not yet sent). `notified` are the registered
waiters that a `notify_waiters` has reached. A hold ends, a refusal gets old and a limit is
forgotten by choice.

**StreamLinks** follows `Links::send`: *known*, *clear*, *renew*, *wait*, *panel*,
*answer*, *shared*, *stream* are its awaits. `lock` is the owner of the token's
mutex as a set, so that it can be dropped. The panel is external: it
issues a token, revokes the oldest one beyond its limit, refuses, or loses its answer. A known target fails when its
token is revoked, and also when its node cannot be reached or answers anything but success (416, 429, 503) although the
token is honoured: `send` does not tell these apart. `failed` is a history: the targets a connection found failing.

**DownloadQueue** follows the handlers of `app.rs`. One handler is one step; a
transfer is seen from outside (new, open, gone) and sends its events into
`inbox`, where they stay when it is aborted. `Gens` numbers the tasks of a URL that
are live or still have messages; a number is used again once neither holds.

**DownloadLibrary** follows `Library` (load, get, insert, remove, save), `scan_partials`,
`partial_for`, `downloaded_file`, `find_by_name` and the folder of the settings, with restarts,
crashes in the middle of a save, and the older form of the keys.

### The library

**Catalogue** follows the fetches, ingests, loads and enrichments that `app.rs` starts over
`catalog_db.rs`, one title for each profile. A row is the portal's version of its own fields,
whether it holds metadata and episodes, and the column `meta_ok`; `db` is the files,
`bundle` the rows in memory, `jobs` what runs on other threads with the copies it took.
An ingest commits the rows and then writes the checksum of the dump, in two steps. **LegacyCatalog** is
what every opening of the catalogue does first, statement by statement: the one file
of earlier versions becomes one per profile, and profiles without channels are filled again from it.

**Browse** has the view, the bundle's lists and `browse_index`, made at once or from a snapshot
on another thread with a generation. **Sidebar** has the categories beside a list, made anew by the messages that are
known to change it, their order by the viewer's language and the filter on it; **Languages** reads
the codes and tags of the names, **Scroll** which rows of a list are laid out and how finger, wheel and keys
move it. **Images** has the cache of pictures, its fetches and the two passes that ask for them.

### Panels and network

**Servers**: probes all at once, the ranking and its cache, the load, the stream and the download that move
from server to server, demotion, edits of the profile. **PanelLoad**: `load_bundle` through the cache
on disk, the two permits and the fallback to stale answers. **Playlists**: a playlist read line by
line after one user agent and then another was tried, a portal's handshake, genres and pages. **PortalCheck**: the
diagnosis of the panels, request by request, while accounts end and connections are taken elsewhere.

**Tunnel**: a start stops the proxy there is, waits for the network, installs its proxy under a lock and
then points the HTTP clients at it; the interface stops the tunnel in two steps too; `opts` is the
proxy the player got. **WgProxy** is one such proxy: the profile by sections, the handshake, the port and its
slots, the names resolved and kept in the tunnel, the requests passed on.

### Titles

**Pages**: what opening a page asks of the panel, the web and a translator, the two passes that complete
titles in the background, and how each answer reaches library, page and disk. **TitleLookup**: the
services asked one after the other, the merge, the entry it is applied to. **ApiGate**: the throttle of a
public service, `blocked`, the slot, the sleep, the cooldown. **TitleNames**: a panel's name read by the
two parsers. **Translate**: several texts in one request, pieces, the second service. **Guide**: short
listings and XMLTV, their merges in memory and on disk, the rows a load reads (so many, the oldest first), `now_next`.

### Playback

**Player**: `StreamSession` over five kinds of engine, what is ordered, what reaches the engine, what the user is
shown. **AudioFocus**: the tick, the activity's main thread and the system. **Stage**: play, stop, the late
close and the uploads with their generations. **PlayerWindow**: size of window, stage and picture, full
screen and picture in picture, with what the window system does late and tells later. **FramePump**: the slots
that presenter, pump, interface and card share. **EmbedPlayer**: the demuxer, decoder and presenter of
`ffmpeg_embed.c` with their queues under one mutex. **AudioQueue**: its ring of samples. **Episodes**: the
queue of the series that plays and the one episode loaded ahead. **EngineStart**: `detect_backends`, `pick_backend`,
`play` with its fallbacks and its second attempt, `stop`, `restart`, the surface's ladder on Android; a
process is the only thing that moves meanwhile, for `play` holds the player. Which decoder comes into use and which options
a build of libmpv refuses are choices. **ExternalPlayers**: what `detect_external_players` finds in the file system,
for how long it is believed, and what becomes of the command that is started.

### Instances

`MCDownloads`, `MCLibrary`, `MCViewing`, `MCLive` and `MCFindings` put small instances side by side: the
initial state chooses one (`case`, `part` or `Finding`), the variables of the others stay at `Unused`, and
one run explores them all. The parts share no variable, so that the run is the union of theirs. The parts ViewingProofs
is about are instances of that module, with their bounds and faults as its constants; `MCViewing` extends it
and its configuration gives them values, so that what is proved is what is run.
SegmentedFetch and DownloadQueue are their own root modules. Definitions named
after another with a suffix (`TakeHeadUncut`, `SaveUnsynced`, ...) are faulty variants of it: each stands
for a bug one could write there, and shows that some property of a run would notice.

## The runs

| run | instance | what it shows |
|---|---|---|
| `seg_power` | 4 bytes, spans of at most 3, writes of at most 2, 2 connections, 1 server; drops, disk, sync and save errors, kills, power cuts | types; `CompleteWhenOk`; `OneFetcher`; `UnwrittenNeverDone` and `DroppedIsDurable` across any number of crashes; `MissingShrinks`; `IsResumableFile` |
| `seg_servers` | 2 bytes, 2 connections, 2 servers, one that refuses, both may lose their ranges | `RestartsAreSafe` down to the restart of the whole file; `RunEnds` under fairness |
| `downloads` | the account: 2 fetchers, 2 titles of which one waits, 1 to 2 slots, 1 stream. Part files: one window and 3 versions of growing size, with kills; one window with segments from 2 servers and 2 versions; 2 windows on 2 names. Finished files: 2 folders; 2 copies of a name; links of one path; 2 windows | `CountsSound`, `NoLostWakeup`, `LimitRespected`, `TrialJudgedAtItsCount` of the account; `FilesSound`: `FinishedIsOneVersion`, `FinishedIsWhole`, `SidecarHonest`, `OneWriter` of PartFile, `FoundAgain`, `PlaysItsTitle`, `ResumeOffered` of DownloadLibrary |
| `queue_states` | 3 titles, 1 transfer at a time, 2 tasks per title, 2 pending messages | `QueueInStep`, `SlotsUsed` |
| `library` | the catalogue of 2 profiles with kills, and of one through 4 requests; a profile found locked; browser, pictures (2 views), servers (1 and 3), a panel (2 categories), the tunnel for a user who waits (3 starts) and one who does not (2), the proxy (2 clients, 1 slot), the split (2 crashes) | types; `EnrichmentKept` and `CatalogueIsCurrent` of Catalogue; `LibraryIsCurrent`: the latter for the longer instance, `IndexIsView`, `EpisodesListed`, `SlotsAreUsed`, `ArrivedAreShown`, `RowsArrive`, `SumsAreTrue`, `RemovedStay`; `PanelsServe`: `GivesUpLast`, `RanksAll`, `FailoverReaches`, `ReloadIsFresh`, `HadIsKept`, `EveryCategory`; `TunnelHolds`: `FailClosed`, `SettingHolds`, `OnlyThroughTunnel`, `NamesAreFresh`, `ProfileIsWhole`, `OneAnswerPerRequest` |
| `viewing` | pages of two films and of a film and a series, the throttle, the search, names, texts, two guides (one of more rows than a load reads, with a programme longer than it looks back), episodes, a list of three lengths, categories, playlists and portals, the diagnosis of 2 panels; 5 computers and 2 phones on which an engine is started twice, 2 known players and 3 desktop entries on 6 machines; five engines, the focus with and without a keyboard, stage, frames, the embedded player, the ring of sound with and without a full pipe, the window | types; `PagesSound`, `NamesRead`, `GuideIsRight`, `EpisodesFollow`, `KnownStays`, `CallersSpaced`, `EngineAsShown`, `UserPauseStays`, `StoppedIsOver`, `LateStepsHarmless`, `FilmInOrder`: each is the conjunction its comment in `MCViewing` lists |
| `live` | 2 connections and 3 tokens with a panel that leaves one valid, every fault; 2 titles; the focus; 3 slots; a film of 3 packets | `TokensSpared`; under fairness `SendEnds`, `QueuedStarts`, `FocusSettles`, `SlotComesFree`, `NeverHangs` |
| `part_crash`, `part_race`, `queue_stale`, `servers_cdn`, `split_nolive` | smallest instances | five statements of the repository that its code does not keep, see [below](#what-was-seen-to-go-wrong) |

Why the bounds are enough. In `seg_power` the file is long enough for a head to
be cut off the first span (more than `MaxSpan`), for a span to be halved while its
owner is inside a write of two bytes that reaches over the cut, for a span to be
given back half written, and for a checkpoint to list two holes. Crashes are not
counted: a run may be interrupted again and again. Two connections are enough for
every pairwise race on the spans, and the proofs below hold for any number. In the
account two fetchers of one title compete for one slot that may become two, which is where a
trial, a refusal during the trial and a refusal outside it differ; two titles
compete for one stream. Three versions allow the content to change twice in one download, which a validator
kept too long would need; two windows are two writers. `queue_states` has three titles so
that two wait behind one and are cancelled in the middle of the queue; two generations and two
messages let an aborted task's message meet its successor. The catalogue needs two profiles for one to be
removed or refreshed beside the other, and four requests on one profile for a load, an
ingest and an enrichment to overlap in every order the code allows; the proof says
that neither bound matters. Three starts of the tunnel are an old one, one cancelled on its way and
its successor. The instances of viewing have two of whatever may be mistaken for one
another (titles, panels, channels, series, texts, plays, sizes). `live` repeats parts of the others on fewer values, because
liveness is checked over every behaviour: two connections still meet at the mutex, and three
slots are the smallest set in which one is free while one is shown and one drawn.

Deadlock is checked in `downloads`, the two queue runs, `part_crash` and `part_race`; in the others something
really ends: a file that is complete, a film, a page, a bounded number of requests.

## Conditions left out of the passing runs

Many modules have a constant `Faults`, the things that the environment, or a user in a hurry, may do. Where the code does
not keep a property under one of them, the passing runs leave it out, the
comment in the module says so, and the violation was seen with TLC. The code is
exposed to every one of these:

| module | condition | what fails |
|---|---|---|
| SegmentedFetch | `Fickle` servers with kills, power cuts or failing saves | `UnwrittenNeverDone`: `parallel.rs` 429 |
| | power cuts after a prefix fetched sequentially | `UnwrittenNeverDone`: `downloads.rs` 844 |
| PartFile | "save" and "kill" | `FinishedIsOneVersion`, `SidecarHonest`: `downloads.rs` 495 |
| | two servers | `FinishedIsOneVersion`: no validator is sent to the second (752; `parallel.rs` 534) |
| DownloadLibrary | two windows | each saves the map it loaded when it started; offers to resume get stale |
| | two titles of one file name | `PlaysItsTitle`: `app.rs` 8395–8401 |
| Catalogue | "enrich" | `EnrichmentKept`, `CatalogueIsCurrent`: `app.rs` 5409–5460 |
| | "loads", "locked" | views at rest are not those of the file; with longer runs a stale bundle is saved over newer rows |
| | "ingests" | a dump is skipped though rows changed |
| | "kill" together with "fetches" | the same, by two fetches whose older dump is ingested last (`catalog_db.rs` 403–406); neither alone |
| LegacyCatalog | "overlap"; "rename"; "locked" | `RowsArrive` (1366); `RemovedStay`; `SumsAreTrue` |
| Browse | "moves" | `IndexIsView`: `app.rs` 640, 6158 |
| Sidebar | "merges"; "moves" | the count of all titles stays old (5301); a stale build is shown after the fast path; a chosen category without a row leaves an empty list |
| Scroll | "episodes"; "frame" | `RestAgrees`: 5434; 6190–6250 |
| Images | "leave" | `ArrivedAreShown`: 6163 against 5700 |
| Servers | "stale" | `RanksAll`: 4493 |
| PanelLoad | "overlap" | `ReloadIsFresh` |
| Playlists | "shift"; "page" | `PortalRead`; a page of HTML becomes channels |
| Tunnel | "overlap" | `SettingHolds` (`FailClosed` holds) |
| Pages | "bare", "batch", "episodes"; equal ids of two panels | `SavedCreditsStay` and the like; `PageIsTapped` |
| TitleLookup | "lost" | `KnownIdStays`: `metadata.rs` 386 |
| TitleNames | odder names | `AskedIsShown`: "FR - 1917" is asked for with its year |
| Guide | guides without stops; ids two channels share | `GuideSurvives`; `ShownIsOnAir` |
| | a programme on now that began over 6 hours ago, or with over 8000 rows of the look-back begun up to it (`catalog_db.rs` 699–705) | it is not loaded, and nothing is shown for it after a restart: both happen in the run, and `GuideSurvives` is about the other programmes (`Reached`) |
| Player | "key", "ipc"; "paused"; "settings" | `MutedIsSilent`, `VolumeIsHeard`; `PausedIsPaused`; `SettingsMirrored` (`session.rs` 39) |
| AudioFocus | "hotkey" | `UserPauseStays`: `app.rs` 3384 |
| Stage | "fast" | `StoppedIsClosed` |
| PlayerWindow | "closed in pip"; "fast"; "portrait" | `FlagsHold`; `RectSettles`; `FrameFits` |
| FramePump | "resize" | `Untorn`: `video_frame.rs` 186 |
| AudioQueue | "full" | `HeardInOrder`: `ffmpeg_embed.c` near 1604 |
| Episodes | "browse" | `QueueStays`, `PlayedFileStays`: `app.rs` 7518–7573 |

## Fairness

Fairness is stated only where a liveness property is checked.

* `SegmentedFetch!FairSpec`: the runtime runs every task that can run
  (`ConnStep`, checkpoint, start of a run: weak). The coordinator passes the top of
  its loop, where it spawns and notices the end, again and again between
  checkpoints that keep coming (`Spawn`, `Drained`: strong, because a checkpoint
  disables them for a moment). Servers answer and send data again and again
  (`OpenOk`, `FlushClamp`: strong); a rest ends (`retry_at`). Without answers the
  loop of `run` goes on for ever, by design: progress resets the retries.
* `StreamLinks!FairSpec`: a request ends, by its timeouts, and tokio's mutex is
  fair: it is handed over in the order it was asked for, hence strong fairness for a
  connection that keeps finding it taken.
* `DownloadQueue!FairSpec`: the runtime of the user interface handles its
  messages (weak); a transfer that is not cancelled ends one day (strong). The last is an assumption
  about servers, as above. Nothing is assumed of the user.
* `AudioFocus`: the main thread of the activity runs its posts (weak), and the tick, which comes every 250 ms or
  less, finds the flag fresh again and again (strong). Nothing is assumed of the system.
* `FramePump`: the presenter, the pump's polls and the steps of the interface are taken (weak).
* `EmbedPlayer!FairSpec`: its threads run (weak); reading a packet ends again and again (strong), for its
  network timeout interrupts it.

In `MCLive` each condition of the specification is the disjunction of one condition
of each part: in a behaviour of one part the other disjuncts are never enabled, so that it is
the condition of that part and no other.

## The proofs

Eight modules hold theorems that TLAPS checks (DownloadAccount, StreamLinks and Tunnel beside
their actions, ViewingProofs for the throttle, the session and the start of its engine, the embedded player with its
sound, the player's window, the focus, the episodes, the stage and the frames, the others for the module of their name), for every value of the
constants that their assumptions allow: any number of connections, windows, fetchers,
titles, profiles, slots or callers, any file, any film, any number of requests. Each invariant was
checked with TLC, as an invariant of an instance, before it was proved.

| theorem | states | for |
|---|---|---|
| SegmentedFetchProofs: `TypeCorrect`, `OwnersInStep`, `SpansHaveOneFetcher`, `MissingOnlyShrinks` | `TypeOK`, `OwnerInStep`, `OneFetcher`, `MissingShrinks` | everything |
| `OkIsComplete`, `DoneIsWritten`, `RestartsLoseNothing` | `CompleteWhenOk`, `UnwrittenNeverDone`, `RestartsAreSafe` | `RestartsUndisturbed`, `PrefixSafe` |
| `DoneIsDurable`, `ImplementsResumableFile` | `DroppedIsDurable`, `IsResumableFile` | `RestartsUndisturbed` |
| PartFileProofs: `FilesTyped`, `FilesHaveOneWriter` | types, `OneWriter` | everything: any windows, any faults |
| `FinishedFilesAreWhole`, `SidecarsAreHonest` | `FinishedIsWhole`, `SidecarHonest` | one window, no kill, no lost save |
| `NeverSpliced` | `FinishedIsOneVersion` | one window, one server, no lost save, sizes under `SplitMin`; kills |
| DownloadAccount: `CountersAreExact`, `WakeupsArrive`, `LimitIsRespected`, `TrialsAreJudged` | `CountsSound`, `NoLostWakeup`, `LimitRespected`, `TrialJudgedAtItsCount` | everything |
| StreamLinks: `RenewalsSpareTransfers` | `TokensSpared` | everything |
| `OnlyRevokedFail` | a target that failed is revoked | "connect" and "status" left out |
| `OneAsksThePanel` | the mutex, and that no target is known | everything |
| DownloadQueueProofs: `QueueStaysInStep`, `NoTransferIsLeft` | `QueueInStep`, `SlotsUsed` | everything |
| `TransfersAreCounted` | `AtMostMaxTransfers` | no title requested again while messages of its last task are pending |
| CatalogueProofs: `EnrichmentIsKept` | `EnrichmentKept` | "enrich" left out |
| `CatalogueStaysCurrent` | `CatalogueIsCurrent` | "enrich", "loads", "locked", "ingests" left out, and not "kill" with "fetches" |
| `RestIsShown` | its second half, `RestShowsDisk` | "enrich", "loads", "locked" left out |
| Tunnel: `NoProxyIsLeft`, `NothingLeaks` | `TypeOK`, `FailClosed` | everything |
| `RestIsAsSet` | `SettingHolds` | a user who waits for a start to end |
| ViewingProofs: `CallersAreSpaced`, `SlotsAreNear` | `CallersSpaced`; nobody waits for more than one interval | everything |
| `PausesStay` | `UserPauseStays` of AudioFocus | "hotkey" left out |
| `HiddenPlayersPause` | `HidesPaused`: a tick leaves no hidden player playing | "quick" left out |
| `EpisodesAreFollowed` | `NextFollows`, `OnePreload` of Episodes | everything |
| `QueueIsKept` | `QueueStays` | "browse" left out |
| `StageIsTyped`, `PicturesFollow`, `ClosesSpareThePlay` | types and uploads of Stage; `PicturesInOrder`; `CloseSparesPlay` | everything |
| `StoppedStaysOver` | `StoppedIsBlank`, `StoppedIsClosed` | "fast" left out |
| `FramesAreTyped`, `SlotsComeBack` | types of FramePump; `NoSlotLost` | everything |
| `PicturesStayWhole` | `Untorn` | "resize" left out |
| `FilmKeepsItsOrder` | `OneSeekAtATime`, `InFilmOrder`, `ReadAheadSound` of EmbedPlayer | everything |
| `SoundKeepsItsOrder` | `HeardInOrder` of AudioQueue | "full" left out |
| `StageSettles`, `FlagsTellTheWindow` | `RectSettles`, `FlagsHold` of PlayerWindow | "fast" left out; "closed in pip" left out |
| `PicturesFitTheStage` | `FrameFits` | "portrait" left out, and constants that lie (`AllLie`) |
| `SessionIsTyped`, `StartIsTyped` | `TypeOK` of Player and EngineStart | everything |
| `EngineDoesAsShown` | `MutedIsSilent`, `VolumeIsHeard`, `PausedIsPaused`, `SettingsMirrored` of Player | "key", "ipc", "paused", "settings" left out |
| `WhatStartsIsShown` | `OneEngine`, `SaysWhatPlays`, `ThroughTheProxy`, `FramesAreRead`, `PictureIsSeen` of EngineStart | everything |
| `FilmStaysInOrder`, `LateStepsSpareWhatIsNewer`, `EngineIsAsShown` | `FilmInOrder`, `LateStepsHarmless`, `EngineAsShown` of the run | as for their parts |

A hypothesis other than *everything* is a place where the code does not keep the promise, shown by TLC
(the table of conditions above), and nothing more is excluded, but for two: PartFileProofs leaves
kills out of the segmented case, which is `part_crash`, and more than one window out of
all but `OneWriter`, which is `part_race`.

**Segmented fetch.** The invariant of the spans is `FullInv`. `OneFetcher` alone is not inductive. That a claim
gives the new span a name nobody uses needs to know that a span keeps to the right of where it was pushed
and that no other span reaches into what it covered since (`Separate`). That a
commit does not run over a neighbour needs to know that the committing connection
stands where its span starts (`OwnerInStep`) and that nobody else holds that span
(`Holders`). That the next run starts from separate spans needs the same of the holes in memory,
in the snapshot and in the sidecar (`HolesApart`). That a write that lands after
its connection was aborted stays inside the file needs `InFile`, and that the connection
handed over by the sequential attempt is the first one needs `NotStarted`.
`TakeHeadSeparate` says what cutting off a head does to a set of spans, `ReleaseStep`
and `QuietStep` what giving a span back or leaving the spans alone does.

The second half of the module is about what is in the file. `MissingShrinks` needs to know that a chunk
about to be committed is in the file (`Landed`); a truncation keeps that because a run with a result has
no connection left on a span (`Ended`). With `RangesKept` this is `WorkInv`. A lemma per kind of
step says what it does to the bytes the spans cover: `TakeHeadCovered`, `ClaimHalfCovered` and
`ReleaseCovered` nothing, `CommitCovered` only bytes of the chunk; `MissingStep` puts
them together. On top of it `Honest` says that the spans, the snapshot, the list in memory and the
sidecar each tell the truth about the file as long as they matter, and `Synced`
the same of the snapshot and the sidecar about the disk. Each needs the other: a sync makes
durable what the snapshot does not list because the snapshot is honest, and a power cut leaves
the sidecar honest because what it dropped was synced. `Kept` is the part of
the file they answer for: all of it, or all but the prefix where a power cut may take that.

The two hypotheses are the two places where the code itself does not keep its promise.
`RestartsUndisturbed`: either no server loses its ranges, or no kill, power cut or
lost save can fall between the truncation of the file (`parallel.rs:429`) and the sidecar that tells
of it (430). `PrefixSafe`: no power cuts, or no prefix that was fetched sequentially and
never synced (`downloads.rs:844`). From the same invariants every step of the protocol is a step of ResumableFile or
changes nothing it sees, which is `ImplementsResumableFile`.

**Part file.** `LockInv`: whoever writes, renames or discards holds the lock of the file it works on, and a lock has one
holder, hence one writer whatever the windows do to one another's names. `WholeInv` is about one window:
between two saves memory, sidecar and file tell the same story, either of a file that is being worked
on (`Working`) or of one at rest (`Resting`), through restarts, the switch to segments and
a new version of the content; without it neither the final name nor the sidecar can be
trusted. `VersionInv` drops the list of holes and follows the validator instead: the tag in memory or on disk
is that of the version every byte is of (`Settled`, `Following`), and since bytes are appended in order a kill
leaves a prefix of one version and a tag that is of it or of nothing.

**Account.** `AccountInv` has four parts: where everyone is (`PlacesOK`), what was learned of the panel
(`LearnedInv`), the counters, which are cardinalities of sets of places (`CountsExact`), and the wakeups (`WakeupsOwed`: whoever sleeps beside something free
is among those a pending notification reaches). The places *enabled* and *queued*
are where the argument is: the release after the look at the counters finds the waiter registered.
That a limit once found is respected needs `TrialsBesideAnother`: a slot is on trial only
beside another one, so that no limit of one is ever learned, which the counts would reach at once.

**Links.** A connection uses the target everyone knows, or one that a connection found failing. Whoever asks the panel
does so because no target is known, and keeps the mutex until it has the answer (`LinksInv`), so that at that
moment every token in use has failed one of us, and the panel, in making room for the new one, revokes none that has not.
More is not true: `links.rs` 88–91 forgets a target for any answer but success and for any failure to connect, so that
one request refused by a busy node makes the next renewal cost the other connections a token that still served them,
when the panel is at its limit. Where nodes answer every token they honour, only revoked targets fail
(`OnlyRevokedFail`), and nobody but another viewer costs a transfer its token.

**Queue.** Each handler that ends a download or drops one from the queue hands the pump a
queue that lists the queued titles once each; the pump takes as many of the first
ones as there are transfers left, so that either none waits or MAX_PARALLEL run. `QueueInv` adds that a
queued title has a number left for its task. Without requests of a title whose last task still has
messages, what the manager counts is what runs, and `TransfersAreCounted`: the late events of `queue_stale` are the only
way past MAX_PARALLEL.

**Catalogue.** Three layers over the shapes of jobs and rows. `KeptInv` follows the metadata: the rows in memory,
those a load read, those a page copied and those an ingest is about to write all know what the file
knows, so that saving none of them loses any. `ViewInv` follows the versions: unless a load
or an ingest runs or its result is still to come, the rows in memory are of the file's version. `SumInv` follows the checksum of
the last dump: it is that of the rows, but between the two writes of an ingest or after a kill
there, and then the dump of every fetch and ingest under way is newer than it. Trying to prove this for any number of
requests is what showed that with kills and overlapping fetches together it is false, and that a page's copy of
episodes may undo a load; two requests per run had hidden both.

**Tunnel.** A proxy is installed at most once in its life, and is alive until whoever takes it out ends it; whoever changes
the clients' setting or the proxy drops the client that was kept, so that a client goes where the setting says
(`Routed`). `FailClosed` then holds for starts and stops that overlap in any way. That the tunnel is as it is set once
nothing is under way needs `OneAtATime`, which a user gives by waiting.

**Throttle.** The last slot given never goes back, so that it is no earlier than that of any caller, and a
caller that asks again has reached its own slot.

**Embedded player.** A picture carries the place of its packet, the serial of the queue and the generation of
the screen. What the presenter has, what waits for it, what the decoder gives out and what it still holds ascend
in this order (`Queued`), all of one generation (`OfThisSeek`), and below the packets that are of the
serial the decoder follows (`ThenThePackets`). A seek makes the serials differ; the decoder then gives up what it
holds before it takes a packet, and the generation is what lets the one picture it cannot reach, the
presenter's, be told from the new ones. Each action of the threads is first shown to be one of a few moves of
pictures (`FilmMove`: taken, decoded, pushed, ended, gone...), and the order is kept by moves. That the read-ahead
stays within its bounds is a count of packets without sound (`SecsMove`).

**Sound.** What was heard, what the thread holds and what the ring holds rise one after the other, up to the last
sample made (`SoundInLine`). A sample stored lands behind the rest, around the end of the ring
(`AroundTheRing`, `PlacesApart`); a piece taken is what the ring gives up (`RoundTwice`).

**Window.** Whenever the window has not the size of the stage, a late question, a question, an event or an
answer that will bring it is on its way (`Tracked`). An event is dropped only while a mode settles, and then a
question is still to be asked after that (`Resettles`, where a second mode in a hurry, "fast", breaks it). For the controls, the last
order for a mode is of the mode they tell (`ModeTold`, `LevelTold`). That pictures fit is arithmetic on the sizes
`soft_present_wh` rounds and caps, which is where upright windows fail.

**Focus.** A handler is a chain of steps on a record, each with its lemma (`StepsKeepShape`, `AnswersKeepShape`), so that
the tick is the chain of the lemmas; what the activity's thread does in between changes no field that the two
properties read. `PauseIsTheUsers` adds why the session is silent, `LifePauses` that one paused for the life
cycle does not play.

**Episodes.** Every play arms the queue anew, from the open page or from itself, and a preload begins by removing what
an earlier one left (`PreloadsApart`).

**Stage.** One upload at most is of the present generation, and the stage is busy exactly while it is there; shown, under
way, waiting and not yet pulled follow one another in the stream that plays (`StageInOrder`). Each change of stream
raises the generation, so that a late upload is never taken for a new one. A window has the number of the stream it
was opened for (`WindowsNamed`), a close that is due notes a generation no later than the present one (`TimersOfPlays`), and
a window that was stopped has its close due (`WindowsInStep`).

**Frames.** A slot somebody has is busy and not given back, two frames of the attached set have different slots
and the presenter works in one that is neither busy nor the last published (`SlotsOwned`). So the slot of a frame holds its
picture (`ContentHeld`), unless slots are attached between a copy and its publication.

**Session.** What the session mirrors is so of whatever engine is alive and can be driven, in an error
as well, for a restart may bring the session back from there (`PlayerAsShown`). An order is a set of outcomes, each with
its lemma (`OrderedOutcome`, `MuteOutcome`, `VolumeOutcome`, `PlayedOutcome`). The volume the next engine starts with is
the one shown unless the session is muted, and what was sent of ffplay's toggles is what ffplay does (`KeysAgree`).

**Start of an engine.** Where what plays is depends on how far `play` is (`WhatPlaysIsHeld`): nothing between
two attempts, one process that is watched and not yet the child, one that is the child, then an
engine inside or the child but never both. What an engine is made with is checked once, where it is made
(`LibmpvIsFitted`, `SpawnedIsInHand`), and stays (`AllFitted`). On Android the surface is in front and bound exactly when the
options of an open stream say so (`InSight`). That a process is free to be started needs one more name
than there are processes in use, which is `StartAssumption`, with "no ffplay is installed on Android".

`FilmStaysInOrder`, `LateStepsSpareWhatIsNewer` and `EngineIsAsShown` put these together as the run states them: a behaviour of
`MCViewing` is of one part (`part` does not change), and that of the part is the specification named.

Only model-checked: liveness and what rests on ENABLED, which the provers do not do; the modules not named here, whose algorithms read data by
recursion over sequences (Playlists, TitleNames, Translate, Scroll, ExternalPlayers) or whose properties are about one
instance's data (`PagesSound`, `NamesRead`, `GuideIsRight`); the segmented case of PartFile under kills, where it is false; and the
conjunctions `FilesSound`, `LibraryIsCurrent`, `PanelsServe`, `TunnelHolds`, `KnownStays` and `TypesOK` as such, which
quantify over instances of several modules: of their parts PartFile's, `FailClosed`, `SettingHolds`,
`QueueStays` and the types of Stage, FramePump, Player and EngineStart are proved.

## What was seen to go wrong

With a run that shows it:

* `part_crash` (`downloads.rs:843`): a new file is extended to its full length
  before the sidecar lists it as missing; a kill in between leaves zeros that the next
  run takes for a finished download. The module comment (`downloads.rs:5-6`) says
  that a half-written file never looks finished.
* `part_race` (`downloads.rs:914`): the lock is dropped before the rename, and a second
  window that opened the `.part` meanwhile writes to the finished file
  (comment at `downloads.rs:458-459`).
* `queue_stale` (`app.rs:2497`): events name the URL and not the task; a title
  cancelled and requested again is ended by its predecessor's last event, and goes on
  unseen beside the next one (comments at `app.rs:2504`, `downloads.rs:89`).
* `servers_cdn` (`fluxplay-providers/src/servers.rs:162`): the media host of a server that is down is
  unknown, so that the catalogue's links to it have no other server to go to exactly then (comment at 41-42).
* `split_nolive` (`catalog_db.rs:1548`): a profile whose portal has no live channel left is taken for
  one whose split failed and gets the rows of the archived catalogue back at every start, beside a
  checksum that says nothing changed (comment at 33).

Violations under a condition that the passing runs leave out are in
[the table above](#conditions-left-out-of-the-passing-runs). Met while
reading, without a run:

* Downloads: an answer such as 416 or 503 drops a token that still serves other connections (`links.rs` 90, against 6–11);
  the idle reset forgets a trial and keeps its slot (`account.rs` 255, against 14-15); a token counts as contested
  again when its renewal failed (`links.rs` 108, against 42); a download cancelled before its first message
  leaves its `.part` (`app.rs` 8334, against 8325); a Done title whose file was deleted cannot be
  asked again until a restart (`app.rs` from 8520).
* Library: copies of images are recorded though they failed (`catalog_db.rs` 1442-1448); an import
  without a catalogue is marked synchronised (`app.rs` 4680); removing a profile while it is fetched or
  loaded makes its folder again; `merge_part_with_existing` (`app.rs` 7394-7441) is not used.
* Titles: a search that ends by a network failure is remembered as a miss for a week (`app.rs` 6029-6030); `omdb_search_best` is not behind the throttle
  that `metadata.rs` 589 speaks of; `SlotsApart` of ApiGate, that all requests are spaced, fails for three
  callers (`metadata.rs` 538-545, against 491): only those of one caller are; a failed detail of a film leaves its notice of loading.
* Proxy: a client that stalls after its first byte keeps a slot for ever (`wg_proxy.rs` 727-800); a failed
  A query keeps AAAA from being asked; the TTL of a CNAME is ignored.
* Engines: after a second process that ends at once `ipc_path` is kept (`backend.rs` 1419-1420, against 1409), so that the label still says mpv and
  `restart` (1718) is refused; on Android the rejected soft filter's `hwdec=no` is undone by the option set later (2527), and the
  whitelist of protocols is not sent (2600-2601); `has_embedded_video` (1154) is false for the surface, so that a channel that
  plays there is handed to the system's player as well (`app.rs` 2716-2730, against its comment); the surface is released before the
  stream that draws on it is stopped (`android_bridge.rs` 514 asks for the opposite).
* Playback: `eof_retries` is never reset (`ffmpeg_embed.c` 909); the picture in the presenter's hands is published after a seek's flush (1383-1415);
  a seek just before the end is lost; a gain of the focus unmutes what the user had muted (`app.rs` 3376); the
  focus is kept after a stream ended (3515); `android_surface_present` is always false (`backend.rs` 1169-1171), which
  leaves the branches that ask for it dead.
* Lists: a fling released over a tile does not coast (`browser.rs` 1198-1207); one that ends on a gap leaves a flag that eats the next
  key; the list of a series is reset without its widget (`app.rs` 5434, against 7286).

## What is not modelled

* Views, overlay, theme, dialogues, keys and touches outside the lists: layout, with no state that outlives a
  frame but what the modules above hold. The player's chrome, its sleep timer and the
  focus of keys on it are left to the plan.
* Bindings to mpv and FFmpeg and the bridge to the activity: what matters happens inside foreign libraries or the system.
  Decoding, pixel conversion, the sound clock.
* Wire and text formats: HTTP framing (one that is cut is noticed; a body with neither length nor
  chunks ends like a complete one, `downloads.rs` 902), SQL, JSON, WireGuard's packets, the sidecar's text, dates of listings.
  Parsers that decide something (names, languages, playlists) are modelled token by token.
* Data types with serialisation (`models.rs`), quality tables and probes of the
  platform, logs, the C interface, vendored crates; an engine's options of picture, sound and cache; the
  arguments each player of the system takes a title and headers by; the wording of a diagnosis.
* A thread pool that cannot run tasks, and a disk that lies about `sync_data`.

## The plan

Done: the modules above, the runs, the refinement of ResumableFile and the proofs. Next, in order:

1. Of `WgProxy` `OnlyThroughTunnel`;
   of `LegacyCatalog` `RemovedStay`; of `Images` `SlotsAreUsed`; of `Servers` `GivesUpLast`. Each is an
   invariant a run checks that no theorem states yet, in this order of what it would take to break it unseen.
2. An abstract queue (a bag of titles, of which so many run) refined by DownloadQueue, and an abstract
   table of rows refined by Catalogue under the hypotheses of `CatalogueStaysCurrent`.
3. The player's chrome and sleep timer, the
   search in the catalogue (`catalog_db.rs` 719-888), the choice of quality (`display_caps.rs`, `android_quality.rs`).
4. Compositions: the account with the links (a contested renewal sleeps with a slot in
   hand) and with the segmented fetch.
