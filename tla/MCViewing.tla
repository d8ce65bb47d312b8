------------------------------- MODULE MCViewing -------------------------------
(***************************************************************************)
(* What a viewer is shown, side by side, each part on a small instance: of *)
(* a title and a channel, the page, the throttle of the public services,   *)
(* the order in which they are asked, how a name is read, translation, the *)
(* guide, the queue of episodes, the scrolled list, the categories beside  *)
(* it, the playlists and portals all come from, the diagnosis of these; of *)
(* playback, the start of an engine, the players of the system, the        *)
(* sessions, the audio focus, the stage, the frames, the threads and the   *)
(* sound of the embedded player, the window.                               *)
(* They share no variable here: a behaviour is one of `part`, the          *)
(* variables of the others stay at Unused (those of ApiGate, whose         *)
(* constants the configuration gives, at their initial values), and one    *)
(* run checks them all.  The parts ViewingProofs is about are instances of *)
(* that module.                                                            *)
(***************************************************************************)
EXTENDS ViewingProofs, Sequences

VARIABLES
  items, rows, cached, batch, spent,
  item, patch, step,
  raw, told, reading,
  texts, batches, alone, by, todo, done, pairs, over,
  clock, epg, disk, asks, load, loading, fetches,
  len, y, speed, at, noticed, ops, sent, finger, coast, opened,
  aim, tongue, memory, side, listed, making, wanted,
  kind, phase, tries, written, lines, pend, tag, seen, portal, genres, sheet, arr, channels,
  machine, changes, hour, found, offered, chosen, named, handed,
  accounts, busy, turns, checks, verdicts

Unused == "unused"
pagesVars == <<items, rows, cached, batch, spent>>
lookupVars == <<item, patch, step>>
namesVars == <<raw, told, reading>>
translateVars == <<texts, batches, alone, by, todo, done, pairs, over>>
guideVars == <<clock, epg, disk, asks, load, loading, fetches>>
episodesVars == <<page, playing, local, queue, idx, armed, job, prefetched, files>>
scrollVars == <<len, y, speed, at, noticed, ops, sent, finger, coast, opened>>
sidebarVars == <<aim, tongue, memory, side, listed, making, wanted>>
sourcesVars == <<kind, phase, tries, written, lines, pend, tag, seen, portal, genres, sheet, arr, channels>>
playerVars == <<session, engine, native>>
focusVars == <<focusing, visible, wish>>
stageVars == <<screened, plays, decoded, taken, ended, player, windows, timers, stage, uploads, gpu>>
framesVars == <<four, present, content, pump, held>>
embedVars == <<ui, pq, demux, dec, vq, pres, shown>>
soundVars == <<ring, made, writer, heard>>
windowVars == <<win, orders, events, asked, answers, flags, rect, frame, freeze, dirty>>
startVars == <<built, options, surface, channel, driver, procs, call, starts>>
externalVars == <<machine, changes, hour, found, offered, chosen, named, handed>>
healthVars == <<accounts, busy, turns, checks, verdicts>>

Guesses == [none |-> "none", blurb |-> "fr", panel |-> "none", web |-> "none", told |-> "none"]
PanelTells == {[plot |-> "blurb", info |-> 0], [plot |-> "panel", info |-> 2]}
WebTells == {[plot |-> "web", info |-> 2]}

\* Two films, of which one panel is asked, and a series.
FilmPage == INSTANCE Pages WITH
  disk <- rows, win <- batch,
  Films <- <<"f1", "f2">>, Shows <- <<>>, Id <- [f1 |-> "1", f2 |-> "2"], Panelless <- {"f2"},
  PanelFacts <- PanelTells, WebFacts <- WebTells, Guess <- Guesses, Langs <- {"", "fr"},
  MaxKept <- 1, MaxMoves <- 3, MaxBatches <- 1, Faults <- {"relang"}
ShowPage == INSTANCE Pages WITH
  disk <- rows, win <- batch,
  Films <- <<"f1">>, Shows <- <<"s1">>, Id <- [f1 |-> "1", s1 |-> "1"], Panelless <- {},
  PanelFacts <- PanelTells, WebFacts <- WebTells, Guess <- Guesses, Langs <- {"fr"},
  MaxKept <- 1, MaxMoves <- 2, MaxBatches <- 1, Faults <- {}

\* Two films of one title; the services may find either by it.
Lookup == INSTANCE TitleLookup WITH
  Films <- {"m", "x"}, Meant <- "m", Strangers <- {"m", "x"}, Faults <- {}

W(sep, w) == [sep |-> sep, br |-> "", word |-> w]
B(br, w) == [sep |-> " ", br |-> br, word |-> w]
FewTitles == {<<W(" ", "Heat")>>, <<W(" ", "Suburra"), W(" ", "Serie")>>}

\* Names both readings of the code agree on, and names only the library's reads.
Names == INSTANCE TitleNames WITH
  stage <- reading,
  Codes <- {"FR", "AR", "NF", "XXX"}, Titles <- FewTitles, Dates <- {"(", "[", "-"},
  Tails <- {W("_", "fr"), W("-", "fr"), W(" ", "FR"), B("(", "MULTI"), W("_", "sub"),
            W(" ", "4K"), B("(", "UHD")},
  MaxCodes <- 1, MaxTails <- 2
OddNames == INSTANCE TitleNames WITH
  stage <- reading,
  Codes <- {"FR", "AR", "NF", "XXX", "IN:CAM", "Ar"},
  Titles <- FewTitles \cup {<<W(" ", "Suburra"), W(" - ", "Serie")>>, <<W(" ", "1917")>>,
                            <<W(" ", "Bring"), W(" ", "It")>>, <<W(" ", "Runner"), W(" ", "2049")>>},
  Dates <- {"(", "."},
  Tails <- {W("-", "it"), W("_", "esp"), W(" ", "VOST"), W(" ", "NO"), W(".", "1080p")},
  MaxCodes <- 2, MaxTails <- 1

\* Texts of one to three sentences, shorter and longer than a piece.
Translation == INSTANCE Translate WITH
  Pages <- UNION {[1 .. n -> {<<1>>, <<1, 1>>, <<3>>, <<5>>, <<2, 1, 1>>}] : n \in 1 .. 3},
  GoogleMax <- 4, MyMemoryMax <- 2

P(from, to) == [start |-> from, stop |-> to]
\* A guide with a programme longer than a load looks back, of more rows than it reads.
Guide == INSTANCE Guide WITH
  now <- clock,
  Channels <- {"c1", "c2"}, Id <- [c1 |-> "1", c2 |-> "2"], Key <- [c1 |-> "tf1", c2 |-> "2"],
  Panel <- [c1 |-> "p", c2 |-> "q"],
  OnAir <- [c1 |-> {P(0, 2), P(2, 3), P(3, 5)}, c2 |-> {P(0, 4), P(5, 6)}],
  OpenEnded <- FALSE, LoadPast <- 2, LoadAhead <- 2, KeepPast <- 3, LoadRows <- 4,
  MaxNow <- 5, MaxFetches <- 3, Limit <- 2
OpenGuide == INSTANCE Guide WITH
  now <- clock,
  Channels <- {"c1"}, Id <- [c1 |-> "1"], Key <- [c1 |-> "tf1"], Panel <- [c1 |-> "p"],
  OnAir <- [c1 |-> {P(0, 2), P(2, 3), P(3, 5)}],
  OpenEnded <- TRUE, LoadPast <- 2, LoadAhead <- 2, KeepPast <- 3, LoadRows <- 4,
  MaxNow <- 5, MaxFetches <- 3, Limit <- 2

\* An empty list, one that is laid out whole and one whose height is compressed.
List == INSTANCE Scroll WITH
  told <- sent, heard <- noticed,
  Item <- 4, View <- 10, Totals <- {0, 9, 24}, MaxContent <- 48, Travel <- 1, Overscan <- 1,
  Lead <- 4, Slop <- 3, Steps <- {-5, 2}, MaxOps <- 1, Faults <- {}

\* Playlists of up to three entries with repeated identifiers, commas and quotes, and
\* portals with lists of none, one and three pages.
E(inf, attrs, title, grp, tg, noise) ==
  [inf |-> inf, attrs |-> attrs, title |-> title, grp |-> grp, tag |-> tg, noise |-> noise,
   url |-> TRUE]
I(i, c, g, t) == [id |-> i, cmd |-> c, gid |-> g, genre |-> t]
Id(v) == <<"tvg-id", v>>
Sources == INSTANCE Playlists WITH
  step <- phase, page <- sheet, items <- arr, titles <- genres,
  Entries <- {E(FALSE, <<>>, <<>>, FALSE, "none", FALSE), E(FALSE, <<>>, <<>>, FALSE, "before", FALSE),
    E(TRUE, <<Id(<<"a">>), <<"group-title", <<"News", ",", "FR">>>>>>, <<"Movie", ",", "The">>,
      FALSE, "inside", TRUE),
    E(TRUE, <<Id(<<"a">>), <<"catchup", <<"days">>>>>>, <<>>, TRUE, "before", FALSE),
    E(TRUE, <<Id(<<>>), <<"tvg-x", <<"x">>>>>>, <<"\"", "Le", "\"">>, TRUE, "none", FALSE)},
  MaxEntries <- 3, Agents <- 2,
  Lists <- {<<>>,
    <<I("1", <<"u1">>, "*", ""), I("", <<"ffmpeg", "u2">>, "g", ""), I("3", <<>>, "g", "")>>,
    <<I("", <<>>, "g", ""), I("", <<"u2">>, "g", "t"), I("", <<"auto", "u3">>, "g", "")>>,
    [i \in 1 .. 5 |-> I(<<"1", "2", "3", "4", "5">>[i], <<<<"u1", "u2", "u3", "u4", "u5">>[i]>>, "g", "")]},
  Named <- {"g", "*"}, PageSize <- 2, MaxPages <- 3, Faults <- {}

\* With a keyboard, whose pause key the pause for the focus does not know of.
Keyboard == INSTANCE AudioFocus WITH s <- focusing, MaxJobs <- FocusJobs, Faults <- {"hotkey"}

\* With a pipe that may be full, which puts sound back out of order.
FullPipe == INSTANCE AudioQueue WITH
  Cap <- 3, Piece <- 2, Sizes <- {1, 2}, MaxSamples <- 3, Faults <- {"full"}

\* The sizes of windows, of the monitor and of the pictures.
WindowsMade == {<<1200, 720>>, <<600, 900>>}
Opened == <<1120, 720>>
Shrunk == <<480, 320>>
Monitor == <<1920, 1080>>
MainWindow == <<1280, 800>>
Drawn == <<1280, 720>>

\* A panel with categories in several languages and a playlist without any.
Category(list, id, bars, code, words, speaks) ==
  [list |-> list, id |-> id, bars |-> bars, code |-> code, words |-> words, speaks |-> speaks,
   adult |-> code \in {"XXX", "+18"}]
Listing(list, n, cat, ls, multi) ==
  [list |-> list, n |-> n, cat |-> cat, says |-> [langs |-> ls, multi |-> multi, adult |-> FALSE]]
PanelBundle ==
  [cats |-> <<Category("live", "l1", "both", "+18", <<"ADULTS">>, {}),
              Category("live", "l2", "both", "EN", <<"SPORT">>, {"en"}),
              Category("live", "l3", "after", "FR", <<"SPORT">>, {"fr"}),
              Category("vod", "v1", "both", "BE", <<"VLAAMS">>, {"nl"}),
              Category("vod", "v2", "none", "", <<"DISNEY", "MULTI">>, {"fr", "en", "nl"}),
              Category("vod", "v3", "both", "EN", <<"SPORT", "MULTI", "SUB">>, {"en"}),
              Category("vod", "v4", "both", "BE", <<"SPORT">>, {"fr", "nl"})>>,
   titles |-> {Listing("live", 1, "l2", {}, FALSE), Listing("live", 2, "l3", {"en"}, FALSE),
               Listing("vod", 1, "v1", {"fr"}, FALSE), Listing("vod", 2, "v2", {}, FALSE),
               Listing("vod", 3, "v3", {}, TRUE)}]
PlainBundle ==
  [cats |-> <<>>,
   titles |-> {Listing("live", 1, "g1", {}, FALSE), Listing("live", 2, "g2", {"fr"}, FALSE)}]
Sidebar == INSTANCE Sidebar WITH
  view <- aim, lang <- tongue, bundle <- memory, sidebar <- side, shown <- listed, build <- making,
  asked <- wanted,
  Bundles <- {PanelBundle, PlainBundle}, Late <- {Listing("vod", 4, "v4", {}, FALSE)},
  Prefs <- {"", "fr", "en"}, Page <- 3, Faults <- {}

\* Computers with libmpv and libav, with processes only, with a libmpv that refuses what
\* is asked of it or that draws a window of its own; two phones.
Computer(mpv, av, bins, own, hw, refuses) ==
  [os |-> "linux", mpv |-> mpv, av |-> av, cli |-> TRUE, bins |-> bins, ownWindow |-> own, hw |-> hw,
   ladder |-> <<"soft">>, refuses |-> refuses]
Phone(ladder, refuses) ==
  [os |-> "android", mpv |-> TRUE, av |-> FALSE, cli |-> FALSE, bins |-> {}, ownWindow |-> FALSE,
   hw |-> "mediacodec-copy", ladder |-> ladder, refuses |-> refuses]
Setting(pref, proxied, hwdec, where) ==
  [pref |-> pref, proxied |-> proxied, hwdec |-> hwdec, present |-> where]
Devices ==
  {Computer(TRUE, TRUE, {"mpv", "ffplay"}, FALSE, "auto", {}),
   Computer(FALSE, FALSE, {"ffplay"}, FALSE, "auto", {}),
   Computer(FALSE, FALSE, {"mpv", "ffplay"}, FALSE, "auto", {}),
   Computer(TRUE, TRUE, {"ffplay"}, TRUE, "vaapi", {"gpu-next", "http-proxy"}),
   Computer(TRUE, FALSE, {}, FALSE, "videotoolbox", {"http-proxy"}),
   Phone(<<"embed", "soft">>, {"stream-lavf-o"}),
   Phone(<<"egl", "embed", "soft">>, {"gpu", "stream-lavf-o"})}
Choices ==
  {Setting("auto", TRUE, TRUE, "auto"), Setting("ffmpeg", FALSE, FALSE, "egl"),
   Setting("mpv", FALSE, TRUE, "soft"), Setting("external", FALSE, TRUE, "soft")}

\* Two known players, and desktop entries of one that takes a link, of a browser and of
\* a viewer of files.
Entry == [own |-> [exec |-> <<"flatpak", "run", "@@u", "%U", "@@">>, mime |-> {"video/mp4"}, hidden |-> FALSE],
          web |-> [exec |-> <<"web", "%u">>, mime |-> {"text/html", "video/mp4"}, hidden |-> FALSE],
          view |-> [exec |-> <<"view", "%f">>, mime |-> {"video/mp4"}, hidden |-> FALSE]]
Machine(bins, apps, flatpak, ts, mp4) ==
  [bins |-> bins, apps |-> apps, files |-> DOMAIN Entry, flatpak |-> flatpak,
   defaults |-> [ts |-> ts, mp4 |-> mp4]]
Machines == {Machine({"vlc"}, {"vlc", "haruna"}, TRUE, "none", "own"),
             Machine({}, {"haruna"}, FALSE, "none", "view"),
             Machine({"vlc"}, {}, TRUE, "web", "own"),
             Machine({"vlc"}, {"haruna"}, TRUE, "haruna.desktop", "own")}
External == INSTANCE ExternalPlayers WITH
  host <- machine, moves <- changes, now <- hour, cache <- found, shown <- offered, choice <- chosen,
  told <- named, opened <- handed,
  Known <- <<[id |-> "vlc", desktops |-> {"vlc.desktop"}], [id |-> "haruna", desktops |-> {"haruna.desktop"}]>>,
  Mimes <- <<"ts", "mp4">>, Entries <- Entry, Hosts <- Machines,
  Moves <- Machines \cup {Machine({}, {}, TRUE, "none", "none"), Machine({}, {"vlc"}, TRUE, "none", "none")},
  Saved <- {"", "haruna"}, Ttl <- 1, MaxNow <- 2, MaxMoves <- 1

\* A panel whose only playable stream comes late, and one that has none.
Live(locked, streams) == [locked |-> locked, streams |-> streams]
Health == INSTANCE PortalCheck WITH
  active <- accounts, status <- verdicts,
  Runs <- {"r1"}, Portals <- <<"p", "q">>,
  Categories <- [p |-> <<Live(TRUE, <<"hls">>), Live(FALSE, <<"locked">>), Live(FALSE, <<"ts", "hls">>)>>,
                 q |-> <<Live(FALSE, <<"ts">>)>>],
  MaxCategories <- 2, MaxStreams <- 2, MaxTurns <- 1

NoPages ==
  /\ items = Unused /\ rows = Unused /\ cached = Unused /\ batch = Unused
  /\ spent = Unused
NoLookup ==
  /\ item = Unused /\ patch = Unused /\ step = Unused
NoNames ==
  /\ raw = Unused /\ told = Unused /\ reading = Unused
NoTranslate ==
  /\ texts = Unused /\ batches = Unused /\ alone = Unused /\ by = Unused
  /\ todo = Unused /\ done = Unused /\ pairs = Unused /\ over = Unused
NoGuide ==
  /\ clock = Unused /\ epg = Unused /\ disk = Unused /\ asks = Unused /\ load = Unused
  /\ loading = Unused /\ fetches = Unused
NoEpisodes ==
  /\ page = Unused /\ playing = Unused /\ local = Unused /\ queue = Unused
  /\ idx = Unused /\ armed = Unused /\ job = Unused /\ prefetched = Unused
  /\ files = Unused
NoScroll ==
  /\ len = Unused /\ y = Unused /\ speed = Unused /\ at = Unused /\ noticed = Unused
  /\ ops = Unused /\ sent = Unused /\ finger = Unused /\ coast = Unused
  /\ opened = Unused
NoSidebar ==
  /\ aim = Unused /\ tongue = Unused /\ memory = Unused /\ side = Unused
  /\ listed = Unused /\ making = Unused /\ wanted = Unused
NoSources ==
  /\ kind = Unused /\ phase = Unused /\ tries = Unused /\ written = Unused
  /\ lines = Unused /\ pend = Unused /\ tag = Unused /\ seen = Unused /\ portal = Unused
  /\ genres = Unused /\ sheet = Unused /\ arr = Unused /\ channels = Unused
NoPlayer ==
  /\ session = Unused /\ engine = Unused /\ native = Unused
NoFocus ==
  /\ focusing = Unused /\ visible = Unused /\ wish = Unused
NoStage ==
  /\ screened = Unused /\ plays = Unused /\ decoded = Unused /\ taken = Unused
  /\ ended = Unused /\ player = Unused /\ windows = Unused /\ timers = Unused
  /\ stage = Unused /\ uploads = Unused /\ gpu = Unused
NoFrames ==
  /\ four = Unused /\ present = Unused /\ content = Unused /\ pump = Unused
  /\ held = Unused
NoEmbed ==
  /\ ui = Unused /\ pq = Unused /\ demux = Unused /\ dec = Unused /\ vq = Unused
  /\ pres = Unused /\ shown = Unused
NoSound ==
  /\ ring = Unused /\ made = Unused /\ writer = Unused /\ heard = Unused
NoWindow ==
  /\ win = Unused /\ orders = Unused /\ events = Unused /\ asked = Unused
  /\ answers = Unused /\ flags = Unused /\ rect = Unused /\ frame = Unused
  /\ freeze = Unused /\ dirty = Unused
NoStart ==
  /\ built = Unused /\ options = Unused /\ surface = Unused /\ channel = Unused
  /\ driver = Unused /\ procs = Unused /\ call = Unused /\ starts = Unused
NoExternal ==
  /\ machine = Unused /\ changes = Unused /\ hour = Unused /\ found = Unused
  /\ offered = Unused /\ chosen = Unused /\ named = Unused /\ handed = Unused
NoHealth ==
  /\ accounts = Unused /\ busy = Unused /\ turns = Unused /\ checks = Unused
  /\ verdicts = Unused

\* All the variables but those of one part.
UnusedBut(g) ==
  /\ g # "pages" => NoPages
  /\ g # "lookup" => NoLookup
  /\ g # "names" => NoNames
  /\ g # "translate" => NoTranslate
  /\ g # "guide" => NoGuide
  /\ g # "episodes" => NoEpisodes
  /\ g # "scroll" => NoScroll
  /\ g # "sidebar" => NoSidebar
  /\ g # "sources" => NoSources
  /\ g # "player" => NoPlayer
  /\ g # "focus" => NoFocus
  /\ g # "stage" => NoStage
  /\ g # "frames" => NoFrames
  /\ g # "embed" => NoEmbed
  /\ g # "sound" => NoSound
  /\ g # "window" => NoWindow
  /\ g # "start" => NoStart
  /\ g # "external" => NoExternal
  /\ g # "health" => NoHealth
StayBut(g) ==
  /\ UNCHANGED part
  /\ g # "pages" => UNCHANGED pagesVars
  /\ g # "gate" => UNCHANGED vars
  /\ g # "lookup" => UNCHANGED lookupVars
  /\ g # "names" => UNCHANGED namesVars
  /\ g # "translate" => UNCHANGED translateVars
  /\ g # "guide" => UNCHANGED guideVars
  /\ g # "episodes" => UNCHANGED episodesVars
  /\ g # "scroll" => UNCHANGED scrollVars
  /\ g # "sidebar" => UNCHANGED sidebarVars
  /\ g # "sources" => UNCHANGED sourcesVars
  /\ g # "player" => UNCHANGED playerVars
  /\ g # "focus" => UNCHANGED focusVars
  /\ g # "stage" => UNCHANGED stageVars
  /\ g # "frames" => UNCHANGED framesVars
  /\ g # "embed" => UNCHANGED embedVars
  /\ g # "sound" => UNCHANGED soundVars
  /\ g # "window" => UNCHANGED windowVars
  /\ g # "start" => UNCHANGED startVars
  /\ g # "external" => UNCHANGED externalVars
  /\ g # "health" => UNCHANGED healthVars

ViewingInit ==
  \/ part = "films" /\ Init /\ FilmPage!Init /\ UnusedBut("pages")
  \/ part = "shows" /\ Init /\ ShowPage!Init /\ UnusedBut("pages")
  \/ part = "gate" /\ Init /\ UnusedBut("gate")
  \/ part = "lookup" /\ Init /\ Lookup!Init /\ UnusedBut("lookup")
  \/ part = "names" /\ Init /\ Names!Init /\ UnusedBut("names")
  \/ part = "oddNames" /\ Init /\ OddNames!Init /\ UnusedBut("names")
  \/ part = "translate" /\ Init /\ Translation!Init /\ UnusedBut("translate")
  \/ part = "guide" /\ Init /\ Guide!Init /\ UnusedBut("guide")
  \/ part = "openGuide" /\ Init /\ OpenGuide!Init /\ UnusedBut("guide")
  \/ part = "episodes" /\ Init /\ Episodes!Init /\ UnusedBut("episodes")
  \/ part = "scroll" /\ Init /\ List!Init /\ UnusedBut("scroll")
  \/ part = "sources" /\ Init /\ Sources!Init /\ UnusedBut("sources")
  \/ part = "sidebar" /\ Init /\ Sidebar!Init /\ UnusedBut("sidebar")
  \/ part = "player" /\ Init /\ Player!Init /\ UnusedBut("player")
  \/ part = "focus" /\ Init /\ Focus!Init /\ UnusedBut("focus")
  \/ part = "keyboard" /\ Init /\ Keyboard!Init /\ UnusedBut("focus")
  \/ part = "stage" /\ Init /\ Stage!Init /\ UnusedBut("stage")
  \/ part = "frames" /\ Init /\ Frames!Init /\ UnusedBut("frames")
  \/ part = "embed" /\ Init /\ Embed!Init /\ UnusedBut("embed")
  \/ part = "sound" /\ Init /\ Samples!Init /\ UnusedBut("sound")
  \/ part = "fullpipe" /\ Init /\ FullPipe!Init /\ UnusedBut("sound")
  \/ part = "window" /\ Init /\ Window!Init /\ UnusedBut("window")
  \/ part = "start" /\ Init /\ Start!Init /\ UnusedBut("start")
  \/ part = "external" /\ Init /\ External!Init /\ UnusedBut("external")
  \/ part = "health" /\ Init /\ Health!Init /\ UnusedBut("health")

ViewingNext ==
  \/ part = "films" /\ FilmPage!Next /\ StayBut("pages")
  \/ part = "shows" /\ ShowPage!Next /\ StayBut("pages")
  \/ part = "gate" /\ Next /\ StayBut("gate")
  \/ part = "lookup" /\ Lookup!Next /\ StayBut("lookup")
  \/ part = "names" /\ Names!Next /\ StayBut("names")
  \/ part = "oddNames" /\ OddNames!Next /\ StayBut("names")
  \/ part = "translate" /\ Translation!Next /\ StayBut("translate")
  \/ part = "guide" /\ Guide!Next /\ StayBut("guide")
  \/ part = "openGuide" /\ OpenGuide!Next /\ StayBut("guide")
  \/ part = "episodes" /\ Episodes!Next /\ StayBut("episodes")
  \/ part = "scroll" /\ List!Next /\ StayBut("scroll")
  \/ part = "sources" /\ Sources!Next /\ StayBut("sources")
  \/ part = "sidebar" /\ Sidebar!Next /\ StayBut("sidebar")
  \/ part = "player" /\ Player!Next /\ StayBut("player")
  \/ part = "focus" /\ Focus!Next /\ StayBut("focus")
  \/ part = "keyboard" /\ Keyboard!Next /\ StayBut("focus")
  \/ part = "stage" /\ Stage!Next /\ StayBut("stage")
  \/ part = "frames" /\ Frames!Next /\ StayBut("frames")
  \/ part = "embed" /\ Embed!Next /\ StayBut("embed")
  \/ part = "sound" /\ Samples!Next /\ StayBut("sound")
  \/ part = "fullpipe" /\ FullPipe!Next /\ StayBut("sound")
  \/ part = "window" /\ Window!Next /\ StayBut("window")
  \/ part = "start" /\ Start!Next /\ StayBut("start")
  \/ part = "external" /\ External!Next /\ StayBut("external")
  \/ part = "health" /\ Health!Next /\ StayBut("health")

allVars == <<part, vars, pagesVars, lookupVars, namesVars, translateVars, guideVars, episodesVars, scrollVars, sidebarVars, sourcesVars, playerVars, focusVars, stageVars, framesVars, embedVars, soundVars, windowVars, startVars, externalVars, healthVars>>
ViewingSpec == ViewingInit /\ [][ViewingNext]_allVars

\* What a page shows is of the title that was opened, in the language that is
\* set, and its notice of loading goes away: TypeOK, RowsAreTheirs, PageIsTapped,
\* RightLanguage, PageTranslated and LoadingEnds of Pages.  Every text gets its own
\* translation, whole and from one service: PairsAreWhole and PairsInOrder of
\* Translate.  The rows on screen are those of where the list is, whatever moves it:
\* TypeOK, RestAgrees, RowsCover, EveryRowShown, PicturesAhead and Gestures of Scroll.
\* A source is read as it was written: TypeOK, IdsDistinct, TagsStay, PlaylistRead and
\* PortalRead of Playlists.  The categories beside a list are those of the list and of
\* the viewer's language: TypeOK, SidebarIsTrue and OnlyMine of Sidebar.  A panel is
\* judged by what it answered: VerdictIsRight, FewAreAsked and EveryPanelReported of
\* PortalCheck.  The player of the system chosen in the settings is the one that opens:
\* ListIsSound, SettledOpens and ChoiceTaken of ExternalPlayers.
PagesSound ==
  /\ part = "films" => /\ FilmPage!TypeOK /\ FilmPage!RowsAreTheirs /\ FilmPage!PageIsTapped
                       /\ FilmPage!RightLanguage /\ FilmPage!PageTranslated /\ FilmPage!LoadingEnds
  /\ part = "shows" => /\ ShowPage!TypeOK /\ ShowPage!RowsAreTheirs /\ ShowPage!PageIsTapped
                       /\ ShowPage!RightLanguage /\ ShowPage!PageTranslated /\ ShowPage!LoadingEnds
  /\ part = "translate" => Translation!PairsAreWhole /\ Translation!PairsInOrder
  /\ part = "scroll" => /\ List!TypeOK /\ List!RestAgrees /\ List!RowsCover
                        /\ List!EveryRowShown /\ List!PicturesAhead /\ List!Gestures
  /\ part = "sources" => /\ Sources!TypeOK /\ Sources!IdsDistinct /\ Sources!TagsStay
                         /\ Sources!PlaylistRead /\ Sources!PortalRead
  /\ part = "sidebar" => Sidebar!TypeOK /\ Sidebar!SidebarIsTrue /\ Sidebar!OnlyMine
  /\ part = "health" => Health!VerdictIsRight /\ Health!FewAreAsked /\ Health!EveryPanelReported
  /\ part = "external" => External!ListIsSound /\ External!SettledOpens /\ External!ChoiceTaken

\* A name is read as it was composed, by the list, by the search and by the
\* ranking of languages: ShownIsTold, AskedIsShown and RankedMatches of TitleNames;
\* the categories of the viewer's language come first: PreferredFirst of Sidebar.
NamesRead ==
  /\ part = "names" => Names!ShownIsTold /\ Names!AskedIsShown /\ Names!RankedMatches
  /\ part = "oddNames" => OddNames!ShownIsTold /\ OddNames!RankedMatches
  /\ part = "sidebar" => Sidebar!PreferredFirst

\* What is said to be on is on, and what a reload shows of the present is what was
\* known of it, as far back as it reads: ShownIsOnAir and GuideSurvives of Guide.
GuideIsRight ==
  /\ part = "guide" => Guide!ShownIsOnAir /\ Guide!GuideSurvives
  /\ part = "openGuide" => OpenGuide!ShownIsOnAir

\* What is known is not lost: the credits on disk, the film an entry is of and its
\* good synopsis, the queue of a series while it plays: SavedCreditsStay of Pages,
\* KnownIdStays and GoodPlotStays of TitleLookup, QueueStays of Episodes.
KnownStays ==
  [][/\ part = "films" => FilmPage!SavedCreditsStay
     /\ part = "shows" => ShowPage!SavedCreditsStay
     /\ part = "lookup" => Lookup!KnownIdStays /\ Lookup!GoodPlotStays
     /\ part = "episodes" => Episodes!QueueStays]_allVars

\* TypeOK of each of them.
TypesOK ==
  /\ part = "player" => Player!TypeOK
  /\ part \in {"focus", "keyboard"} => Focus!TypeOK
  /\ part = "stage" => Stage!TypeOK
  /\ part = "frames" => Frames!TypeOK
  /\ part = "embed" => Embed!TypeOK
  /\ part = "sound" => Samples!TypeOK
  /\ part = "fullpipe" => FullPipe!TypeOK
  /\ part = "window" => Window!TypeOK
  /\ part = "start" => Start!TypeOK
  /\ part = "external" => External!TypeOK
  /\ part = "health" => Health!TypeOK

=============================================================================
