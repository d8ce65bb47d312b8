--------------------------------- MODULE Tunnel ---------------------------------
(***************************************************************************)
(* The WireGuard tunnel of the app and what is routed through it           *)
(* (src/crates/fluxplay/src/wg_tunnel.rs and app.rs, and                   *)
(* src/crates/fluxplay-providers/src/http_client.rs).                      *)
(*                                                                         *)
(* A start runs as a task of its own: it stops the proxy there is, waits   *)
(* for the network, installs its proxy under a lock and only then points   *)
(* the HTTP clients at it.  The interface stops the tunnel in two steps    *)
(* too, so starts and stops interleave.  HTTP clients are built on demand  *)
(* and kept until the settings or the proxy change; the player keeps the   *)
(* proxy it was given with its options.                                    *)
(***************************************************************************)
EXTENDS Naturals, FiniteSets, TLAPS

CONSTANTS
  MaxStarts, \* bound: starts of the tunnel
  Faults     \* subset of {"overlap"}: the user does not wait for a start to end

ConstantsOK == MaxStarts \in Nat \ {0} /\ Faults \subseteq {"overlap"}

VARIABLES
  setting, \* wireguard_enabled, and whether there is a profile
  ui,      \* where the interface is, the proxy it is stopping, what it does then
  starts,  \* start tasks: where each is; "ok" and "failed" are messages
  proxy,   \* PROXY: the proxy installed, 0 for none
  socks,   \* SOCKS: the proxy the HTTP clients use, 0 for none
  net,     \* the setting the HTTP clients go by
  client,  \* route of the HTTP client that is kept, NoClient if it is to be built
  opts,    \* route the player was given
  alive    \* proxies that run

vars == <<setting, ui, starts, proxy, socks, net, client, opts, alive>>

Ids == 1..MaxStarts
\* Where a request goes that goes through no proxy of ours.
Clear == MaxStarts + 1
Dead == MaxStarts + 2
NoClient == MaxStarts + 3
Routes == {Clear, Dead} \cup Ids
Ready == [at |-> "ready", old |-> 0, then |-> "nothing"]

\* required_proxy, play_options_from: a refused proxy while the tunnel is
\* enabled and not up.
Route(via, enabled) == IF via # 0 THEN via ELSE IF enabled THEN Dead ELSE Clear

Init ==
  /\ setting \in [enabled : BOOLEAN, profile : {TRUE}]
  /\ ui = Ready
  /\ starts = [i \in Ids |-> IF i = 1 /\ setting.enabled THEN "stop" ELSE "unborn"]
  /\ proxy = 0 /\ socks = 0 /\ net = setting.enabled /\ client = NoClient
  /\ opts = Route(0, setting.enabled) /\ alive = {}

InFlight == {i \in Ids : starts[i] \notin {"unborn", "done"}}
Calm == InFlight = {} \/ "overlap" \in Faults
Move(i, at) == starts' = [starts EXCEPT ![i] = at]

\* apply_network_settings, keeping the client there is
ApplyLazily(enabled) == net' = enabled /\ UNCHANGED client

\* apply_network_settings: the next request builds its client anew.
Apply(enabled) == net' = enabled /\ client' = NoClient

\* set_socks_proxy
SetSocks(id) == socks' = id /\ client' = NoClient

-----------------------------------------------------------------------------
\* Message::ToggleWireGuard, on
ToggleOn ==
  /\ ui.at = "ready" /\ Calm /\ setting.profile /\ ~setting.enabled
  /\ \E i \in Ids :
       /\ starts[i] = "unborn" /\ \A j \in 1..(i - 1) : starts[j] # "unborn"
       /\ Move(i, "stop")
  /\ setting' = [setting EXCEPT !.enabled = TRUE]
  /\ Apply(TRUE)
  /\ opts' = Route(proxy, TRUE)
  /\ UNCHANGED <<ui, proxy, socks, alive>>

\* stop_tunnel, up to the change of the clients' proxy
StopTakes(then) ==
  /\ ui' = [at |-> "stopping", old |-> proxy, then |-> then]
  /\ proxy' = 0

ToggleOff ==
  /\ ui.at = "ready" /\ Calm /\ setting.profile /\ setting.enabled
  /\ setting' = [setting EXCEPT !.enabled = FALSE]
  /\ StopTakes("options")
  /\ UNCHANGED <<starts, socks, net, client, opts, alive>>

\* Message::ClearWireGuardProfile: the options of the player stay until a play.
ClearWireGuardProfile ==
  /\ ui.at = "ready" /\ Calm /\ setting.profile
  /\ setting' = [enabled |-> FALSE, profile |-> FALSE]
  /\ StopTakes("nothing")
  /\ UNCHANGED <<starts, socks, net, client, opts, alive>>

\* Message::PickWireGuardProfile, ImportWireGuardPaste
ImportProfile ==
  /\ ui.at = "ready" /\ ~setting.profile
  /\ setting' = [setting EXCEPT !.profile = TRUE]
  /\ Apply(setting.enabled)
  /\ UNCHANGED <<ui, starts, proxy, socks, opts, alive>>

\* The proxy that was taken runs on.
EndedLeaks(old) == alive' = alive

\* WgProxy::shutdown
Ended(old) == alive' = alive \ {old}

\* The clients leave the proxy before it ends; the handler goes on.
StopEnds ==
  /\ ui.at = "stopping"
  /\ ui' = Ready
  /\ socks' = 0
  /\ Ended(ui.old)
  /\ Apply(setting.enabled)
  /\ opts' = IF ui.then = "options" THEN Route(proxy, setting.enabled) ELSE opts
  /\ UNCHANGED <<setting, starts, proxy>>

\* Message::WireGuardTunnelDone; a failure disables the tunnel, whichever
\* start it is of.
TunnelDone(i) ==
  /\ ui.at = "ready"
  /\ Move(i, "done")
  /\ \/ /\ starts[i] = "ok"
        /\ Apply(setting.enabled)
        /\ opts' = Route(proxy, setting.enabled)
        /\ UNCHANGED <<setting, ui, proxy, socks, alive>>
     \/ /\ starts[i] = "failed"
        /\ setting' = [setting EXCEPT !.enabled = FALSE]
        /\ StopTakes("options")
        /\ UNCHANGED <<socks, net, client, opts, alive>>

-----------------------------------------------------------------------------
\* start_tunnel_from_file: stop_tunnel, in one step when nothing interferes
StartStops(i) ==
  /\ starts[i] = "stop"
  /\ Move(i, "connect")
  /\ proxy' = 0
  /\ SetSocks(0)
  /\ Ended(proxy)
  /\ UNCHANGED <<setting, ui, net, opts>>

\* The profile, the bootstrap name server and the handshake
StartConnects(i) ==
  /\ starts[i] = "connect"
  /\ \/ Move(i, "install") /\ alive' = alive \cup {i}
     \/ Move(i, "failed") /\ UNCHANGED alive
  /\ UNCHANGED <<setting, ui, proxy, socks, net, client, opts>>

\* The clients are left as they were.
PointNothing(i) == UNCHANGED <<socks, client>>

Point(i) == SetSocks(i)

StartInstalls(i) ==
  /\ starts[i] = "install"
  /\ Move(i, "point")
  /\ proxy' = i
  /\ Ended(proxy)
  /\ UNCHANGED <<setting, ui, socks, net, client, opts>>

StartPoints(i) ==
  /\ starts[i] = "point"
  /\ Move(i, "ok")
  /\ Point(i)
  /\ UNCHANGED <<setting, ui, proxy, net, opts, alive>>

\* shared_http: the client is built when there is none.
Request ==
  /\ client = NoClient
  /\ client' = Route(socks, net)
  /\ UNCHANGED <<setting, ui, starts, proxy, socks, net, opts, alive>>

\* apply_source_headers_for: each play takes its options anew.
PlayOptions ==
  /\ ui.at = "ready"
  /\ opts' = Route(proxy, setting.enabled)
  /\ UNCHANGED <<setting, ui, starts, proxy, socks, net, client, alive>>

Next ==
  \/ ToggleOn \/ ToggleOff \/ ClearWireGuardProfile \/ ImportProfile \/ StopEnds
  \/ \E i \in Ids : \/ TunnelDone(i)
                    \/ StartStops(i) \/ StartConnects(i) \/ StartInstalls(i) \/ StartPoints(i)
  \/ Request \/ PlayOptions

Spec == Init /\ [][Next]_vars

-----------------------------------------------------------------------------
\* The state has its type; a proxy that runs is the installed one, one on its
\* way in, or one on its way out: none is left running, whatever overlaps.
TypeOK ==
  /\ setting \in [enabled : BOOLEAN, profile : BOOLEAN]
  /\ starts \in [Ids -> {"unborn", "stop", "connect", "install", "point", "ok", "failed", "done"}]
  /\ proxy \in {0} \cup Ids /\ socks \in {0} \cup Ids
  /\ client \in Routes \cup {NoClient} /\ opts \in Routes
  /\ alive \subseteq {proxy, ui.old} \cup {i \in Ids : starts[i] = "install"}
  /\ proxy # 0 => proxy \in alive

\* "requests are pointed at a dead proxy instead of leaking to the clearnet"
\* (http_client.rs:6): while the tunnel is enabled no client that is kept, and no
\* player, goes around it, however starts and stops overlap.
FailClosed ==
  /\ net => client # Clear
  /\ setting.enabled /\ ui.at = "ready" => opts # Clear

\* When nothing is under way, the tunnel is as the setting says, the clients use
\* the proxy that runs and nothing else does.
AtRest == ui.at = "ready" /\ InFlight = {}
SettingHolds ==
  AtRest => /\ setting.enabled <=> proxy # 0
            /\ socks = proxy
            /\ client \in {NoClient, Route(proxy, setting.enabled)}

-----------------------------------------------------------------------------
(***************************************************************************)
(* The tunnel never leaks and leaves no proxy running, for any number of   *)
(* starts and however starts and stops overlap; and where the user waits   *)
(* for a start to end, what runs is what the setting says.                 *)
(*                                                                         *)
(* The argument: a proxy is installed once in its life, so the one that is *)
(* being stopped is never installed again; the tunnel is off for as long   *)
(* as the interface is stopping it; and whoever changes the setting of the *)
(* HTTP clients or their proxy drops the client that was kept.             *)
(***************************************************************************)

Places == {"unborn", "stop", "connect", "install", "point", "ok", "failed", "done"}
Ends == {"nothing", "options"}

Types ==
  /\ setting \in [enabled : BOOLEAN, profile : BOOLEAN]
  /\ ui \in [at : {"ready", "stopping"}, old : {0} \cup Ids, then : Ends]
  /\ starts \in [Ids -> Places]
  /\ proxy \in {0} \cup Ids /\ socks \in {0} \cup Ids /\ net \in BOOLEAN
  /\ client \in Routes \cup {NoClient} /\ opts \in Routes
  /\ alive \subseteq Ids

\* Where each proxy is in its life.
Lives ==
  /\ ui.at = "ready" => ui.old = 0
  /\ proxy # 0 => starts[proxy] \in {"point", "ok", "done"} /\ proxy \in alive
  /\ ui.old # 0 => starts[ui.old] \in {"point", "ok", "done"} /\ ui.old # proxy
  /\ \A i \in Ids : starts[i] = "install" => i \in alive
  /\ \A i \in alive : i = proxy \/ i = ui.old \/ starts[i] = "install"

\* What the clients and the player were given.
Routed ==
  /\ client = NoClient \/ client = Route(socks, net)
  /\ ui.at = "stopping" => ~setting.enabled
  /\ ui.at = "ready" => (net <=> setting.enabled)
  /\ setting.enabled => opts # Clear

TunnelInv == Types /\ Lives /\ Routed

\* One start at a time, which finds no proxy and leaves its own.
OneAtATime ==
  /\ \A i, j \in InFlight : i = j
  /\ ui.at = "stopping" => InFlight = {} /\ proxy = 0
  /\ \A i \in InFlight :
       /\ setting.enabled
       /\ starts[i] \in {"stop", "connect", "install", "failed"} => proxy = 0 /\ socks = 0
       /\ starts[i] = "point" => proxy = i
       /\ starts[i] = "ok" => proxy = i /\ socks = i
  /\ InFlight = {} /\ ui.at = "ready" => (setting.enabled <=> proxy # 0) /\ socks = proxy

-----------------------------------------------------------------------------
LEMMA RouteTyped ==
  ASSUME ConstantsOK, NEW via \in {0} \cup Ids, NEW e \in BOOLEAN
  PROVE  /\ Route(via, e) \in Routes /\ Route(via, e) # NoClient
         /\ e => Route(via, e) # Clear
BY DEF ConstantsOK, Route, Routes, Ids, Clear, Dead, NoClient

LEMMA ClearIsOther == ASSUME ConstantsOK PROVE Clear # NoClient /\ Clear # Dead /\ Clear \notin Ids
BY DEF ConstantsOK, Clear, NoClient, Dead, Ids

LEMMA IdsNat == ASSUME ConstantsOK PROVE 0 \notin Ids
BY DEF ConstantsOK, Ids

LEMMA InitHolds == ASSUME ConstantsOK, Init PROVE TunnelInv /\ OneAtATime
<1>1. setting.enabled \in BOOLEAN /\ 0 \in {0} \cup Ids
  BY DEF Init
<1>2. Types
  BY <1>1, RouteTyped DEF Init, Types, Ready, Ends, Places
<1>3. Lives
  BY DEF Init, Lives, Ready
<1>4. Routed
  BY <1>1, RouteTyped DEF Init, Routed, Ready
<1>5. OneAtATime
  <2>1. \A i \in Ids : starts[i] = IF i = 1 /\ setting.enabled THEN "stop" ELSE "unborn"
    BY DEF Init
  <2>2. \A i \in InFlight : i = 1 /\ setting.enabled /\ starts[i] = "stop"
    BY <2>1 DEF InFlight
  <2>3. setting.enabled => 1 \in InFlight
    BY <2>1 DEF InFlight, Ids, ConstantsOK
  <2>4. proxy = 0 /\ socks = 0 /\ ui.at = "ready"
    BY DEF Init, Ready
  <2>5. QED BY <2>2, <2>3, <2>4 DEF OneAtATime
<1>6. QED BY <1>2, <1>3, <1>4, <1>5 DEF TunnelInv

LEMMA TypesKept == ASSUME ConstantsOK, Types, Next PROVE Types'
<1>1. proxy \in {0} \cup Ids /\ setting.enabled \in BOOLEAN /\ setting.profile \in BOOLEAN
  BY DEF Types
<1>2. CASE ToggleOn
  BY <1>1, <1>2, RouteTyped DEF ToggleOn, Types, Move, Apply, Places
<1>3. CASE ToggleOff
  BY <1>1, <1>3 DEF ToggleOff, StopTakes, Types, Ends
<1>4. CASE ClearWireGuardProfile
  BY <1>1, <1>4 DEF ClearWireGuardProfile, StopTakes, Types, Ends
<1>5. CASE ImportProfile
  BY <1>1, <1>5 DEF ImportProfile, Types, Apply
<1>6. CASE StopEnds
  BY <1>1, <1>6, RouteTyped DEF StopEnds, Types, Apply, Ended, Ready, Ends
<1>7. ASSUME NEW i \in Ids, TunnelDone(i) PROVE Types'
  <2>1. starts' \in [Ids -> Places]
    BY <1>7 DEF TunnelDone, Types, Move, Places
  <2>2. CASE /\ Apply(setting.enabled) /\ opts' = Route(proxy, setting.enabled)
             /\ UNCHANGED <<setting, ui, proxy, socks, alive>>
    BY <1>1, <2>1, <2>2, RouteTyped DEF Types, Apply
  <2>3. CASE /\ setting' = [setting EXCEPT !.enabled = FALSE]
             /\ StopTakes("options") /\ UNCHANGED <<socks, net, client, opts, alive>>
    BY <1>1, <2>1, <2>3 DEF Types, StopTakes, Ends
  <2>4. QED BY <1>7, <2>2, <2>3 DEF TunnelDone
<1>8. ASSUME NEW i \in Ids, StartStops(i) \/ StartConnects(i) PROVE Types'
  BY <1>8 DEF StartStops, StartConnects, Types, Move, SetSocks, Ended, Places
<1>9. ASSUME NEW i \in Ids, StartInstalls(i) \/ StartPoints(i) PROVE Types'
  BY <1>9 DEF StartInstalls, StartPoints, Types, Move, Point, SetSocks, Ended, Places
<1>10. CASE Request
  <2>1. socks \in {0} \cup Ids /\ net \in BOOLEAN
    BY DEF Types
  <2>2. QED BY <1>10, <2>1, RouteTyped DEF Request, Types
<1>11. CASE PlayOptions
  BY <1>1, <1>11, RouteTyped DEF PlayOptions, Types
<1>12. QED BY <1>2, <1>3, <1>4, <1>5, <1>6, <1>7, <1>8, <1>9, <1>10, <1>11 DEF Next

LEMMA LivesKept == ASSUME ConstantsOK, Types, Lives, Next PROVE Lives'
<1>1. 0 \notin Ids
  BY IdsNat
<1>2. CASE ToggleOn
  BY <1>2 DEF ToggleOn, Types, Lives, Move
<1>3. CASE ToggleOff \/ ClearWireGuardProfile
  BY <1>1, <1>3 DEF ToggleOff, ClearWireGuardProfile, StopTakes, Types, Lives
<1>4. CASE ImportProfile \/ Request \/ PlayOptions
  BY <1>4 DEF ImportProfile, Request, PlayOptions, Lives
<1>5. CASE StopEnds
  BY <1>1, <1>5 DEF StopEnds, Types, Lives, Ended, Ready
<1>6. ASSUME NEW i \in Ids, TunnelDone(i) PROVE Lives'
  BY <1>1, <1>6 DEF TunnelDone, Types, Lives, Move, StopTakes
<1>7. ASSUME NEW i \in Ids, StartStops(i) PROVE Lives'
  BY <1>1, <1>7 DEF StartStops, Types, Lives, Move, Ended
<1>8. ASSUME NEW i \in Ids, StartConnects(i) PROVE Lives'
  BY <1>1, <1>8 DEF StartConnects, Types, Lives, Move
<1>9. ASSUME NEW i \in Ids, StartInstalls(i) PROVE Lives'
  BY <1>1, <1>9 DEF StartInstalls, Types, Lives, Move, Ended
<1>10. ASSUME NEW i \in Ids, StartPoints(i) PROVE Lives'
  BY <1>1, <1>10 DEF StartPoints, Types, Lives, Move
<1>11. QED BY <1>2, <1>3, <1>4, <1>5, <1>6, <1>7, <1>8, <1>9, <1>10 DEF Next

LEMMA RoutedKept == ASSUME ConstantsOK, Types, Routed, Next PROVE Routed'
<1>1. proxy \in {0} \cup Ids /\ setting.enabled \in BOOLEAN /\ setting.profile \in BOOLEAN
  BY DEF Types
<1>2. CASE ToggleOn
  BY <1>1, <1>2, RouteTyped DEF ToggleOn, Types, Routed, Apply
<1>3. CASE ToggleOff \/ ClearWireGuardProfile
  BY <1>1, <1>3 DEF ToggleOff, ClearWireGuardProfile, StopTakes, Types, Routed
<1>4. CASE ImportProfile
  BY <1>1, <1>4 DEF ImportProfile, Types, Routed, Apply
<1>5. CASE StopEnds
  BY <1>1, <1>5 DEF StopEnds, Types, Routed, Apply, Ready
<1>6. ASSUME NEW i \in Ids, TunnelDone(i) PROVE Routed'
  BY <1>1, <1>6, RouteTyped DEF TunnelDone, Types, Routed, Apply, StopTakes
<1>7. ASSUME NEW i \in Ids, StartStops(i) \/ StartConnects(i) PROVE Routed'
  BY <1>7 DEF StartStops, StartConnects, SetSocks, Routed
<1>8. ASSUME NEW i \in Ids, StartInstalls(i) \/ StartPoints(i) PROVE Routed'
  BY <1>8 DEF StartInstalls, StartPoints, Point, SetSocks, Routed
<1>9. CASE Request
  BY <1>9 DEF Request, Routed
<1>10. CASE PlayOptions
  BY <1>1, <1>10, RouteTyped DEF PlayOptions, Types, Routed
<1>11. QED BY <1>2, <1>3, <1>4, <1>5, <1>6, <1>7, <1>8, <1>9, <1>10 DEF Next

LEMMA TunnelInvHolds == ASSUME ConstantsOK PROVE Spec => []TunnelInv
<1>1. TunnelInv /\ [Next]_vars => TunnelInv'
  <2>1. ASSUME TunnelInv, UNCHANGED vars PROVE TunnelInv'
    BY <2>1 DEF vars, TunnelInv, Types, Lives, Routed
  <2>2. QED BY <2>1, TypesKept, LivesKept, RoutedKept DEF TunnelInv
<1>2. QED BY <1>1, InitHolds, PTL DEF Spec

-----------------------------------------------------------------------------
\* However starts and stops overlap, every variable keeps its type, and a proxy
\* that runs is the installed one or on its way in or out: none is left behind
\* (start_tunnel_from_file and stop_tunnel, wg_tunnel.rs).
THEOREM NoProxyIsLeft == ASSUME ConstantsOK PROVE Spec => []TypeOK
<1>1. TunnelInv => TypeOK
  BY DEF TunnelInv, Types, Lives, TypeOK, Places
<1>2. QED BY <1>1, TunnelInvHolds, PTL

\* While the tunnel is enabled no client that is kept and no player goes around
\* it, however starts and stops overlap ("requests are pointed at a dead proxy
\* instead of leaking to the clearnet", http_client.rs:6).
THEOREM NothingLeaks == ASSUME ConstantsOK PROVE Spec => []FailClosed
<1>1. ASSUME TunnelInv PROVE FailClosed
  <2>1. socks \in {0} \cup Ids /\ net \in BOOLEAN
    BY <1>1 DEF TunnelInv, Types
  <2>2. net => client # Clear
    BY <1>1, <2>1, RouteTyped, ClearIsOther DEF TunnelInv, Routed
  <2>3. QED BY <1>1, <2>2 DEF TunnelInv, Routed, FailClosed
<1>2. QED BY <1>1, TunnelInvHolds, PTL

-----------------------------------------------------------------------------
LEMMA Moves ==
  ASSUME Types, NEW i \in Ids, NEW at, Move(i, at)
  PROVE  /\ starts'[i] = at /\ \A j \in Ids : j # i => starts'[j] = starts[j]
         /\ at \notin {"unborn", "done"} => InFlight' = InFlight \cup {i}
         /\ at \in {"unborn", "done"} => InFlight' = InFlight \ {i}
BY DEF Types, Move, InFlight

LEMMA OneKept ==
  ASSUME ConstantsOK, Faults = {}, TunnelInv, OneAtATime, Next PROVE OneAtATime'
<1>1. 0 \notin Ids /\ Types
  BY IdsNat DEF TunnelInv
<1>2. CASE ToggleOn
  <2>1. PICK i \in Ids : starts[i] = "unborn" /\ Move(i, "stop")
    BY <1>2 DEF ToggleOn
  <2>2. /\ InFlight = {} /\ ui.at = "ready" /\ ui' = ui /\ ~setting.enabled /\ setting'.enabled
        /\ proxy' = proxy /\ socks' = socks
    BY <1>1, <1>2 DEF ToggleOn, Calm, Types
  <2>3. proxy = 0 /\ socks = 0
    BY <2>2 DEF OneAtATime
  <2>4. InFlight' = {i} /\ starts'[i] = "stop"
    BY <1>1, <2>1, <2>2, Moves
  <2>5. QED BY <2>2, <2>3, <2>4 DEF OneAtATime
<1>3. CASE ToggleOff \/ ClearWireGuardProfile
  <2>1. InFlight = {} /\ starts' = starts /\ ui'.at = "stopping" /\ proxy' = 0
    BY <1>3 DEF ToggleOff, ClearWireGuardProfile, Calm, StopTakes
  <2>2. InFlight' = {}
    BY <2>1 DEF InFlight
  <2>3. QED BY <2>1, <2>2 DEF OneAtATime
<1>4. CASE ImportProfile \/ Request \/ PlayOptions
  <2>1. /\ UNCHANGED <<ui, starts, proxy, socks>> /\ (setting'.enabled <=> setting.enabled)
    BY <1>1, <1>4 DEF ImportProfile, Request, PlayOptions, Types
  <2>2. InFlight' = InFlight
    BY <2>1 DEF InFlight
  <2>3. QED BY <2>1, <2>2 DEF OneAtATime
<1>5. CASE StopEnds
  <2>1. /\ ui.at = "stopping" /\ ui'.at = "ready" /\ socks' = 0
        /\ UNCHANGED <<setting, starts, proxy>>
    BY <1>5 DEF StopEnds, Ready
  <2>2. InFlight' = {} /\ proxy' = 0 /\ ~setting'.enabled
    BY <2>1 DEF InFlight, OneAtATime, TunnelInv, Routed
  <2>3. QED BY <2>1, <2>2 DEF OneAtATime
<1>6. ASSUME NEW i \in Ids, TunnelDone(i) PROVE OneAtATime'
  <2>1. i \in InFlight /\ Move(i, "done") /\ ui.at = "ready"
    BY <1>6 DEF TunnelDone, InFlight
  <2>2. InFlight' = {}
    BY <1>1, <2>1, Moves DEF OneAtATime
  <2>3. CASE starts[i] = "ok" /\ UNCHANGED <<setting, ui, proxy, socks>>
    <3>1. setting.enabled /\ proxy = i /\ socks = i
      BY <2>1, <2>3 DEF OneAtATime
    <3>2. QED BY <1>1, <2>1, <2>2, <2>3, <3>1 DEF OneAtATime
  <2>4. CASE StopTakes("options")
    <3>1. ui'.at = "stopping" /\ proxy' = 0
      BY <2>4 DEF StopTakes
    <3>2. QED BY <2>2, <3>1 DEF OneAtATime
  <2>5. QED BY <1>6, <2>3, <2>4 DEF TunnelDone
<1>7. ASSUME NEW i \in Ids,
             StartStops(i) \/ StartConnects(i) \/ StartInstalls(i) \/ StartPoints(i)
      PROVE  OneAtATime'
  <2>1. i \in InFlight /\ UNCHANGED <<setting, ui>>
    BY <1>7 DEF StartStops, StartConnects, StartInstalls, StartPoints, InFlight
  <2>2. InFlight = {i} /\ setting.enabled /\ ui.at # "stopping"
    BY <2>1 DEF OneAtATime
  <2>3. PICK at \in {"connect", "install", "failed", "point", "ok"} :
          /\ Move(i, at)
          /\ at \in {"connect", "install", "failed"} => proxy' = 0 /\ socks' = 0
          /\ at = "point" => proxy' = i
          /\ at = "ok" => proxy' = i /\ socks' = i
    <3>1. CASE StartStops(i)
      BY <3>1 DEF StartStops, SetSocks
    <3>2. CASE StartConnects(i)
      BY <2>1, <3>2 DEF StartConnects, OneAtATime
    <3>3. CASE StartInstalls(i)
      BY <3>3 DEF StartInstalls
    <3>4. CASE StartPoints(i)
      BY <2>1, <3>4 DEF StartPoints, Point, SetSocks, OneAtATime
    <3>5. QED BY <1>7, <3>1, <3>2, <3>3, <3>4
  <2>4. InFlight' = {i} /\ starts'[i] = at
    BY <1>1, <2>2, <2>3, Moves
  <2>5. QED BY <2>1, <2>2, <2>3, <2>4 DEF OneAtATime
<1>8. QED BY <1>2, <1>3, <1>4, <1>5, <1>6, <1>7 DEF Next

\* Where the user waits for a start to end, the tunnel at rest is as the setting
\* says: its proxy is installed or there is none, and the clients use it and
\* nothing else.
THEOREM RestIsAsSet == ASSUME ConstantsOK, Faults = {} PROVE Spec => []SettingHolds
<1>1. TunnelInv /\ OneAtATime /\ [Next]_vars => OneAtATime'
  <2>1. ASSUME OneAtATime, UNCHANGED vars PROVE OneAtATime'
    BY <2>1 DEF vars, OneAtATime, InFlight
  <2>2. QED BY <2>1, OneKept
<1>2. TunnelInv /\ OneAtATime => SettingHolds
  <2>1. ASSUME TunnelInv, OneAtATime, AtRest PROVE client \in {NoClient, Route(proxy, setting.enabled)}
    BY <2>1 DEF TunnelInv, Types, Routed, Route, OneAtATime, AtRest
  <2>2. QED BY <2>1 DEF SettingHolds, AtRest, OneAtATime
<1>3. QED BY <1>1, <1>2, InitHolds, TunnelInvHolds, PTL DEF Spec
=============================================================================
