--------------------------------- MODULE WgProxy --------------------------------
(***************************************************************************)
(* The proxy that a started tunnel is                                      *)
(* (src/crates/fluxplay/src/wg_proxy.rs): it reads the profile, waits for  *)
(* the handshake, opens a port on the machine, and gives each client that  *)
(* proves who it is a connection through the tunnel, whose names are       *)
(* resolved in the tunnel too and kept for a while.  A client is a task;   *)
(* the tasks share the slots, the cache of names and the interface.        *)
(***************************************************************************)
EXTENDS Naturals, Sequences, FiniteSets, SequencesExt

CONSTANTS
  Clients,    \* connections to the port
  Names,      \* names that clients ask for; "literal" is an address
  Zones,      \* what a name may be: sequences of addresses [fam, ver] of both families
  Families,   \* families of the interface's addresses, of {4, 6}
  Wanted,     \* the user's resolvers, with the family of each
  Profiles,   \* profiles to read: sequences of sections [kind, keys]
  Heads,      \* requests: sequences of names of headers
  MaxClients, \* MAX_CLIENTS
  Keeps,      \* TTLs a resolver may give
  KeepMin, KeepMax, \* the TTL is clamped to them
  MaxTime     \* bound: the clock

VARIABLES
  tunnel, \* "off", "probing", "listening", "stopped", "closed" or "failed"
  iface,  \* the interface: "none", "open" (and whether it shook hands), "closed"
  stop,   \* the watch the tasks look at
  conn,   \* each client: where it is and what it asks
  slots,  \* permits left
  cache,  \* name -> the addresses kept, and until when
  zone,   \* name -> its addresses
  moved,  \* name -> when they last changed
  now

vars == <<tunnel, iface, stop, conn, slots, cache, zone, moved, now>>

Nothing == [ips |-> <<>>, until |-> 0]
Away == [at |-> "away", name |-> "none", ips |-> <<>>, server |-> 0, asked |-> 0]

-----------------------------------------------------------------------------
(* The profile, by sections. *)

KeysOf(conf, kind) == UNION {conf[i].keys : i \in {j \in DOMAIN conf : conf[j].kind = kind}}
PeerWhole(keys) == {"PublicKey", "Endpoint", "AllowedIPs"} \subseteq keys

\* The peer being read is kept when the next one begins only.
ParsesNoLast(conf) ==
  LET Read(acc, section) ==
        IF section.kind = "peer"
        THEN [acc EXCEPT !.ok = @ /\ (acc.open => PeerWhole(acc.keys)), !.peers = @ + (IF acc.open THEN 1 ELSE 0),
                         !.open = TRUE, !.keys = section.keys]
        ELSE acc
      end == FoldLeft(Read, [ok |-> TRUE, peers |-> 0, open |-> FALSE, keys |-> {}], conf)
  IN  /\ end.ok /\ end.peers > 0
      /\ "PrivateKey" \in KeysOf(conf, "interface")
      /\ {"Address4", "Address6"} \cap KeysOf(conf, "interface") # {}

\* parse_profile: a peer is finished where the next one begins and at the end.
Parses(conf) ==
  LET Finish(acc) ==
        IF acc.open THEN [acc EXCEPT !.ok = @ /\ PeerWhole(acc.keys), !.peers = @ + 1] ELSE acc
      Read(acc, section) ==
        IF section.kind = "peer"
        THEN [Finish(acc) EXCEPT !.open = TRUE, !.keys = section.keys]
        ELSE acc
      end == Finish(FoldLeft(Read, [ok |-> TRUE, peers |-> 0, open |-> FALSE, keys |-> {}], conf))
  IN  /\ end.ok /\ end.peers > 0
      /\ "PrivateKey" \in KeysOf(conf, "interface")
      /\ {"Address4", "Address6"} \cap KeysOf(conf, "interface") # {}

-----------------------------------------------------------------------------
(* Names. *)

\* TunnelDns::servers, by family: the user's, then the public ones, those that the
\* interface reaches.
Servers == SelectSeq(Wanted \o <<4, 6, 4>>, LAMBDA fam : fam \in Families)

OfFamily(ips, fam) == SelectSeq(ips, LAMBDA ip : ip.fam = fam)

\* TunnelDns::lookup: A first, AAAA when there is none.
Answer(ips) ==
  LET four == IF 4 \in Families THEN OfFamily(ips, 4) ELSE <<>>
      six == IF 6 \in Families THEN OfFamily(ips, 6) ELSE <<>>
  IN  IF four # <<>> THEN four ELSE six

\* The TTL is taken as it is given.
KeptAsGiven(ttl) == ttl
\* TunnelDns::remember
Kept(ttl) == IF ttl < KeepMin THEN KeepMin ELSE IF ttl > KeepMax THEN KeepMax ELSE ttl

-----------------------------------------------------------------------------
(* The head of a request that is passed on: serve_http. *)

\* The credentials are passed on.
PassedWhole(head) ==
  SelectSeq(head, LAMBDA h : h \notin {"proxy-connection", "connection"})
    \o (IF "host" \in Range(head) THEN <<>> ELSE <<"host">>) \o <<"connection">>

Passed(head) ==
  SelectSeq(head, LAMBDA h : h \notin {"proxy-authorization", "proxy-connection", "connection"})
    \o (IF "host" \in Range(head) THEN <<>> ELSE <<"host">>) \o <<"connection">>

-----------------------------------------------------------------------------
Init ==
  /\ tunnel = "off" /\ iface = [at |-> "none", hands |-> FALSE] /\ stop = FALSE
  /\ conn = [c \in Clients |-> Away]
  /\ slots = MaxClients
  /\ cache = [n \in Names |-> Nothing]
  /\ zone \in [Names -> Zones] /\ moved = [n \in Names |-> 0]
  /\ now = 0

\* WgProxy::start, up to the handshake
StartReads ==
  /\ tunnel = "off"
  /\ \/ tunnel' = "probing" /\ iface' = [at |-> "open", hands |-> FALSE]
     \/ tunnel' = "failed" /\ UNCHANGED iface
  /\ UNCHANGED <<stop, conn, slots, cache, zone, moved, now>>

\* The peer answers.
HandsShaken ==
  /\ iface.at = "open" /\ ~iface.hands
  /\ iface' = [iface EXCEPT !.hands = TRUE]
  /\ UNCHANGED <<tunnel, stop, conn, slots, cache, zone, moved, now>>

\* The probe ends with the kick, whether or not it got through.
ProbeEndsAnyway ==
  /\ tunnel = "probing"
  /\ tunnel' = "listening"
  /\ UNCHANGED <<iface, stop, conn, slots, cache, zone, moved, now>>

\* probe, and what start makes of it: a failure closes the interface.
ProbeEnds ==
  /\ tunnel = "probing"
  /\ \/ /\ iface.hands
        /\ tunnel' = "listening"
        /\ UNCHANGED iface
     \/ /\ tunnel' = "failed"
        /\ iface' = [iface EXCEPT !.at = "closed"]
  /\ UNCHANGED <<stop, conn, slots, cache, zone, moved, now>>

\* WgProxy::shutdown
Shutdown ==
  /\ tunnel = "listening"
  /\ tunnel' = "stopped" /\ stop' = TRUE
  /\ iface' = [iface EXCEPT !.at = "closed"]
  /\ UNCHANGED <<conn, slots, cache, zone, moved, now>>

\* accept_loop: a task with a permit of its own, or nothing; a client may still come
\* in before the loop looks at the watch.
Accept(c) ==
  /\ tunnel \in {"listening", "stopped"} /\ conn[c].at = "away"
  /\ \/ /\ slots > 0
        /\ slots' = slots - 1
        /\ conn' = [conn EXCEPT ![c].at = "mute"]
     \/ slots = 0 /\ UNCHANGED <<conn, slots>>
  /\ UNCHANGED <<tunnel, iface, stop, cache, zone, moved, now>>

Serving(c) == conn[c].at # "away"

\* The permit is not given back with the task.
LeaveKeepsPermit(c) == conn' = [conn EXCEPT ![c] = Away] /\ slots' = slots

\* The task ends and its permit with it; the client may connect anew.
Leave(c) == conn' = [conn EXCEPT ![c] = Away] /\ slots' = slots + 1

\* serve_client, serve_socks5 and serve_http, up to the name: a client that stays
\* mute, is not who it should be, or asks for what is not served is let go.
Ask(c) ==
  /\ conn[c].at = "mute"
  /\ \/ Leave(c)
     \/ \E name \in Names \cup {"literal"} :
          /\ conn' = [conn EXCEPT ![c] = [@ EXCEPT !.at = "resolve", !.name = name]]
          /\ UNCHANGED slots
  /\ UNCHANGED <<tunnel, iface, stop, cache, zone, moved, now>>

Use(c, ips) ==
  conn' = [conn EXCEPT ![c] = [@ EXCEPT !.at = "connect", !.ips = ips, !.asked = now]]

\* What is kept is used whatever its age.
ResolveStale(c) ==
  /\ conn[c].at = "resolve"
  /\ LET n == conn[c].name IN
     IF n = "literal" THEN Use(c, <<[fam |-> 4, ver |-> 0]>>)
     ELSE IF cache[n].ips # <<>> THEN Use(c, cache[n].ips)
     ELSE conn' = [conn EXCEPT ![c] = [@ EXCEPT !.at = "lookup", !.server = 1]]
  /\ UNCHANGED <<tunnel, iface, stop, slots, cache, zone, moved, now>>

\* TunnelDns::resolve, up to the first resolver
Resolve(c) ==
  /\ conn[c].at = "resolve"
  /\ LET n == conn[c].name IN
     IF n = "literal" THEN Use(c, <<[fam |-> 4, ver |-> 0]>>)
     ELSE IF cache[n].ips # <<>> /\ cache[n].until > now THEN Use(c, cache[n].ips)
     ELSE conn' = [conn EXCEPT ![c] = [@ EXCEPT !.at = "lookup", !.server = 1]]
  /\ UNCHANGED <<tunnel, iface, stop, slots, cache, zone, moved, now>>

\* The next resolver, or the error of this one.
NextServer(c) ==
  IF conn[c].server < Len(Servers)
  THEN conn' = [conn EXCEPT ![c].server = @ + 1] /\ UNCHANGED slots
  ELSE Leave(c)

\* TunnelDns::resolve, one resolver: it answers, says that there is no such
\* name, or has no address or fails (as all do once the interface is closed).
LookUp(c) ==
  /\ conn[c].at = "lookup"
  /\ LET n == conn[c].name
         ips == Answer(zone[n])
     IN  \/ /\ iface.at = "open" /\ ips # <<>>
            /\ \E ttl \in Keeps : cache' = [cache EXCEPT ![n] = [ips |-> ips, until |-> now + Kept(ttl)]]
            /\ Use(c, ips)
            /\ UNCHANGED slots
         \/ /\ iface.at = "open" /\ zone[n] = <<>>
            /\ Leave(c)
            /\ UNCHANGED cache
         \/ NextServer(c) /\ UNCHANGED cache
  /\ UNCHANGED <<tunnel, iface, stop, zone, moved, now>>

\* connect_upstream: the addresses of a family that the interface has, in turn.
Connect(c) ==
  /\ conn[c].at = "connect"
  /\ LET usable == SelectSeq(conn[c].ips, LAMBDA ip : ip.fam \in Families) IN
     \/ /\ usable # <<>> /\ iface.at = "open"
        /\ conn' = [conn EXCEPT ![c].at = "open"]
        /\ UNCHANGED slots
     \/ /\ Len(usable) > 1
        /\ conn' = [conn EXCEPT ![c].ips = Tail(usable)]
        /\ UNCHANGED slots
     \/ /\ Len(usable) <= 1
        /\ Leave(c)
  /\ UNCHANGED <<tunnel, iface, stop, cache, zone, moved, now>>

\* splice ends, by either side.
Ends(c) ==
  /\ conn[c].at = "open"
  /\ Leave(c)
  /\ UNCHANGED <<tunnel, iface, stop, cache, zone, moved, now>>

\* wait_stop
Stopped(c) ==
  /\ stop /\ Serving(c)
  /\ Leave(c)
  /\ UNCHANGED <<tunnel, iface, stop, cache, zone, moved, now>>

LoopEnds ==
  /\ tunnel = "stopped"
  /\ tunnel' = "closed"
  /\ UNCHANGED <<iface, stop, conn, slots, cache, zone, moved, now>>

\* The name changes its addresses; time passes.
ZoneMoves(n) ==
  /\ moved[n] = 0 /\ now > 0
  /\ \E ips \in Zones \ {zone[n]} : zone' = [zone EXCEPT ![n] = ips]
  /\ moved' = [moved EXCEPT ![n] = now]
  /\ UNCHANGED <<tunnel, iface, stop, conn, slots, cache, now>>
Tick ==
  /\ now < MaxTime
  /\ now' = now + 1
  /\ UNCHANGED <<tunnel, iface, stop, conn, slots, cache, zone, moved>>

Next ==
  \/ StartReads \/ HandsShaken \/ ProbeEnds \/ Shutdown \/ LoopEnds \/ Tick
  \/ \E c \in Clients : \/ Accept(c) \/ Ask(c) \/ Resolve(c) \/ LookUp(c) \/ Connect(c)
                        \/ Ends(c) \/ Stopped(c)
  \/ \E n \in Names : ZoneMoves(n)

Spec == Init /\ [][Next]_vars

-----------------------------------------------------------------------------
\* The state has its type, and the permits and the tasks that hold one make
\* MaxClients: none is lost however a task ends (wg_proxy.rs:671).
TypeOK ==
  /\ tunnel \in {"off", "probing", "listening", "stopped", "closed", "failed"}
  /\ iface.at \in {"none", "open", "closed"} /\ iface.hands \in BOOLEAN
  /\ slots + Cardinality({c \in Clients : Serving(c)}) = MaxClients
  /\ \A n \in Names : zone[n] \in Zones /\ Range(cache[n].ips) \subseteq UNION {Range(z) : z \in Zones}

\* "Bring the tunnel up and verify the handshake before exposing the port"
\* (wg_proxy.rs:529): whoever is served is served through a tunnel that shook hands.
OnlyThroughTunnel ==
  \A c \in Clients : Serving(c) => iface.hands

\* A name is taken for what it was at most KeepMax ago, and for no family that the
\* interface cannot reach (wg_proxy.rs:381).
NamesAreFresh ==
  \A c \in Clients :
    conn[c].at \in {"connect", "open"} /\ conn[c].name \in Names =>
      LET n == conn[c].name IN
      /\ \/ conn[c].asked < moved[n] + KeepMax
         \/ Range(conn[c].ips) \subseteq Range(zone[n])
      /\ \A ip \in Range(conn[c].ips) : ip.fam \in Families

\* A profile is accepted when every one of its peers is whole, the last one too,
\* and it has at least one (wg_proxy.rs:93); what is passed on of a request has one
\* host, and closes after one answer (wg_proxy.rs:929).
ProfileIsWhole ==
  tunnel = "off" =>
    \A conf \in Profiles :
      LET peers == {i \in DOMAIN conf : conf[i].kind = "peer"} IN
      Parses(conf) <=> /\ peers # {} /\ \A i \in peers : PeerWhole(conf[i].keys)
                       /\ "PrivateKey" \in KeysOf(conf, "interface")
                       /\ \E a \in {"Address4", "Address6"} : a \in KeysOf(conf, "interface")
OneAnswerPerRequest ==
  tunnel = "off" =>
    \A head \in Heads :
      /\ Last(Passed(head)) = "connection"
      /\ Cardinality({i \in DOMAIN Passed(head) : Passed(head)[i] = "connection"}) = 1
      /\ "host" \in Range(Passed(head)) /\ "proxy-authorization" \notin Range(Passed(head))
=============================================================================
