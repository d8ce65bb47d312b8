-------------------------------- MODULE Playlists --------------------------------
(***************************************************************************)
(* The channels of a source that is not an Xtream panel: a playlist file   *)
(* (src/crates/fluxplay-providers/src/m3u_source.rs, and m3u.rs of         *)
(* fluxplay-core) or a Stalker portal (stalker.rs).                        *)
(*                                                                         *)
(* A playlist is composed of entries; its attribute lines are sequences of *)
(* tokens, everything else a line says is its kind.  A portal hands its    *)
(* list out page by page.                                                  *)
(***************************************************************************)
EXTENDS Naturals, Sequences, SequencesExt

CONSTANTS
  Entries,    \* what a playlist is written of: [inf, attrs, title, grp, tag, noise, url]
  MaxEntries, \* bound: entries of a playlist
  Agents,     \* user agents that are tried
  Lists,      \* the lists a portal may have: sequences of [id, cmd, gid, genre]
  Named,      \* the genres a portal names
  PageSize,   \* items of a page
  MaxPages,   \* MAX_PAGES
  Faults      \* subset of {"page", "shift"}: a web page with links as an answer; a list
              \* that moves between two pages

VARIABLES
  kind,    \* "m3u" or "stalker"
  step,    \* where the load is
  tries,   \* requests of the playlist so far
  written, \* [header, entries]: the playlist on the server
  lines,   \* what is left of it to read
  pend,    \* pending_meta
  tag,     \* catchup: the tag line that waits for its entry, or NoTag
  seen,    \* seen_ids
  portal,  \* [list, tells]: the portal's list, and whether it tells its length
  titles,  \* genres
  page,    \* the page that is asked
  items,   \* arr
  channels

vars == <<kind, step, tries, written, lines, pend, tag, seen, portal, titles, page, items, channels>>
textVars == <<tries, written, lines, pend, tag, seen>>
portalVars == <<portal, titles, page, items>>

-----------------------------------------------------------------------------
\* An attribute line is written and read.

NoTag == [by |-> "none"]
Quote == "\""

\* An #EXTINF line as the playlist's author writes it.
Written(e) ==
  FlattenSeq([i \in 1 .. Len(e.attrs) |-> <<e.attrs[i][1], "=", Quote>> \o e.attrs[i][2] \o <<Quote>>])
    \o <<",">> \o e.title

\* The title starts after the first comma outside quotes.
Quoted(toks, i) == Len(SelectSeq(SubSeq(toks, 1, i), LAMBDA t : t = Quote)) % 2 = 1
CommaAtAny(toks) == {i \in 1 .. Len(toks) : toks[i] = ","}
CommaAt(toks) == {i \in 1 .. Len(toks) : toks[i] = "," /\ ~Quoted(toks, i)}
First(S) == CHOOSE i \in S : \A j \in S : i <= j
AttrsOf(toks) == IF CommaAt(toks) = {} THEN toks ELSE SubSeq(toks, 1, First(CommaAt(toks)) - 1)
TitleOf(toks) == IF CommaAt(toks) = {} THEN <<>> ELSE SubSeq(toks, First(CommaAt(toks)) + 1, Len(toks))

\* for_each_quoted_attr: the pairs of a key, a sign and a quoted value.
Scan(toks) ==
  LET Token(s, t) ==
        IF s.at = "value" THEN IF t = Quote THEN [s EXCEPT !.at = "gap", !.out = Append(@, <<s.key, s.val>>)]
                               ELSE [s EXCEPT !.val = Append(@, t)]
        ELSE IF s.at = "sign" /\ t = Quote THEN [s EXCEPT !.at = "value", !.val = <<>>]
        ELSE IF s.at = "key" /\ t = "=" THEN [s EXCEPT !.at = "sign"]
        ELSE IF t \in {"=", ",", Quote} THEN [s EXCEPT !.at = "gap"]
        ELSE [s EXCEPT !.at = "key", !.key = t]
      end == FoldLeft(Token, [at |-> "gap", key |-> "", val |-> <<>>, out |-> <<>>], toks)
  IN  IF end.at = "value" THEN Append(end.out, <<end.key, end.val>>) ELSE end.out

\* The last value of a key that is not empty, or none.
ValueOf(pairs, k) ==
  LET said == SelectSeq(pairs, LAMBDA p : p[1] = k /\ p[2] # <<>>)
  IN  IF said = <<>> THEN <<>> ELSE Last(said)[2]

NoMeta == [some |-> FALSE, title |-> <<>>, id |-> <<>>, group |-> <<>>, own |-> FALSE]
ParseExtInf(toks) ==
  LET pairs == Scan(AttrsOf(toks))
  IN  [some |-> TRUE, title |-> TitleOf(toks), id |-> ValueOf(pairs, "tvg-id"),
       group |-> ValueOf(pairs, "group-title"), own |-> ValueOf(pairs, "catchup") # <<>>]

\* The lines of an entry; a tag line carries the entry it was written for.
LinesOf(e, n) ==
  LET line(k) == [k |-> k, toks |-> <<>>, of |-> n]
      only(c, k) == IF c THEN <<line(k)>> ELSE <<>>
  IN  only(e.tag = "before", "tag")
      \o (IF e.inf THEN <<[k |-> "inf", toks |-> Written(e), of |-> n]>> ELSE <<>>)
      \o only(e.grp, "grp") \o only(e.noise, "text") \o only(e.tag = "inside", "tag")
      \o only(e.url, "url")

TextOf(w) ==
  (IF w.header THEN <<[k |-> "note", toks |-> <<>>, of |-> 0]>> ELSE <<>>)
    \o FlattenSeq([i \in 1 .. Len(w.entries) |-> LinesOf(w.entries[i], i)])

Headed(text) == \E i \in 1 .. Len(text) : text[i].k \in {"note", "inf"}
Listed(text) == \E i \in 1 .. Len(text) : text[i].k = "url"

\* normalize_mac, of the hexadecimal digits of what was typed in.
MacWhole(digits) == digits = 12

-----------------------------------------------------------------------------
Init ==
  /\ kind \in {"m3u", "stalker"}
  /\ \E digits \in {11, 12} :
       step = IF kind = "m3u" THEN "ask" ELSE IF MacWhole(digits) THEN "handshake" ELSE "failed"
  /\ tries = 0 /\ lines = <<>> /\ pend = NoMeta /\ tag = NoTag /\ seen = <<>>
  /\ titles = {} /\ page = 0 /\ items = <<>> /\ channels = <<>>
  /\ IF kind = "m3u"
     THEN /\ \E n \in 1 .. MaxEntries : written \in [header : BOOLEAN, entries : [1 .. n -> Entries]]
          /\ portal = [list |-> <<>>, tells |-> FALSE]
     ELSE /\ written = [header |-> FALSE, entries |-> <<>>]
          /\ portal \in [list : Lists, tells : BOOLEAN]

\* fetch_playlist_body: the next user agent after a refusal, a wait (a rate limit) or
\* a body that is not a list; another status ends it.
Again ==
  /\ kind = "m3u" /\ step = "ask" /\ tries < Agents
  /\ tries' = tries + 1
  /\ \E answer \in {"refused", "many", "empty", "page", "lost"} :
       step' = IF tries' = Agents THEN "failed" ELSE IF answer = "many" THEN "sleep" ELSE "ask"
  /\ UNCHANGED <<kind, written, lines, pend, tag, seen, channels, portalVars>>
Waited ==
  /\ step = "sleep"
  /\ step' = "ask"
  /\ UNCHANGED <<kind, textVars, channels, portalVars>>
GiveUp ==
  /\ kind = "m3u" /\ step = "ask" /\ tries < Agents
  /\ tries' = tries + 1
  /\ step' = "failed"
  /\ UNCHANGED <<kind, written, lines, pend, tag, seen, channels, portalVars>>

\* A body came.  Without a header and without an attribute line it is a list of
\* addresses, or no playlist.
Got ==
  /\ kind = "m3u" /\ step = "ask" /\ tries < Agents
  /\ tries' = tries + 1
  /\ \E text \in {TextOf(written)} \cup
        (IF "page" \in Faults THEN {<<[k |-> "url", toks |-> <<>>, of |-> 0]>>} ELSE {}) :
       /\ lines' = text
       /\ step' = IF Headed(text) THEN "read" ELSE IF Listed(text) THEN "bare" ELSE "failed"
  /\ UNCHANGED <<kind, written, pend, tag, seen, channels, portalVars>>

-----------------------------------------------------------------------------
\* parse_m3u, line by line.

Reads(k) == step = "read" /\ lines # <<>> /\ Head(lines).k = k /\ lines' = Tail(lines)
TextUnchanged == UNCHANGED <<kind, step, tries, written, portalVars>>

ReadInf ==
  /\ Reads("inf")
  /\ pend' = ParseExtInf(Head(lines).toks)
  /\ UNCHANGED <<tag, seen, channels>> /\ TextUnchanged
\* #EXTGRP belongs to the attribute line before it.
ReadGroup ==
  /\ Reads("grp")
  /\ pend' = IF pend.some THEN [pend EXCEPT !.group = <<"grp">>] ELSE pend
  /\ UNCHANGED <<tag, seen, channels>> /\ TextUnchanged
ReadTag ==
  /\ Reads("tag")
  /\ tag' = [by |-> "tag", of |-> Head(lines).of]
  /\ UNCHANGED <<pend, seen, channels>> /\ TextUnchanged
ReadOther ==
  /\ Reads("note") \/ Reads("text")
  /\ UNCHANGED <<pend, tag, seen, channels>> /\ TextUnchanged

\* An identifier a playlist repeats gets a number.
Numbered(base, times) == IF times = 0 THEN base ELSE base \o <<"#", ToString(times + 1)>>
Times(base) == Len(SelectSeq(seen, LAMBDA b : b = base))
ReadUrlKeepsTag ==
  /\ Reads("url")
  /\ LET base == IF pend.id # <<>> THEN pend.id ELSE <<"ch-", ToString(Len(channels) + 1)>>
     IN  /\ seen' = Append(seen, base)
         /\ channels' = Append(channels,
              [id |-> Numbered(base, Times(base)), name |-> pend.title, group |-> pend.group,
               catchup |-> IF pend.own THEN [by |-> "own"] ELSE tag, of |-> Head(lines).of])
         /\ tag' = IF pend.own THEN tag ELSE NoTag
  /\ pend' = NoMeta
  /\ TextUnchanged
\* The tag is the entry's, whether it has one of its own or not.
ReadUrl ==
  /\ Reads("url")
  /\ LET base == IF pend.id # <<>> THEN pend.id ELSE <<"ch-", ToString(Len(channels) + 1)>>
     IN  /\ seen' = Append(seen, base)
         /\ channels' = Append(channels,
              [id |-> Numbered(base, Times(base)), name |-> pend.title, group |-> pend.group,
               catchup |-> IF pend.own THEN [by |-> "own"] ELSE tag, of |-> Head(lines).of])
  /\ tag' = NoTag /\ pend' = NoMeta
  /\ TextUnchanged
ReadEnds ==
  /\ step = "read" /\ lines = <<>>
  /\ step' = "done"
  /\ UNCHANGED <<kind, textVars, channels, portalVars>>

\* parse_bare_urls.
ReadBare ==
  /\ step = "bare"
  /\ LET urls == SelectSeq(lines, LAMBDA l : l.k = "url")
     IN  channels' = [i \in 1 .. Len(urls) |->
           [id |-> <<"ch-", ToString(i)>>, name |-> <<>>, group |-> <<>>, catchup |-> NoTag,
            of |-> urls[i].of]]
  /\ step' = "done" /\ lines' = <<>>
  /\ UNCHANGED <<kind, tries, written, pend, tag, seen, portalVars>>

-----------------------------------------------------------------------------
\* StalkerClient.

\* What a request of it gives.
Request == {"value", "error"}

\* The token comes with the handshake; what get_profile answers is not looked at.
Handshake ==
  /\ step = "handshake"
  /\ \E r \in Request : step' = IF r = "value" THEN "genres" ELSE "failed"
  /\ UNCHANGED <<kind, textVars, channels, portalVars>>
\* get_genres; without an answer there are none.
GetGenres ==
  /\ step = "genres"
  /\ \E r \in Request : titles' = IF r = "value" THEN Named \ {"*"} ELSE {}
  /\ step' = "page" /\ page' = 1
  /\ UNCHANGED <<kind, textVars, channels, portal, items>>

Least(a, b) == IF a <= b THEN a ELSE b
PageOf(list, p) == SubSeq(list, (p - 1) * PageSize + 1, Least(p * PageSize, Len(list)))

\* The portal's list moves between two pages.
Moves ==
  \/ UNCHANGED portal
  \/ /\ "shift" \in Faults
     /\ portal' = [portal EXCEPT !.list = <<[id |-> "0", cmd |-> <<"u0">>, gid |-> "", genre |-> ""]>> \o @]

\* A page came: it was the last if it is empty, if the portal does not tell its length or
\* if as many items came as it has.
PageComesEarly ==
  /\ step = "page"
  /\ items' = items \o PageOf(portal.list, page)
  /\ Moves
  /\ step' = IF \/ ~portal.tells \/ page = MaxPages
                \/ Len(PageOf(portal.list, page)) < PageSize
                \/ Len(items') + PageSize > Len(portal.list)
             THEN "build" ELSE "page"
  /\ page' = page + 1
  /\ UNCHANGED <<kind, textVars, channels, titles>>
PageComes ==
  /\ step = "page"
  /\ items' = items \o PageOf(portal.list, page)
  /\ Moves
  /\ step' = IF \/ PageOf(portal.list, page) = <<>> \/ ~portal.tells \/ page = MaxPages
                \/ Len(items') >= Len(portal.list)
             THEN "build" ELSE "page"
  /\ page' = page + 1
  /\ UNCHANGED <<kind, textVars, channels, titles>>
\* The pages loaded are kept, the first one has to come.
PageFails ==
  /\ step = "page"
  /\ step' = IF page = 1 THEN "failed" ELSE "cut"
  /\ UNCHANGED <<kind, textVars, channels, portalVars>>
\* strip_cmd_prefix.
Players == {"ffmpeg", "ffrt", "auto"}
StripCmd(cmd) == IF Len(cmd) > 1 /\ Head(cmd) \in Players THEN Tail(cmd) ELSE cmd

\* An item without an address is no channel, one without an identifier gets a number.
Channel(item, n) ==
  [id |-> IF item.id = "" THEN <<"stalker-", ToString(n)>> ELSE <<item.id>>,
   url |-> StripCmd(item.cmd),
   group |-> IF item.genre # "" THEN item.genre
             ELSE IF item.gid \in titles THEN item.gid ELSE "none"]
Channels(list) ==
  FoldLeft(LAMBDA out, item : IF item.cmd = <<>> THEN out ELSE Append(out, Channel(item, Len(out))),
           <<>>, list)
Build ==
  /\ step \in {"build", "cut"}
  /\ channels' = Channels(items)
  /\ step' = IF step = "cut" THEN "kept" ELSE "done"
  /\ UNCHANGED <<kind, textVars, portalVars>>

-----------------------------------------------------------------------------
Next ==
  \/ Again \/ Waited \/ GiveUp \/ Got
  \/ ReadInf \/ ReadGroup \/ ReadTag \/ ReadOther \/ ReadUrl \/ ReadEnds \/ ReadBare
  \/ Handshake \/ GetGenres \/ PageComes \/ PageFails \/ Build

Spec == Init /\ [][Next]_vars

-----------------------------------------------------------------------------
TypeOK ==
  /\ kind \in {"m3u", "stalker"}
  /\ step \in {"ask", "sleep", "read", "bare", "handshake", "genres", "page", "build", "cut",
               "kept", "done", "failed"}
  /\ tries \in 0 .. Agents /\ page \in 0 .. MaxPages + 1
  /\ tag = NoTag \/ tag.of \in 1 .. MaxEntries
  /\ titles \subseteq Named

\* No two channels of a source have one identifier, whatever its author repeats: the
\* favourites, the guide and the art are kept by it ("HD/SD variants often share one
\* tvg-id; each still needs its own channel id", m3u.rs:42).
IdsDistinct == \A i, j \in 1 .. Len(channels) : channels[i].id = channels[j].id => i = j

\* A catchup tag is of the entry it was written for, "never to the next one" (m3u.rs:88).
TagsStay ==
  kind = "m3u" => \A i \in 1 .. Len(channels) :
                    channels[i].catchup.by = "tag" => channels[i].catchup.of = channels[i].of

\* A playlist that was read to its end is one channel for each entry, with the title,
\* the group and the catchup its author gave it, commas and quotes included.
Bare == ~Headed(TextOf(written))
PlaylistRead ==
  kind = "m3u" /\ step = "done" =>
    LET whole == SelectSeq([i \in 1 .. Len(written.entries) |-> i], LAMBDA i : written.entries[i].url)
    IN  /\ Len(channels) = Len(whole)
        /\ \A n \in 1 .. Len(whole) :
             LET c == channels[n]  e == written.entries[whole[n]]
             IN  /\ c.of = whole[n]
                 /\ c.name = IF e.inf THEN e.title ELSE <<>>
                 /\ c.group = IF ~e.inf THEN <<>> ELSE IF e.grp THEN <<"grp">>
                              ELSE ValueOf(e.attrs, "group-title")
                 /\ c.catchup = IF Bare THEN NoTag
                                ELSE IF e.inf /\ ValueOf(e.attrs, "catchup") # <<>> THEN [by |-> "own"]
                                ELSE IF e.tag = "none" THEN NoTag ELSE [by |-> "tag", of |-> whole[n]]

\* The channels of a portal that tells how many it has are all of those with an address,
\* in its order, those of the first pages if a later one failed; the player's name that
\* stands before an address is not part of it.
Playable(list) == SelectSeq(list, LAMBDA x : x.cmd # <<>>)
PortalRead ==
  LET addresses == [i \in 1 .. Len(channels) |-> channels[i].url]
      all == [i \in 1 .. Len(Playable(portal.list)) |-> <<Last(Playable(portal.list)[i].cmd)>>]
  IN  /\ kind = "stalker" /\ step = "done" /\ portal.tells /\ Len(portal.list) <= MaxPages * PageSize
           => addresses = all
      /\ kind = "stalker" /\ step \in {"done", "kept"} => IsPrefix(addresses, all)
=============================================================================
