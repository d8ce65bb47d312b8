----------------------------- MODULE PortalCheck -----------------------------
(***************************************************************************)
(* The diagnosis of the panels (health.rs, DiagnosePortals of app.rs): the *)
(* enabled panels one after the other, for each its account, its playlist  *)
(* export, then the streams of a few categories until one gives a          *)
(* playlist.  Each request is a step: meanwhile an account ends, a channel *)
(* of it starts playing elsewhere, an answer is lost, the user asks for    *)
(* another diagnosis.                                                      *)
(***************************************************************************)
EXTENDS Naturals, FiniteSets, Sequences, SequencesExt

CONSTANTS
  Runs,          \* diagnoses the user may start (bound)
  Portals,       \* the enabled panels, in the order of the sources
  Categories,    \* of each panel: a sequence of [locked, streams]
  MaxCategories, \* categories tried, 4
  MaxStreams,    \* streams of a category tried, 5
  MaxTurns       \* changes of the accounts (bound)

VARIABLES
  active,    \* panels whose account is active
  busy,      \* panels whose one connection is in use
  turns,     \* changes of the accounts so far
  checks,    \* the diagnoses
  status     \* the reports shown, of the diagnosis that ended last

vars == <<active, busy, turns, checks, status>>

None == <<>>
P == ToSet(Portals)

\* What a check knows of a panel before it has asked anything; `tried` and `spoilt`
\* are history: the streams it asked for, and whether anything disturbed it.
Fresh == [auth |-> FALSE, alive |-> FALSE, stream |-> None, cats |-> <<>>, cat |-> 0,
          ids |-> <<>>, tried |-> {}, spoilt |-> FALSE]
Stopped == [at |-> "no", left |-> <<>>, lines |-> <<>>, now |-> Fresh]

Init ==
  /\ active \in SUBSET P /\ busy = {} /\ turns = 0
  /\ checks = [r \in Runs |-> Stopped]
  /\ status = <<>>

-----------------------------------------------------------------------------
At(r, at) == checks[r].at = at
Of(r) == Head(checks[r].left)
Now(r) == checks[r].now
Go(r, at, now) == checks' = [checks EXCEPT ![r].at = at, ![r].now = now]
Stays == UNCHANGED <<active, busy, turns, status>>

\* The report of this panel, and the next one; its stream is not forgotten.
ReportKeepsStream(r, line) ==
  LET rest == Tail(checks[r].left)
      lines == Append(checks[r].lines, line)
  IN IF rest # <<>>
     THEN /\ checks' = [checks EXCEPT ![r] = [at |-> "auth", left |-> rest, lines |-> lines,
                                              now |-> [Fresh EXCEPT !.stream = Now(r).stream]]]
          /\ UNCHANGED status
     ELSE /\ checks' = [checks EXCEPT ![r] = [Stopped EXCEPT !.at = "done"]]
          /\ status' = lines
\* The report of this panel, and the next one.
Report(r, line) ==
  LET rest == Tail(checks[r].left)
      lines == Append(checks[r].lines, line)
  IN IF rest # <<>>
     THEN /\ checks' = [checks EXCEPT ![r] = [at |-> "auth", left |-> rest, lines |-> lines, now |-> Fresh]]
          /\ UNCHANGED status
     ELSE /\ checks' = [checks EXCEPT ![r] = [Stopped EXCEPT !.at = "done"]]
          /\ status' = lines

Line(r, ok) == [portal |-> Of(r), ok |-> ok, stream |-> Now(r).stream, tried |-> Now(r).tried,
                alive |-> Now(r).auth /\ Now(r).alive, spoilt |-> Now(r).spoilt]

\* Message::DiagnosePortals
DiagnosePortals(r) ==
  /\ At(r, "no")
  /\ checks' = [checks EXCEPT ![r] = [Stopped EXCEPT !.at = "auth", !.left = Portals]]
  /\ Stays

\* The account: a refusal or a broken answer ends the check of this panel; whatever
\* the account is, the rest is asked as well.
Auth(r) ==
  /\ At(r, "auth")
  /\ \/ /\ Go(r, "export", [Now(r) EXCEPT !.auth = TRUE, !.alive = Of(r) \in active])
        /\ UNCHANGED status
     \/ Report(r, [Line(r, FALSE) EXCEPT !.spoilt = TRUE])
  /\ UNCHANGED <<active, busy, turns>>

\* get.php is often switched off: what comes of it is only a note.
Export(r) == At(r, "export") /\ Go(r, "categories", Now(r)) /\ Stays

\* The first categories that are not pay-per-view nor for adults
OpenCategories(p) == SelectSeq([i \in DOMAIN Categories[p] |-> i], LAMBDA i : ~Categories[p][i].locked)
FirstOf(s, n) == SubSeq(s, 1, IF Len(s) < n THEN Len(s) ELSE n)
ProbedAll(p) == FirstOf([i \in DOMAIN Categories[p] |-> i], MaxCategories)
Probed(p) == FirstOf(OpenCategories(p), MaxCategories)

LiveCategories(r) ==
  /\ At(r, "categories")
  /\ \/ Go(r, "category", [Now(r) EXCEPT !.cats = Probed(Of(r))])
     \/ Go(r, "guide", [Now(r) EXCEPT !.spoilt = TRUE])
  /\ Stays

\* The streams of the next category; one whose list does not come is passed over.
LiveStreams(r) ==
  /\ At(r, "category")
  /\ LET left == Now(r).cats
     IN IF left = <<>> THEN Go(r, "guide", Now(r))
        ELSE LET n == [Now(r) EXCEPT !.cats = Tail(left), !.cat = Head(left)]
                 streams == Categories[Of(r)][Head(left)].streams
             IN \/ Go(r, "stream", [n EXCEPT !.ids = FirstOf([i \in DOMAIN streams |-> i], MaxStreams)])
                \/ Go(r, "category", [n EXCEPT !.spoilt = TRUE])
  /\ Stays

\* The next stream.  The first that gives a playlist ends the search; a locked or busy
\* one, another format and a lost answer lead to the next.
Stream(r) ==
  /\ At(r, "stream")
  /\ LET n == Now(r)
     IN IF n.ids = <<>> THEN Go(r, "category", n)
        ELSE LET id == <<n.cat, Head(n.ids)>>
                 m == [n EXCEPT !.ids = Tail(@), !.tried = @ \cup {id}]
                 plays == /\ Categories[Of(r)][n.cat].streams[Head(n.ids)] = "hls"
                          /\ Of(r) \in active \ busy
             IN \/ plays /\ Go(r, "guide", [m EXCEPT !.stream = id])
                \/ ~plays /\ Go(r, "stream", [m EXCEPT !.spoilt = @ \/ Of(r) \in busy])
                \/ Go(r, "stream", [m EXCEPT !.spoilt = TRUE])
  /\ Stays

\* The size of the guide is only a note.  The verdict takes the account and a stream.
VerdictOfAccount(n) == n.auth /\ n.alive
Verdict(n) == n.auth /\ n.alive /\ n.stream # None

Finish(r) ==
  /\ At(r, "guide")
  /\ Report(r, Line(r, Verdict(Now(r))))
  /\ UNCHANGED <<active, busy, turns>>

\* The panels: an account ends or is renewed, its connection is taken or given back.
PanelMoves(p) ==
  /\ turns < MaxTurns /\ turns' = turns + 1
  /\ \/ active' = (active \ {p}) \cup ({p} \ active) /\ UNCHANGED busy
     \/ busy' = (busy \ {p}) \cup ({p} \ busy) /\ UNCHANGED active
  /\ checks' = [r \in Runs |->
       IF checks[r].left # <<>> /\ Of(r) = p THEN [checks[r] EXCEPT !.now.spoilt = TRUE] ELSE checks[r]]
  /\ UNCHANGED status

Next ==
  \/ \E r \in Runs :
       \/ DiagnosePortals(r) \/ Auth(r) \/ Export(r) \/ LiveCategories(r) \/ LiveStreams(r)
       \/ Stream(r) \/ Finish(r)
  \/ \E p \in P : PanelMoves(p)

Spec == Init /\ [][Next]_vars

-----------------------------------------------------------------------------
\* The state has its type; a check that runs has a panel to ask.
TypeOK ==
  /\ active \subseteq P /\ busy \subseteq P
  /\ \A r \in Runs : (checks[r].left = <<>>) <=> checks[r].at \in {"no", "done"}

\* Every report of a diagnosis under way and of the one that is shown.
Reports == ToSet(status) \cup UNION {ToSet(checks[r].lines) : r \in Runs}

\* A panel that has a stream the check can come to
Sound(p) == \E i \in ToSet(Probed(p)), j \in 1 .. MaxStreams :
  j \in DOMAIN Categories[p][i].streams /\ Categories[p][i].streams[j] = "hls"

\* The verdict is the panel's own and is right: good only of an active account one of
\* whose streams gave a playlist to this very check, and good whenever there is such a
\* stream and nothing disturbed the check, whatever the panel before was
\* (health.rs:25, "Quick health scan").
VerdictIsRight ==
  \A l \in Reports :
    /\ l.ok => /\ l.alive /\ l.stream \in l.tried
               /\ Categories[l.portal][l.stream[1]].streams[l.stream[2]] = "hls"
    /\ Sound(l.portal) /\ ~l.spoilt /\ l.alive => l.ok

\* No channel that costs money or is for adults is asked for, and of a panel only a
\* few channels are (health.rs:162, "skip PPV categories; try a few streams").
FewAreAsked ==
  \A r \in Runs :
    /\ \A id \in Now(r).tried : ~Categories[Of(r)][id[1]].locked
    /\ Cardinality(Now(r).tried) <= MaxCategories * MaxStreams

\* A report for each panel, in the order of the sources.
EveryPanelReported ==
  /\ status # <<>> => [i \in DOMAIN status |-> status[i].portal] = Portals
  /\ \A r \in Runs : checks[r].left # <<>> =>
       [i \in DOMAIN checks[r].lines |-> checks[r].lines[i].portal] \o checks[r].left = Portals

=============================================================================
