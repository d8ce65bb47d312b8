------------------------------ MODULE StreamLinks ------------------------------
(***************************************************************************)
(* The stream token of one server of an account                            *)
(* (src/crates/fluxplay/src/downloads/links.rs).                           *)
(*                                                                         *)
(* The panel answers a media request with a redirect that carries a token. *)
(* It counts tokens, and one too many makes it revoke an older one, with   *)
(* the transfers that use it.  All the connections of a download share one *)
(* token and renew it one at a time.                                       *)
(*                                                                         *)
(* The panel is outside the repository: it is modelled from what links.rs  *)
(* says and handles.  Tokens are numbered as they are issued; an Option of *)
(* the code is a set of at most one element.                               *)
(***************************************************************************)
EXTENDS Naturals, FiniteSets, TLAPS

CONSTANTS
  Conns,        \* connections of the download
  MaxTokens,    \* tokens the panel issues (bound)
  Limit,        \* tokens the panel leaves valid (max_connections)
  RenewWait,    \* Links::renew_wait, in seconds
  MaxWait,      \* MAX_RENEW_WAIT, in seconds
  MaxContested, \* `contested` is counted up to here (bound)
  Faults        \* what may happen: see FaultKinds

FaultKinds == {"rival", "connect", "status", "lost", "cancel", "refuse", "direct", "error"}
Tokens == 1 .. MaxTokens

ASSUME ConstantsAssumption ==
  /\ MaxTokens \in Nat \ {0}
  /\ Limit \in Nat \ {0}
  /\ RenewWait \in Nat /\ MaxWait \in Nat
  /\ MaxContested \in Nat \ {0}
  /\ Faults \subseteq FaultKinds

VARIABLES
  panel,   \* the tokens it issued, and those of them that are valid
  token,   \* Token: the target, the last one issued and its age, the counter
  lock,    \* the connections that hold the token's mutex
  conn,    \* each connection: where it is in `send`, the target it uses
  failed   \* the targets that a connection found failing (history)

vars == <<panel, token, lock, conn, failed>>

None == {}
Idle == [pc |-> "idle", url |-> 0]

Init ==
  /\ panel = [issued |-> 0, valid |-> {}]
  /\ token = [target |-> None, issued |-> 0, young |-> FALSE, contested |-> 0]
  /\ lock = {}
  /\ conn = [c \in Conns |-> Idle]
  /\ failed = {}

-----------------------------------------------------------------------------
Least(a, b) == IF a <= b THEN a ELSE b
\* renew_wait: twice as long each time, up to a maximum.
Wait(contested) ==
  IF contested = 0 THEN 0
    ELSE Least(RenewWait * 2 ^ Least(contested - 1, 8), MaxWait)

At(c, pc) == conn[c].pc = pc
Free == lock = {}
To(c, pc) == conn' = [conn EXCEPT ![c].pc = pc]
Use(c, pc, url) == conn' = [conn EXCEPT ![c] = [pc |-> pc, url |-> url]]
\* Whether the target carries a token the panel still honours.
Answers(c) == conn[c].url \in panel.valid

\* send: the known target, else through the panel.
Send(c) ==
  /\ At(c, "idle") /\ Free
  /\ \/ \E url \in token.target : Use(c, "known", url)
     \/ token.target = None /\ To(c, "renew")
  /\ UNCHANGED <<panel, token, lock, failed>>

\* The known target answers, and its body streams from there.
KnownOk(c) ==
  /\ At(c, "known") /\ Answers(c)
  /\ To(c, "stream")
  /\ UNCHANGED <<panel, token, lock, failed>>

\* Its token is revoked, its node cannot be reached, or its node answers anything but
\* success (416, 429, 503...) although the token is honoured: the code tells none from
\* another.
KnownFails(c) ==
  /\ At(c, "known")
  /\ ~Answers(c) \/ Faults \cap {"connect", "status"} # {}
  /\ To(c, "clear")
  /\ failed' = failed \cup {conn[c].url}
  /\ UNCHANGED <<panel, token, lock>>

\* Another error is the caller's.
KnownErrs(c) ==
  /\ At(c, "known") /\ "error" \in Faults
  /\ conn' = [conn EXCEPT ![c] = Idle]
  /\ UNCHANGED <<panel, token, lock, failed>>

ClearAny(c) ==
  /\ At(c, "clear") /\ Free
  /\ token' = [token EXCEPT !.target = None]
  /\ To(c, "renew")
  /\ UNCHANGED <<panel, lock, failed>>

\* Forget the target that failed, unless it was renewed meanwhile.
Clear(c) ==
  /\ At(c, "clear") /\ Free
  /\ token' = [token EXCEPT !.target = @ \ {conn[c].url}]
  /\ To(c, "renew")
  /\ UNCHANGED <<panel, lock, failed>>

\* Another connection renewed it meanwhile.
Renewed(c) ==
  /\ At(c, "renew") /\ Free
  /\ \E url \in token.target : Use(c, "shared", url)
  /\ UNCHANGED <<panel, token, lock, failed>>

\* The mutex is kept from here to the panel's answer.  A token that did not
\* live long is contested, and waits.
Contested == IF token.issued = 0 THEN token.contested
             ELSE IF token.young THEN Least(token.contested + 1, MaxContested) ELSE 0
RenewTwice(c) ==
  /\ At(c, "renew") /\ Free
  /\ lock' = lock \cup {c}
  /\ To(c, "panel")
  /\ UNCHANGED <<panel, token, failed>>

RenewUnlocked(c) ==
  /\ At(c, "renew") /\ Free
  /\ token.target = None
  /\ token' = [token EXCEPT !.contested = Contested]
  /\ To(c, IF token.issued # 0 /\ Wait(Contested) > 0 THEN "wait" ELSE "panel")
  /\ UNCHANGED <<panel, lock, failed>>

Renew(c) ==
  /\ At(c, "renew") /\ Free
  /\ token.target = None
  /\ lock' = lock \cup {c}
  /\ token' = [token EXCEPT !.contested = Contested]
  /\ To(c, IF token.issued # 0 /\ Wait(Contested) > 0 THEN "wait" ELSE "panel")
  /\ UNCHANGED <<panel, failed>>

Waited(c) ==
  /\ At(c, "wait")
  /\ To(c, "panel")
  /\ UNCHANGED <<panel, token, lock, failed>>

\* The renewed target either streams or its refusal is the caller's.
SharedOk(c) ==
  /\ At(c, "shared") /\ Answers(c)
  /\ To(c, "stream")
  /\ UNCHANGED <<panel, token, lock, failed>>

SharedFails(c) ==
  /\ At(c, "shared")
  /\ ~Answers(c) \/ Faults \cap {"connect", "status", "error"} # {}
  /\ conn' = [conn EXCEPT ![c] = Idle]
  /\ UNCHANGED <<panel, token, lock, failed>>

\* Outside: the panel issues a token, and revokes the oldest beyond its limit.
Oldest(valid) == {t \in valid : \A u \in valid : t <= u}
PanelIssues(c) ==
  LET valid == panel.valid \cup {panel.issued + 1}
  IN  /\ At(c, "panel")
      /\ panel.issued < MaxTokens
      /\ panel' = [issued |-> panel.issued + 1,
                   valid |-> IF Cardinality(valid) > Limit THEN valid \ Oldest(valid) ELSE valid]
      /\ Use(c, "answer", panel.issued + 1)
      /\ UNCHANGED <<token, lock, failed>>

\* Its redirect is the target from now on; the mutex is released.
Answer(c) ==
  /\ At(c, "answer")
  /\ token' = [token EXCEPT !.target = {conn[c].url}, !.issued = conn[c].url, !.young = TRUE]
  /\ lock' = lock \ {c}
  /\ To(c, "stream")
  /\ UNCHANGED <<panel, failed>>

\* The answer that carries the token is lost, or is no success of the node it leads to.
AnswerLost(c) ==
  /\ At(c, "answer") /\ Faults \cap {"lost", "status"} # {}
  /\ lock' = lock \ {c}
  /\ conn' = [conn EXCEPT ![c] = Idle]
  /\ UNCHANGED <<panel, token, failed>>

PanelAskedAgain(c) ==
  /\ At(c, "panel")
  /\ "refuse" \in Faults
  /\ UNCHANGED vars

\* No token: a refusal, an answer without a redirect, an error.
PanelRefuses(c) ==
  /\ At(c, "panel")
  /\ Faults \cap {"refuse", "direct", "error"} # {}
  /\ lock' = lock \ {c}
  /\ conn' = [conn EXCEPT ![c] = Idle]
  /\ UNCHANGED <<panel, token, failed>>

\* The body ends, or breaks off with its token.
StreamEnds(c) ==
  /\ At(c, "stream")
  /\ conn' = [conn EXCEPT ![c] = Idle]
  /\ UNCHANGED <<panel, token, lock, failed>>

\* The task is aborted at an await, and drops the guard of the mutex.
Cancel(c) ==
  /\ "cancel" \in Faults
  /\ ~At(c, "idle")
  /\ lock' = lock \ {c}
  /\ conn' = [conn EXCEPT ![c] = Idle]
  /\ UNCHANGED <<panel, token, failed>>

\* Outside: another viewer takes a token of the account.
Revoke ==
  /\ "rival" \in Faults
  /\ \E t \in panel.valid : panel' = [panel EXCEPT !.valid = @ \ {t}]
  /\ UNCHANGED <<token, lock, conn, failed>>

\* The last token issued grows older than CONTESTED.
Age ==
  /\ token.young
  /\ token' = [token EXCEPT !.young = FALSE]
  /\ UNCHANGED <<panel, lock, conn, failed>>

Progress(c) ==
  \/ KnownOk(c) \/ KnownFails(c) \/ KnownErrs(c) \/ Clear(c) \/ Renewed(c) \/ Renew(c)
  \/ Waited(c) \/ SharedOk(c) \/ SharedFails(c) \/ PanelIssues(c) \/ Answer(c)
  \/ AnswerLost(c) \/ PanelRefuses(c)

Next ==
  \/ \E c \in Conns : Send(c) \/ Progress(c) \/ StreamEnds(c) \/ Cancel(c)
  \/ Revoke \/ Age

Spec == Init /\ [][Next]_vars

\* A request ends (connect and read timeouts); the mutex is handed over in the
\* order it was asked for, so that whoever waits for it gets it.
FairSpec == Spec /\ \A c \in Conns : SF_vars(Progress(c))

-----------------------------------------------------------------------------
Places == {"idle", "known", "clear", "renew", "wait", "panel", "answer", "shared", "stream"}
Asking(c) == conn[c].pc \in {"wait", "panel", "answer"}

\* Types; the mutex is held exactly while a connection asks the panel.
TypeOK ==
  /\ panel \in [issued : 0 .. MaxTokens, valid : SUBSET Tokens]
  /\ panel.valid \subseteq 1 .. panel.issued
  /\ token \in [target : {None} \cup {{t} : t \in Tokens}, issued : 0 .. MaxTokens,
                young : BOOLEAN, contested : 0 .. MaxContested]
  /\ conn \in [Conns -> [pc : Places, url : 0 .. MaxTokens]]
  /\ lock = {c \in Conns : Asking(c)}
  /\ failed \subseteq Tokens

\* However requests, renewals and cancellations interleave, and whatever fails, a
\* renewal makes the panel revoke a token that a transfer of ours still uses only if a
\* connection had found that very target failing (links.rs:6-13).
SparesTransfers ==
  \A c \in Conns :
    (At(c, "stream") /\ Answers(c) /\ conn[c].url \notin failed /\ panel'.issued > panel.issued)
      => conn[c].url \in panel'.valid

\* The target that is forgotten is one that failed, even when the connection that saw a
\* target fail gets to say so after others renewed it.
ForgetsOnlyFailed == token.target \ token'.target \subseteq failed

\* Both, the mutex being held by the connection that asks the panel.
TokensSpared == [][TypeOK /\ SparesTransfers /\ ForgetsOnlyFailed]_vars

\* A request of a connection ends, whoever holds the mutex meanwhile.
SendReturns == \A c \in Conns : conn[c].pc # "idle" ~> conn[c].pc \in {"idle", "stream"}

-----------------------------------------------------------------------------
(***************************************************************************)
(* No renewal of ours costs a transfer of ours a token that never failed   *)
(* it, for any number of connections, any limit of the panel and any mix   *)
(* of faults.                                                              *)
(*                                                                         *)
(* The argument: a connection uses the target everyone knows, or one that  *)
(* failed.  Whoever asks the panel does so because no target is known, and *)
(* keeps the mutex until it has the answer, so that at that moment every   *)
(* token in use is one that failed.                                        *)
(***************************************************************************)

\* A known target fails only because its token was revoked.
NodesAnswer == Faults \cap {"connect", "status"} = {}

\* Users of a target.
Uses(c) == conn[c].pc \in {"known", "shared", "stream"}

\* Whoever asks the panel is alone and no target is known; a target in use is the known
\* one or has failed, like the one that is about to be cleared; tokens are those that
\* were issued.
LinksInv ==
  /\ TypeOK
  /\ \A c, d \in Conns : Asking(c) /\ Asking(d) => c = d
  /\ \A c \in Conns : Asking(c) => token.target = None
  /\ token.target \subseteq 1 .. panel.issued /\ token.issued <= panel.issued
  /\ \A c \in Conns : conn[c].url <= panel.issued
  /\ \A c \in Conns : Uses(c) \/ At(c, "answer") => conn[c].url \in Tokens
  /\ \A c \in Conns : Uses(c) => token.target = {conn[c].url} \/ conn[c].url \in failed
  /\ \A c \in Conns : At(c, "clear") => conn[c].url \in failed
  /\ failed \subseteq 1 .. panel.issued
  /\ NodesAnswer => failed \cap panel.valid = {}

LEMMA LinksInit == Init => LinksInv
BY ConstantsAssumption
  DEF Init, LinksInv, TypeOK, Idle, None, Places, Asking, Uses, Answers, At

LEMMA OldestValid == ASSUME NEW S PROVE Oldest(S) \subseteq S
BY DEF Oldest

\* A token never becomes valid again, and a new one is higher than all before.
LEMMA IssueStep ==
  ASSUME LinksInv, NEW c \in Conns, PanelIssues(c)
  PROVE  LinksInv'
<1> USE ConstantsAssumption DEF LinksInv, TypeOK, At, Asking, Uses, Answers
<1>1. /\ panel'.issued = panel.issued + 1 /\ panel.issued < MaxTokens
      /\ panel'.valid \subseteq panel.valid \cup {panel.issued + 1}
      /\ conn' = [conn EXCEPT ![c] = [pc |-> "answer", url |-> panel.issued + 1]]
      /\ conn[c].pc = "panel"
      /\ UNCHANGED <<token, lock, failed>>
  BY OldestValid DEF PanelIssues, Use
<1>2. TypeOK'
  <2>1. panel' \in [issued : 0 .. MaxTokens, valid : SUBSET Tokens]
    <3>1. panel'.valid \in SUBSET Tokens BY <1>1 DEF Tokens
    <3>2. panel' = [issued |-> panel'.issued, valid |-> panel'.valid] BY DEF PanelIssues
    <3> QED BY <3>1, <3>2, <1>1
  <2>2. panel'.valid \subseteq 1 .. panel'.issued BY <1>1
  <2>3. conn' \in [Conns -> [pc : Places, url : 0 .. MaxTokens]] BY <1>1 DEF Places
  <2> QED BY <1>1, <2>1, <2>2, <2>3
<1>3. \A d \in Conns : Asking(d)' <=> Asking(d) BY <1>1
<1>4. \A d \in Conns : Uses(d)' \/ At(d, "clear")' => d # c /\ conn'[d] = conn[d]
  BY <1>1
<1>5. failed' = failed /\ panel.issued + 1 \notin failed BY <1>1 DEF PanelIssues
<1> QED BY <1>1, <1>2, <1>3, <1>4, <1>5 DEF Tokens

\* Where a connection that asks nothing goes.
LEMMA QuietStep ==
  ASSUME LinksInv, NEW c \in Conns,
         Send(c) \/ KnownOk(c) \/ KnownFails(c) \/ KnownErrs(c) \/ Renewed(c) \/ Waited(c)
           \/ SharedOk(c) \/ SharedFails(c) \/ StreamEnds(c)
  PROVE  LinksInv'
<1> USE ConstantsAssumption DEF LinksInv, TypeOK, At, Asking, Uses, Answers, Places, Idle
<1>1. /\ UNCHANGED <<panel, token, lock>>
      /\ KnownFails(c) \/ failed' = failed
  BY DEF Send, KnownOk, KnownFails, KnownErrs, Renewed, Waited, SharedOk, SharedFails, StreamEnds
<1>2. CASE Send(c) \/ Renewed(c)
  <2>1. \/ \E url \in token.target, pc \in {"known", "shared"} :
             conn' = [conn EXCEPT ![c] = [pc |-> pc, url |-> url]]
        \/ conn' = [conn EXCEPT ![c].pc = "renew"]
    BY <1>2 DEF Send, Renewed, Use, To
  <2>2. conn[c].pc \in {"idle", "renew"} /\ failed' = failed BY <1>2 DEF Send, Renewed
  <2>3. CASE conn' = [conn EXCEPT ![c].pc = "renew"]
    BY <1>1, <2>2, <2>3
  <2>4. ASSUME NEW url \in token.target, NEW pc \in {"known", "shared"},
               conn' = [conn EXCEPT ![c] = [pc |-> pc, url |-> url]]
        PROVE  LinksInv'
    <3>1. token.target = {url} /\ url \in 1 .. panel.issued
      BY DEF None
    <3>2. url \in 0 .. MaxTokens /\ url \in Tokens BY <3>1 DEF Tokens
    <3>3. conn' \in [Conns -> [pc : Places, url : 0 .. MaxTokens]] BY <2>4, <3>2
    <3>4. \A d \in Conns : Asking(d)' <=> Asking(d) BY <2>2, <2>4
    <3>5. \A d \in Conns : d # c => conn'[d] = conn[d] BY <2>4
    <3>6. conn'[c].url = url /\ conn'[c].pc \in {"known", "shared"} BY <2>4
    <3>7. TypeOK' BY <1>1, <2>2, <3>3, <3>4
    <3>8. \A d \in Conns : Uses(d)' \/ At(d, "answer")' => conn'[d].url \in Tokens
      BY <3>2, <3>5, <3>6
    <3>9. \A d \in Conns : Uses(d)' => token'.target = {conn'[d].url} \/ conn'[d].url \in failed'
      BY <1>1, <2>2, <3>1, <3>5, <3>6
    <3>10. \A d \in Conns : At(d, "clear")' => conn'[d].url \in failed' BY <2>2, <3>5, <3>6
    <3>11. \A d \in Conns : conn'[d].url <= panel'.issued BY <1>1, <3>1, <3>5, <3>6
    <3>12. \A d \in Conns : Asking(d)' => token'.target = None BY <1>1, <3>4
    <3> HIDE DEF TypeOK, Uses, At, Asking
    <3>13. \A d, e \in Conns : Asking(d)' /\ Asking(e)' => d = e BY <3>4
    <3> QED BY <1>1, <2>2, <3>7, <3>8, <3>9, <3>10, <3>11, <3>12, <3>13
  <2> QED BY <2>1, <2>3, <2>4
<1>3. CASE KnownOk(c) \/ SharedOk(c)
  <2>1. /\ conn[c].pc \in {"known", "shared"} /\ failed' = failed
        /\ conn' = [conn EXCEPT ![c].pc = "stream"]
    BY <1>3 DEF KnownOk, SharedOk, To
  <2> QED BY <1>1, <2>1
<1>4. CASE KnownFails(c)
  <2>1. /\ conn[c].pc = "known" /\ conn' = [conn EXCEPT ![c].pc = "clear"]
        /\ failed' = failed \cup {conn[c].url}
        /\ NodesAnswer => conn[c].url \notin panel.valid
    BY <1>4 DEF KnownFails, To, NodesAnswer
  <2>2. conn[c].url \in Tokens /\ conn[c].url \in 1 .. panel.issued BY <2>1 DEF Tokens
  <2>3. \A d \in Conns : Asking(d)' <=> Asking(d) BY <2>1
  <2>4. TypeOK' BY <1>1, <2>1, <2>2, <2>3
  <2>5. \A d \in Conns : conn'[d].url = conn[d].url /\ (d # c => conn'[d] = conn[d]) BY <2>1
  <2>6. \A d \in Conns : Uses(d)' \/ At(d, "answer")' => d # c BY <2>1
  <2>7. failed' \subseteq 1 .. panel'.issued BY <1>1, <2>1, <2>2
  <2>8. NodesAnswer => failed' \cap panel'.valid = {} BY <1>1, <2>1
  <2>9. \A d \in Conns : Uses(d)' => token'.target = {conn'[d].url} \/ conn'[d].url \in failed'
    BY <1>1, <2>1, <2>5, <2>6
  <2>10. \A d \in Conns : At(d, "clear")' => conn'[d].url \in failed' BY <2>1, <2>5
  <2> QED BY <1>1, <2>3, <2>4, <2>5, <2>6, <2>7, <2>8, <2>9, <2>10
<1>5. CASE Waited(c)
  BY <1>1, <1>5 DEF Waited, To
<1>6. CASE KnownErrs(c) \/ SharedFails(c) \/ StreamEnds(c)
  <2>1. /\ conn[c].pc \in {"known", "shared", "stream"} /\ failed' = failed
        /\ conn' = [conn EXCEPT ![c] = Idle]
    BY <1>6 DEF KnownErrs, SharedFails, StreamEnds
  <2> QED BY <1>1, <2>1
<1> QED BY <1>2, <1>3, <1>4, <1>5, <1>6

\* A connection takes the mutex, and one that held it leaves with or without a token.
LEMMA MutexStep ==
  ASSUME LinksInv, NEW c \in Conns,
         Renew(c) \/ AnswerLost(c) \/ PanelRefuses(c) \/ Cancel(c)
  PROVE  LinksInv'
<1> USE ConstantsAssumption DEF LinksInv, TypeOK, At, Asking, Uses, Answers, Places, Idle
<1>1. CASE Renew(c)
  <2>1. /\ conn[c].pc = "renew" /\ lock = {} /\ token.target = None
        /\ lock' = {c} /\ panel' = panel /\ failed' = failed
        /\ token' = [token EXCEPT !.contested = Contested]
        /\ \E pc \in {"wait", "panel"} : conn' = [conn EXCEPT ![c].pc = pc]
    BY <1>1 DEF Renew, Free, To
  <2>2. Contested \in 0 .. MaxContested BY DEF Contested, Least
  <2>3. \A d \in Conns : ~Asking(d) BY <2>1
  <2> QED BY <2>1, <2>2, <2>3
<1>2. CASE AnswerLost(c) \/ PanelRefuses(c) \/ Cancel(c)
  <2>1. /\ lock' = lock \ {c} /\ conn' = [conn EXCEPT ![c] = Idle]
        /\ UNCHANGED <<panel, token, failed>>
    BY <1>2 DEF AnswerLost, PanelRefuses, Cancel
  <2> QED BY <2>1
<1> QED BY <1>1, <1>2

\* The target changes: dropped once it failed, or set to a new token.
LEMMA TargetStep ==
  ASSUME LinksInv, NEW c \in Conns, Clear(c) \/ Answer(c)
  PROVE  LinksInv'
<1> USE ConstantsAssumption DEF LinksInv, TypeOK, At, Asking, Uses, Answers, Places, Tokens, None
<1>1. CASE Clear(c)
  <2>1. /\ conn[c].pc = "clear" /\ lock = {}
        /\ token' = [token EXCEPT !.target = @ \ {conn[c].url}]
        /\ conn' = [conn EXCEPT ![c].pc = "renew"]
        /\ UNCHANGED <<panel, lock, failed>>
    BY <1>1 DEF Clear, Free, To
  <2>2. token'.target \in {{}} \cup {{t} : t \in 1 .. MaxTokens} BY <2>1
  <2>3. \A d \in Conns : ~Asking(d) BY <2>1
  <2>4. token'.target \subseteq token.target /\ token'.issued = token.issued
        /\ token'.young = token.young /\ token'.contested = token.contested
    BY <2>1
  <2>5. \A d \in Conns : Uses(d)' => token'.target = {conn'[d].url} \/ conn'[d].url \in failed
    <3> SUFFICES ASSUME NEW d \in Conns, Uses(d)', conn'[d].url \notin failed
                 PROVE  token'.target = {conn'[d].url}
      OBVIOUS
    <3>1. d # c /\ conn'[d] = conn[d] BY <2>1
    <3>2. token.target = {conn[d].url} /\ conn[c].url # conn[d].url BY <2>1, <3>1
    <3> QED BY <2>1, <3>1, <3>2
  <2> QED BY <2>1, <2>2, <2>3, <2>4, <2>5
<1>2. CASE Answer(c)
  <2>1. /\ conn[c].pc = "answer" /\ conn[c].url \in 1 .. MaxTokens
        /\ token' = [token EXCEPT !.target = {conn[c].url}, !.issued = conn[c].url, !.young = TRUE]
        /\ lock' = lock \ {c} /\ panel' = panel /\ failed' = failed
        /\ conn' = [conn EXCEPT ![c].pc = "stream"]
    BY <1>2 DEF Answer, To
  <2>2. token.target = {} /\ \A d \in Conns : Asking(d) => d = c BY <2>1
  <2>3. /\ token'.target = {conn[c].url} /\ token'.issued = conn[c].url
        /\ token'.young = TRUE /\ token'.contested = token.contested
    BY <2>1
  <2>4. \A d \in Conns : ~Asking(d)' BY <2>1, <2>2
  <2>5. \A d \in Conns : Uses(d)' => d = c \/ conn'[d].url \in failed
    BY <2>1, <2>2
  <2>6. TypeOK'
    <3>1. token' \in [target : {None} \cup {{t} : t \in Tokens}, issued : 0 .. MaxTokens,
                      young : BOOLEAN, contested : 0 .. MaxContested]
      BY <2>1
    <3>2. lock' = {d \in Conns : Asking(d)'} BY <2>1, <2>2, <2>4
    <3> QED BY <2>1, <3>1, <3>2
  <2> QED BY <2>1, <2>2, <2>3, <2>4, <2>5, <2>6
<1> QED BY <1>1, <1>2

LEMMA LinksStep == LinksInv /\ [Next]_vars => LinksInv'
<1> SUFFICES ASSUME LinksInv, [Next]_vars PROVE LinksInv'
  OBVIOUS
<1>1. ASSUME NEW c \in Conns, Send(c) \/ Progress(c) \/ StreamEnds(c) \/ Cancel(c)
      PROVE  LinksInv'
  BY <1>1, QuietStep, MutexStep, TargetStep, IssueStep DEF Progress
<1>2. CASE Revoke
  BY <1>2 DEF Revoke, LinksInv, TypeOK, At, Asking, Uses, Answers
<1>3. CASE Age
  BY <1>3 DEF Age, LinksInv, TypeOK, At, Asking, Uses, Answers
<1>4. CASE UNCHANGED vars
  BY <1>4 DEF vars, LinksInv, TypeOK, At, Asking, Uses, Answers
<1> QED BY <1>1, <1>2, <1>3, <1>4 DEF Next

LEMMA LinksHold == Spec => []LinksInv
<1> QED BY LinksInit, LinksStep, PTL DEF Spec

-----------------------------------------------------------------------------
\* Whatever fails, one connection at a time asks the panel for a token, and only while
\* no target is known: the mutex is held from the look at the target to the answer.
OneAsks ==
  \A c, d \in Conns : Asking(c) /\ Asking(d) => c = d /\ token.target = None

THEOREM OneAsksThePanel == Spec => []OneAsks
<1>1. LinksInv => OneAsks BY DEF LinksInv, OneAsks
<1> QED BY <1>1, LinksHold, PTL

\* What the steps leave alone: only the panel issues, only an answer or a failure changes
\* the target.
LEMMA QuietFrame ==
  ASSUME NEW c \in Conns,
         Send(c) \/ KnownOk(c) \/ KnownFails(c) \/ KnownErrs(c) \/ Renewed(c) \/ Waited(c)
           \/ SharedOk(c) \/ SharedFails(c) \/ StreamEnds(c)
  PROVE  panel' = panel /\ token' = token
BY DEF Send, KnownOk, KnownFails, KnownErrs, Renewed, Waited, SharedOk, SharedFails, StreamEnds

LEMMA MutexFrame ==
  ASSUME TypeOK, NEW c \in Conns, Renew(c) \/ AnswerLost(c) \/ PanelRefuses(c) \/ Cancel(c)
  PROVE  panel' = panel /\ token'.target = token.target
<1>1. CASE Renew(c) BY <1>1 DEF Renew, TypeOK
<1>2. CASE AnswerLost(c) \/ PanelRefuses(c) \/ Cancel(c)
  BY <1>2 DEF AnswerLost, PanelRefuses, Cancel
<1> QED BY <1>1, <1>2

LEMMA TargetFrame ==
  ASSUME NEW c \in Conns, Clear(c) \/ Answer(c)
  PROVE  panel' = panel
BY DEF Clear, Answer

LEMMA IssueFrame ==
  ASSUME NEW c \in Conns, PanelIssues(c)
  PROVE  token' = token
BY DEF PanelIssues

LEMMA OutsideFrame ==
  ASSUME TypeOK, Revoke \/ Age
  PROVE  panel'.issued = panel.issued /\ token'.target = token.target
BY DEF Revoke, Age, TypeOK

\* However requests, renewals and cancellations interleave, and whatever fails, a renewal
\* makes the panel revoke a token that a transfer of ours still uses only if a connection
\* had found that target failing, and a target is forgotten only once it failed.
THEOREM RenewalsSpareTransfers == Spec => TokensSpared
<1>1. LinksInv /\ [Next]_vars => [TypeOK /\ SparesTransfers /\ ForgetsOnlyFailed]_vars
  <2> SUFFICES ASSUME LinksInv, Next PROVE TypeOK /\ SparesTransfers /\ ForgetsOnlyFailed
    OBVIOUS
  <2>1. SparesTransfers
    <3> SUFFICES ASSUME NEW c \in Conns, At(c, "stream"), conn[c].url \notin failed,
                        panel'.issued > panel.issued
                 PROVE  FALSE
      BY DEF SparesTransfers
    <3>1. PICK d \in Conns : PanelIssues(d)
      <4>1. panel'.issued # panel.issued /\ TypeOK BY DEF LinksInv, TypeOK
      <4> QED BY <4>1, QuietFrame, MutexFrame, TargetFrame, OutsideFrame DEF Next, Progress
    <3>2. token.target = None BY <3>1 DEF PanelIssues, LinksInv, Asking, At
    <3>3. token.target = {conn[c].url} BY DEF LinksInv, Uses, At
    <3> QED BY <3>2, <3>3 DEF None
  <2>2. ForgetsOnlyFailed
    <3> SUFFICES ASSUME NEW t \in token.target, t \notin token'.target PROVE t \in failed
      BY DEF ForgetsOnlyFailed
    <3>1. PICK c \in Conns : Clear(c) \/ Answer(c)
      <4>1. token'.target # token.target /\ TypeOK BY DEF LinksInv
      <4> QED BY <4>1, QuietFrame, MutexFrame, IssueFrame, OutsideFrame DEF Next, Progress
    <3>2. CASE Clear(c)
      BY <3>2 DEF Clear, LinksInv, TypeOK
    <3>3. CASE Answer(c)
      BY <3>3 DEF Answer, LinksInv, Asking, At, None
    <3> QED BY <3>1, <3>2, <3>3
  <2> QED BY <2>1, <2>2 DEF LinksInv
<1> QED BY <1>1, LinksHold, PTL DEF Spec, TokensSpared

\* Where the nodes answer every token that is honoured, no target fails before it is
\* revoked: then nobody but another viewer costs a transfer of ours its token.
THEOREM OnlyRevokedFail ==
  ASSUME NodesAnswer
  PROVE  Spec => [](failed \cap panel.valid = {})
<1>1. LinksInv => failed \cap panel.valid = {} BY DEF LinksInv
<1> QED BY <1>1, LinksHold, PTL
=============================================================================
