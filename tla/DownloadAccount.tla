---------------------------- MODULE DownloadAccount ----------------------------
(***************************************************************************)
(* Streams and connection slots of one IPTV account                        *)
(* (src/crates/fluxplay/src/downloads/account.rs).                         *)
(*                                                                         *)
(* A title holds a lease, one of the account's streams, for its whole run; *)
(* its fetchers hold a slot for every connection.  Both wait on the same   *)
(* Notify: a waiter registers (Notified::enable) before it looks at the    *)
(* counters, and a release decrements under the lock but notifies after    *)
(* it.  The number of slots is learned: `probe` tries one more and keeps   *)
(* it if the throughput grew, `refused` finds the panel's limit.           *)
(*                                                                         *)
(* Elapsed time is the choice of when a hold ends, a refusal gets old and  *)
(* a limit is forgotten.  Throughput is a number of bytes per second, 0 to *)
(* MaxRate.                                                                *)
(***************************************************************************)
EXTENDS Naturals, FiniteSets, FiniteSetTheorems, TLAPS

CONSTANTS
  Start,      \* slots the account begins with
  Max,        \* slots it may ever reach (MAX_CONNECTIONS)
  Streams,    \* numbers of titles at once its panel may announce
  Fetchers,   \* connections of its downloads
  Titles,     \* downloads
  TitleOf,    \* the title each fetcher belongs to
  Patient,    \* titles that wait for a lease; the others try once
  MaxRate     \* bound on the throughput

ASSUME ConstantsAssumption ==
  /\ Start \in Nat \ {0}
  /\ Max \in Nat /\ Start <= Max
  /\ Streams \subseteq Nat \ {0} /\ Streams # {}
  /\ TitleOf \in [Fetchers -> Titles]
  /\ Patient \subseteq Titles
  /\ MaxRate \in Nat
  /\ IsFiniteSet(Fetchers) /\ IsFiniteSet(Titles) /\ Fetchers \cap Titles = {}

\* An Option of the code: nothing, or one value.
None == {}
Some(x) == {x}
Option(S) == {None} \cup {Some(x) : x \in S}
Rates == 0 .. MaxRate
SlotCounts == 1 .. Max

VARIABLES
  cap,          \* slots downloads may hold together now
  served,       \* most slots kept after a successful trial
  refusedAt,    \* the panel's limit and whether it is still remembered
  suspect,      \* count at which a trial was refused once
  lastRefusal,  \* last refusal outside a trial: "recent" (REFUSALS_CLOSE) or "old"
  hold,         \* rate the present hold started at, while it lasts
  trial,        \* throughput before the slot on trial was added
  probed,       \* whether last_probe is set
  streamsMax,   \* titles at once, as announced last
  inUse, waiting, streams,   \* the counters of State
  fetcher,      \* where each fetcher is
  title,        \* where each title is
  notified      \* registered waiters that have been woken

learned == <<cap, served, refusedAt, suspect, lastRefusal, hold, trial, probed>>
counters == <<inUse, waiting, streams>>
vars == <<learned, streamsMax, counters, fetcher, title, notified>>

Clients == Fetchers \cup Titles
RegisteredAsleep == {f \in Fetchers : fetcher[f] = "waiting"}
                      \cup {t \in Titles : title[t] = "waiting"}
\* A notify_waiters wakes exactly the clients registered at that moment.
Registered == {f \in Fetchers : fetcher[f] \in {"enabled", "queued", "waiting"}}
                \cup {t \in Titles : title[t] \in {"enabled", "queued", "waiting"}}
NotifyWaiters == notified' = notified \cup Registered

FetcherTo(f, pc) == fetcher' = [fetcher EXCEPT ![f] = pc]
TitleTo(t, pc) == title' = [title EXCEPT ![t] = pc]

-----------------------------------------------------------------------------
Init ==
  /\ cap = Start
  /\ served = 0
  /\ refusedAt = None
  /\ suspect = None
  /\ lastRefusal = None
  /\ hold = None
  /\ trial = None
  /\ probed = FALSE
  /\ streamsMax \in Streams
  /\ inUse = 0 /\ waiting = 0 /\ streams = 0
  /\ fetcher = [f \in Fetchers |-> "idle"]
  /\ title = [t \in Titles |-> "idle"]
  /\ notified = {}

\* The counters are saturating: releasing never goes below zero.
Less(n) == IF n = 0 THEN 0 ELSE n - 1
AtLeastOne(n) == IF n = 0 THEN 1 ELSE n
Lowest(a, b) == IF a <= b THEN a ELSE b
CapBelowRefusalUnclamped(n) == Less(Less(n))
\* cap_below_refusal: one fewer, and one more left for playback.
CapBelowRefusal(n) == AtLeastOne(Less(Less(n)))

\* State::ceiling: the limit, unless it is forgotten, which clears it.
Remembered == {limit \in refusedAt : limit.fresh}
Ceiling == CHOOSE c \in SlotCounts :
             /\ Remembered = None => c = Max
             /\ \A limit \in Remembered : c = Lowest(CapBelowRefusal(limit.n), Max)

-----------------------------------------------------------------------------
\* A title starts: it announces the panel's present limit and wakes the rest.
Shared(t) ==
  /\ title[t] = "idle"
  /\ streamsMax' \in Streams
  /\ TitleTo(t, "joining")
  /\ UNCHANGED <<learned, counters, fetcher, notified>>

SharedNotify(t) ==
  /\ title[t] = "joining"
  /\ NotifyWaiters
  /\ TitleTo(t, "trying")
  /\ UNCHANGED <<learned, streamsMax, counters, fetcher>>

TakeLease(t) ==
  /\ streams < streamsMax
  /\ streams' = streams + 1
  /\ TitleTo(t, "leased")
  /\ UNCHANGED <<learned, streamsMax, inUse, waiting, fetcher, notified>>

TryLease(t) == title[t] = "trying" /\ TakeLease(t)

\* No stream is free: a preload gives up, a download waits for one.
LeaseBusy(t) ==
  /\ title[t] = "trying"
  /\ streams >= streamsMax
  /\ TitleTo(t, IF t \in Patient THEN "asking" ELSE "idle")
  /\ UNCHANGED <<learned, streamsMax, counters, fetcher, notified>>

LeaseEnable(t) ==
  /\ title[t] = "asking"
  /\ TitleTo(t, "enabled")
  /\ notified' = notified \ {t}
  /\ UNCHANGED <<learned, streamsMax, counters, fetcher>>

Lease(t) == title[t] = "enabled" /\ TakeLease(t)

LeaseQueue(t) ==
  /\ title[t] = "enabled"
  /\ streams >= streamsMax
  /\ TitleTo(t, "queued")
  /\ UNCHANGED <<learned, streamsMax, counters, fetcher, notified>>

LeaseWait(t) ==
  /\ title[t] = "queued"
  /\ TitleTo(t, "waiting")
  /\ UNCHANGED <<learned, streamsMax, counters, fetcher, notified>>

LeaseWake(t) ==
  /\ title[t] = "waiting"
  /\ t \in notified
  /\ TitleTo(t, "asking")
  /\ UNCHANGED <<learned, streamsMax, counters, fetcher, notified>>

\* The download ends or is cancelled while it holds its lease.
DropLease(t) ==
  /\ title[t] = "leased"
  /\ streams' = Less(streams)
  /\ TitleTo(t, "dropped")
  /\ UNCHANGED <<learned, streamsMax, inUse, waiting, fetcher, notified>>

LeaseNotify(t) ==
  /\ title[t] = "dropped"
  /\ NotifyWaiters
  /\ TitleTo(t, "idle")
  /\ UNCHANGED <<learned, streamsMax, counters, fetcher>>

\* The download is cancelled while it waits for its lease.
CancelLease(t) ==
  /\ title[t] = "waiting"
  /\ TitleTo(t, "idle")
  /\ notified' = notified \ {t}
  /\ UNCHANGED <<learned, streamsMax, counters, fetcher>>

-----------------------------------------------------------------------------
\* A running title wants one more connection.
Want(f) ==
  /\ fetcher[f] = "idle"
  /\ title[TitleOf[f]] \in {"leased", "probed"}
  /\ FetcherTo(f, "asking")
  /\ UNCHANGED <<learned, streamsMax, counters, title, notified>>

Enable(f) ==
  /\ fetcher[f] = "asking"
  /\ FetcherTo(f, "enabled")
  /\ notified' = notified \ {f}
  /\ UNCHANGED <<learned, streamsMax, counters, title>>

\* The account was idle: the trial and the probe before it are forgotten.
Acquire(f) ==
  /\ fetcher[f] = "enabled"
  /\ inUse < cap
  /\ inUse' = inUse + 1
  /\ IF inUse = 0 /\ waiting = 0
       THEN trial' = None /\ probed' = FALSE
       ELSE UNCHANGED <<trial, probed>>
  /\ FetcherTo(f, "holding")
  /\ UNCHANGED <<cap, served, refusedAt, suspect, lastRefusal, hold,
                 streamsMax, waiting, streams, title, notified>>

Queue(f) ==
  /\ fetcher[f] = "enabled"
  /\ inUse >= cap
  /\ waiting' = waiting + 1
  /\ FetcherTo(f, "queued")
  /\ UNCHANGED <<learned, streamsMax, inUse, streams, title, notified>>

\* `freed.await`, after the lock was released.
Wait(f) ==
  /\ fetcher[f] = "queued"
  /\ FetcherTo(f, "waiting")
  /\ UNCHANGED <<learned, streamsMax, counters, title, notified>>

Wake(f) ==
  /\ fetcher[f] = "waiting"
  /\ f \in notified
  /\ waiting' = Less(waiting)
  /\ FetcherTo(f, "asking")
  /\ UNCHANGED <<learned, streamsMax, inUse, streams, title, notified>>

CancelAcquireLeaks(f) ==
  /\ fetcher[f] = "waiting"
  /\ FetcherTo(f, "idle")
  /\ notified' = notified \ {f}
  /\ UNCHANGED <<learned, streamsMax, counters, title>>

\* Its task is aborted while it waits: Waiting is dropped with the future.
CancelAcquire(f) ==
  /\ fetcher[f] = "waiting"
  /\ waiting' = Less(waiting)
  /\ FetcherTo(f, "idle")
  /\ notified' = notified \ {f}
  /\ UNCHANGED <<learned, streamsMax, inUse, streams, title>>

\* The slot is released under the lock, and the waiters are woken after it.
DropSlot(f) ==
  /\ fetcher[f] = "holding"
  /\ inUse' = Less(inUse)
  /\ FetcherTo(f, "dropped")
  /\ UNCHANGED <<learned, streamsMax, waiting, streams, title, notified>>

SlotNotify(f) ==
  /\ fetcher[f] = "dropped"
  /\ NotifyWaiters
  /\ FetcherTo(f, "idle")
  /\ UNCHANGED <<learned, streamsMax, counters, title>>

\* A panel refusal counts only beside another connection (open: in_use is
\* read under its own lock).
RefusalSeen(f) ==
  /\ fetcher[f] = "holding"
  /\ inUse > 1
  /\ FetcherTo(f, "refused")
  /\ UNCHANGED <<learned, streamsMax, counters, title, notified>>

-----------------------------------------------------------------------------
\* refused: first refusal of the slot on trial, second one at that count, or
\* a refusal outside any trial.
RefusedTrial ==
  /\ trial # None /\ suspect # Some(cap)
  /\ suspect' = Some(cap)
  /\ cap' = AtLeastOne(cap - 1)
  /\ hold' = Some(0)
  /\ UNCHANGED <<served, refusedAt, lastRefusal>>

\* The limit shown by a second refusal at `count`: an older one may be lower.
LimitAt(count) ==
  CHOOSE n \in SlotCounts :
    /\ refusedAt = None => n = count
    /\ \A limit \in refusedAt : n = Lowest(limit.n, count)

RefusedAgainKeepsServed ==
  /\ suspect = Some(cap)
  /\ \E n \in SlotCounts :
         /\ n = LimitAt(cap)
         /\ suspect' = None
         /\ refusedAt' = Some([n |-> n, fresh |-> TRUE])
         /\ cap' = CapBelowRefusal(n)
  /\ UNCHANGED <<served, lastRefusal, hold>>

RefusedAgain ==
  /\ suspect = Some(cap)
  /\ \E n \in SlotCounts :
         /\ n = LimitAt(cap)
         /\ suspect' = None
         /\ refusedAt' = Some([n |-> n, fresh |-> TRUE])
         /\ served' = Lowest(served, n - 1)
         /\ cap' = CapBelowRefusal(n)
  /\ UNCHANGED <<lastRefusal, hold>>

RefusedOutside ==
  /\ trial = None /\ suspect # Some(cap)
  /\ IF lastRefusal = Some("recent") /\ cap > 1
       THEN /\ cap' = cap - 1
            /\ lastRefusal' = None
            /\ hold' = Some(0)
       ELSE /\ lastRefusal' = Some("recent")
            /\ UNCHANGED <<cap, hold>>
  /\ UNCHANGED <<served, refusedAt, suspect>>

RefusedKeepsTrial(f) ==
  /\ fetcher[f] = "refused"
  /\ RefusedTrial \/ RefusedAgain \/ RefusedOutside
  /\ trial' = IF suspect = Some(cap) THEN trial ELSE None
  /\ FetcherTo(f, "holding")
  /\ UNCHANGED <<probed, streamsMax, counters, title, notified>>

Refused(f) ==
  /\ fetcher[f] = "refused"
  /\ RefusedTrial \/ RefusedAgain \/ RefusedOutside
  /\ trial' = None
  /\ FetcherTo(f, "holding")
  /\ UNCHANGED <<probed, streamsMax, counters, title, notified>>

-----------------------------------------------------------------------------
\* probe: the first one only starts measuring.
ProbeFirst(t) ==
  /\ title[t] = "leased"
  /\ ~probed
  /\ probed' = TRUE
  /\ UNCHANGED <<cap, served, refusedAt, suspect, lastRefusal, hold, trial,
                 streamsMax, counters, fetcher, title, notified>>

\* Whether `rate` shows that the slot on trial brought enough.
Gained(rate) == \A before \in trial :
  rate >= before + (before \div AtLeastOne(cap - 1)) \div 2

\* The slot on trial brought nothing: it is given back.
ProbeNoGain(t, rate) ==
  /\ title[t] = "leased"
  /\ probed /\ ~Gained(rate)
  /\ cap' = AtLeastOne(cap - 1)
  /\ trial' = None
  /\ hold' = {IF before >= rate THEN before ELSE rate : before \in trial}
  /\ UNCHANGED <<served, refusedAt, suspect, lastRefusal, probed,
                 streamsMax, counters, fetcher, title, notified>>

\* No trial, or one that paid off: keep the slot, then maybe try another.
Held(rate) == \E start \in hold : rate * 10 >= start * 6
GrowsFrom(ceiling, rate) ==
  cap < ceiling /\ inUse >= cap /\ waiting > 0 /\ rate > 0

Grow(t, rate) == cap' = cap + 1 /\ trial' = Some(rate) /\ TitleTo(t, "probed")

ProbeSettled(t, rate) ==
  /\ title[t] = "leased"
  /\ probed /\ Gained(rate)
  /\ IF trial # None
       THEN /\ served' = IF served >= cap THEN served ELSE cap
            /\ suspect' = {n \in suspect : n > cap}
       ELSE UNCHANGED <<served, suspect>>
  /\ IF Held(rate)
       THEN trial' = None /\ UNCHANGED <<cap, refusedAt, hold, title>>
       ELSE /\ hold' = None
            /\ refusedAt' = Remembered
            /\ \/ /\ cap > Ceiling
                  /\ cap' = Ceiling
                  /\ trial' = None
                  /\ UNCHANGED title
               \/ /\ GrowsFrom(Ceiling, rate)
                  /\ Grow(t, rate)
               \/ /\ cap <= Ceiling /\ ~GrowsFrom(Ceiling, rate)
                  /\ trial' = None
                  /\ UNCHANGED <<cap, title>>
  /\ UNCHANGED <<lastRefusal, probed, streamsMax, counters, fetcher, notified>>

ProbeNotify(t) ==
  /\ title[t] = "probed"
  /\ NotifyWaiters
  /\ TitleTo(t, "leased")
  /\ UNCHANGED <<learned, streamsMax, counters, fetcher>>

\* can_split asks the same ceiling, which may forget the limit.
CanSplit(t) ==
  /\ title[t] = "leased"
  /\ refusedAt # None
  /\ refusedAt' = Remembered
  /\ UNCHANGED <<cap, served, suspect, lastRefusal, hold, trial, probed,
                 streamsMax, counters, fetcher, title, notified>>

-----------------------------------------------------------------------------
\* Time passes: a hold ends, a refusal or a limit gets old.
HoldEnds ==
  /\ hold # None
  /\ hold' = None
  /\ UNCHANGED <<cap, served, refusedAt, suspect, lastRefusal, trial, probed,
                 streamsMax, counters, fetcher, title, notified>>

RefusalAges ==
  /\ lastRefusal = Some("recent")
  /\ lastRefusal' = Some("old")
  /\ UNCHANGED <<cap, served, refusedAt, suspect, hold, trial, probed,
                 streamsMax, counters, fetcher, title, notified>>

LimitAges ==
  /\ refusedAt # None
  /\ refusedAt' = {[limit EXCEPT !.fresh = FALSE] : limit \in refusedAt}
  /\ UNCHANGED <<cap, served, suspect, lastRefusal, hold, trial, probed,
                 streamsMax, counters, fetcher, title, notified>>

TitleStep(t) ==
  \/ Shared(t) \/ SharedNotify(t) \/ TryLease(t) \/ LeaseBusy(t)
  \/ LeaseEnable(t) \/ Lease(t) \/ LeaseQueue(t) \/ LeaseWait(t) \/ LeaseWake(t)
  \/ DropLease(t) \/ LeaseNotify(t) \/ CancelLease(t)

FetcherStep(f) ==
  \/ Want(f) \/ Enable(f) \/ Acquire(f) \/ Queue(f) \/ Wait(f) \/ Wake(f)
  \/ CancelAcquire(f) \/ DropSlot(f) \/ SlotNotify(f)
  \/ RefusalSeen(f) \/ Refused(f)

ProbeStep(t) ==
  \/ ProbeFirst(t) \/ ProbeNotify(t) \/ CanSplit(t)
  \/ \E rate \in Rates : ProbeNoGain(t, rate) \/ ProbeSettled(t, rate)

Next ==
  \/ \E t \in Titles : TitleStep(t) \/ ProbeStep(t)
  \/ \E f \in Fetchers : FetcherStep(f)
  \/ HoldEnds \/ RefusalAges \/ LimitAges

Spec == Init /\ [][Next]_vars

-----------------------------------------------------------------------------
FetcherStates == {"idle", "asking", "enabled", "queued", "waiting", "holding", "refused", "dropped"}
TitleStates == {"idle", "joining", "trying", "asking", "enabled", "queued", "waiting",
                "leased", "probed", "dropped"}

\* Every variable keeps its type; an account never runs out of slots.
TypeOK ==
  /\ cap \in SlotCounts
  /\ served \in 0 .. Max
  /\ refusedAt \in Option([n : SlotCounts, fresh : BOOLEAN])
  /\ suspect \in Option(SlotCounts)
  /\ lastRefusal \in Option({"recent", "old"})
  /\ hold \in Option(Rates)
  /\ trial \in Option(Rates)
  /\ probed \in BOOLEAN
  /\ streamsMax \in Streams
  /\ inUse \in Nat /\ waiting \in Nat /\ streams \in Nat
  /\ fetcher \in [Fetchers -> FetcherStates]
  /\ title \in [Titles -> TitleStates]
  /\ notified \subseteq Clients

Holders == {f \in Fetchers : fetcher[f] \in {"holding", "refused"}}
Waiters == {f \in Fetchers : fetcher[f] \in {"queued", "waiting"}}
Lessees == {t \in Titles : title[t] \in {"leased", "probed"}}

\* Through every race, abort and cancellation the counters are the slots, the
\* waiters and the leases there really are: a leaked one would shrink the
\* account for as long as the application runs (Slot, Lease, Waiting: Drop).
CountsExact ==
  /\ inUse = Cardinality(Holders)
  /\ waiting = Cardinality(Waiters)
  /\ streams = Cardinality(Lessees)

\* Both: the invariant of the counters.
CountsSound == TypeOK /\ CountsExact

Notifying == \/ \E f \in Fetchers : fetcher[f] = "dropped"
             \/ \E t \in Titles : title[t] \in {"joining", "probed", "dropped"}
Sleeping(f) == fetcher[f] = "waiting" /\ f \notin notified
SleepingTitle(t) == title[t] = "waiting" /\ t \notin notified

\* No wakeup is lost: while a fetcher sleeps all slots are taken, and while a
\* title sleeps all streams are, or the notification is on its way
\* (acquire and lease register before they look; Drop notifies afterwards).
NoLostWakeup ==
  Notifying \/ /\ (\E f \in Fetchers : Sleeping(f)) => inUse >= cap
               /\ (\E t \in Titles : SleepingTitle(t)) => streams >= streamsMax

\* Once the panel's limit is found no trial, refusal or reset takes the
\* account back over it, one connection stays free for playback, and no count
\* from the limit on passes for one that was served (refused, ceiling).
LimitRespected ==
  \A limit \in refusedAt : cap <= CapBelowRefusal(limit.n) /\ served < limit.n

\* A slot on trial is judged against the count it was added to: whatever else
\* moves the count under it ends the trial (refused takes it first).
TrialJudged == trial # None /\ cap' # cap => trial' = None \/ served' >= cap
TrialJudgedAtItsCount == [][TrialJudged]_vars

-----------------------------------------------------------------------------
(***************************************************************************)
(* Proofs, for any number of fetchers and titles, any number of slots and  *)
(* any streams the panel may announce: the counters are exact, no wakeup   *)
(* is lost, the panel's limit is respected and a trial is judged at its    *)
(* count.                                                                  *)
(*                                                                         *)
(* The inductive invariant is the conjunction of four parts that hardly    *)
(* need each other: where everyone is (PlacesOK), what was learned of the  *)
(* panel (LearnedInv), the counters (CountsExact) and the wakeups          *)
(* (WakeupsOwed).                                                          *)
(***************************************************************************)

PlacesOK ==
  /\ streamsMax \in Streams
  /\ fetcher \in [Fetchers -> FetcherStates]
  /\ title \in [Titles -> TitleStates]
  /\ notified \subseteq Clients

LearnedTypes ==
  /\ cap \in SlotCounts
  /\ served \in 0 .. Max
  /\ refusedAt \in Option([n : SlotCounts, fresh : BOOLEAN])
  /\ suspect \in Option(SlotCounts)
  /\ lastRefusal \in Option({"recent", "old"})
  /\ hold \in Option(Rates)
  /\ trial \in Option(Rates)
  /\ probed \in BOOLEAN

\* A slot is on trial only beside another one, so that a count a refusal was seen at
\* is never one: without it a limit of one would be possible, and cap and served
\* would reach it.
TrialsBesideAnother ==
  /\ trial # None => cap >= 2
  /\ \A n \in suspect : n >= 2
  /\ \A limit \in refusedAt : limit.n >= 2

LearnedInv == LearnedTypes /\ TrialsBesideAnother /\ LimitRespected

\* Who registered, found nothing free and was not woken since: it sleeps or will.
Asleep(f) == fetcher[f] \in {"queued", "waiting"} /\ f \notin notified
AsleepTitle(t) == title[t] \in {"queued", "waiting"} /\ t \notin notified

\* NoLostWakeup, from the moment the counters were looked at.
WakeupsOwed ==
  Notifying \/ /\ (\E f \in Fetchers : Asleep(f)) => inUse >= cap
               /\ (\E t \in Titles : AsleepTitle(t)) => streams >= streamsMax

AccountInv == PlacesOK /\ LearnedInv /\ CountsExact /\ WakeupsOwed

-----------------------------------------------------------------------------
\* The counts a refusal leaves are counts, below the refused one.
LEMMA BelowRefusal ==
  ASSUME NEW n \in SlotCounts
  PROVE  /\ CapBelowRefusal(n) \in SlotCounts
         /\ n >= 2 => CapBelowRefusal(n) < n
BY ConstantsAssumption DEF SlotCounts, CapBelowRefusal, AtLeastOne, Less

LEMMA OptionFacts ==
  ASSUME NEW S
  PROVE  /\ None \in Option(S)
         /\ \A x \in S : Some(x) \in Option(S)
BY DEF Option

LEMMA RememberedType ==
  ASSUME LearnedTypes
  PROVE  Remembered \in Option([n : SlotCounts, fresh : BOOLEAN])
<1>1. Remembered = refusedAt \/ Remembered = {}
  BY DEF LearnedTypes, Option, Some, None, Remembered
<1> QED BY <1>1, OptionFacts DEF LearnedTypes, None

\* The ceiling is a count, and is under what a remembered limit leaves.
LEMMA CeilingBounds ==
  ASSUME LearnedTypes
  PROVE  /\ Ceiling \in SlotCounts
         /\ \A limit \in Remembered : Ceiling <= CapBelowRefusal(limit.n)
<1> DEFINE IsCeiling(c) == /\ Remembered = None => c = Max
                           /\ \A limit \in Remembered : c = Lowest(CapBelowRefusal(limit.n), Max)
<1>1. Max \in SlotCounts BY ConstantsAssumption DEF SlotCounts
<1>2. \E c \in SlotCounts : IsCeiling(c)
  <2>1. CASE Remembered = None
    BY <1>1, <2>1 DEF None
  <2>2. ASSUME NEW limit \in Remembered PROVE \E c \in SlotCounts : IsCeiling(c)
    <3>1. refusedAt = Some(limit) /\ limit \in [n : SlotCounts, fresh : BOOLEAN]
      BY <2>2 DEF LearnedTypes, Option, Remembered, Some, None
    <3>2. Remembered = {limit} BY <2>2, <3>1 DEF Remembered, Some
    <3>3. limit.n \in SlotCounts BY <3>1
    <3>4. CapBelowRefusal(limit.n) \in SlotCounts BY <3>3, BelowRefusal
    <3>5. Lowest(CapBelowRefusal(limit.n), Max) \in SlotCounts
      BY <1>1, <3>4 DEF Lowest
    <3> QED BY <3>2, <3>5 DEF None
  <2> QED BY <2>1, <2>2 DEF None
<1>3. Ceiling \in SlotCounts /\ IsCeiling(Ceiling) BY <1>2 DEF Ceiling
<1>4. ASSUME NEW limit \in Remembered PROVE Ceiling <= CapBelowRefusal(limit.n)
  <2>1. limit.n \in SlotCounts
    BY DEF LearnedTypes, Option, Remembered, Some, None
  <2>2. CapBelowRefusal(limit.n) \in SlotCounts BY <2>1, BelowRefusal
  <2>3. Ceiling = Lowest(CapBelowRefusal(limit.n), Max) BY <1>3
  <2> QED BY <1>1, <2>2, <2>3 DEF Lowest, SlotCounts
<1> QED BY <1>3, <1>4

\* The limit a second refusal shows is at most the count and any older limit.
LEMMA LimitBounds ==
  ASSUME LearnedTypes, TrialsBesideAnother, NEW count \in SlotCounts, count >= 2
  PROVE  LimitAt(count) \in SlotCounts /\ LimitAt(count) >= 2 /\ LimitAt(count) <= count
<1> DEFINE IsLimit(n) == /\ refusedAt = None => n = count
                         /\ \A limit \in refusedAt : n = Lowest(limit.n, count)
<1>1. CASE refusedAt = None
  <2>1. \E n \in SlotCounts : IsLimit(n) BY <1>1 DEF None
  <2>2. IsLimit(LimitAt(count)) BY <2>1 DEF LimitAt
  <2> QED BY <1>1, <2>2 DEF SlotCounts
<1>2. ASSUME NEW limit \in refusedAt 
      PROVE  LimitAt(count) \in SlotCounts /\ LimitAt(count) >= 2 /\ LimitAt(count) <= count
  <2>1. refusedAt = {limit} /\ limit.n \in SlotCounts /\ limit.n >= 2
    BY <1>2 DEF LearnedTypes, TrialsBesideAnother, Option, Some, None
  <2>2. /\ Lowest(limit.n, count) \in SlotCounts
        /\ Lowest(limit.n, count) >= 2 /\ Lowest(limit.n, count) <= count
    BY <2>1 DEF Lowest, SlotCounts
  <2>3. \E n \in SlotCounts : IsLimit(n) BY <2>1, <2>2 DEF None
  <2>4. IsLimit(LimitAt(count)) BY <2>3 DEF LimitAt
  <2> QED BY <2>1, <2>2, <2>4
<1> QED BY <1>1, <1>2 DEF None

-----------------------------------------------------------------------------
LEMMA PlacesInit == Init => PlacesOK
BY DEF Init, PlacesOK, FetcherStates, TitleStates

\* Everyone stays where the program can be.
LEMMA PlacesStep == PlacesOK /\ [Next]_vars => PlacesOK'
<1> SUFFICES ASSUME PlacesOK, [Next]_vars PROVE PlacesOK'
  OBVIOUS
<1> USE DEF PlacesOK, FetcherStates, TitleStates, Clients, TitleTo, FetcherTo
<1>1. ASSUME NEW t \in Titles, TitleStep(t) PROVE PlacesOK'
  BY <1>1 DEF TitleStep, Shared, SharedNotify, TryLease, LeaseBusy, LeaseEnable, Lease,
    LeaseQueue, LeaseWait, LeaseWake, DropLease, LeaseNotify, CancelLease, TakeLease,
    NotifyWaiters, Registered
<1>2. ASSUME NEW t \in Titles, ProbeStep(t) PROVE PlacesOK'
  BY <1>2 DEF ProbeStep, ProbeFirst, ProbeNotify, CanSplit, ProbeNoGain, ProbeSettled,
    Grow, NotifyWaiters, Registered
<1>3. ASSUME NEW f \in Fetchers, FetcherStep(f) PROVE PlacesOK'
  BY <1>3 DEF FetcherStep, Want, Enable, Acquire, Queue, Wait, Wake, CancelAcquire, DropSlot,
    SlotNotify, RefusalSeen, Refused, NotifyWaiters, Registered
<1>4. CASE HoldEnds \/ RefusalAges \/ LimitAges
  BY <1>4 DEF HoldEnds, RefusalAges, LimitAges
<1>5. CASE UNCHANGED vars
  BY <1>5 DEF vars
<1> QED BY <1>1, <1>2, <1>3, <1>4, <1>5 DEF Next

-----------------------------------------------------------------------------
\* Which steps can change what was learned.
LEMMA LearnedKept ==
  /\ \A t \in Titles : TitleStep(t) \/ ProbeNotify(t) => UNCHANGED learned
  /\ \A f \in Fetchers : FetcherStep(f) => Acquire(f) \/ Refused(f) \/ UNCHANGED learned
<1>1. ASSUME NEW t \in Titles, TitleStep(t) \/ ProbeNotify(t) PROVE UNCHANGED learned
  BY <1>1 DEF TitleStep, Shared, SharedNotify, TryLease, LeaseBusy, LeaseEnable, Lease,
    LeaseQueue, LeaseWait, LeaseWake, DropLease, LeaseNotify, CancelLease, TakeLease, ProbeNotify
<1>2. ASSUME NEW f \in Fetchers, FetcherStep(f), ~Acquire(f), ~Refused(f)
      PROVE UNCHANGED learned
  BY <1>2 DEF FetcherStep, Want, Enable, Queue, Wait, Wake, CancelAcquire, DropSlot,
    SlotNotify, RefusalSeen
<1> QED BY <1>1, <1>2

LEMMA LearnedInit == Init => LearnedInv
<1> SUFFICES ASSUME Init PROVE LearnedInv
  OBVIOUS
<1>1. cap \in SlotCounts /\ served \in 0 .. Max
  BY ConstantsAssumption DEF Init, SlotCounts
<1>2. /\ refusedAt = None /\ suspect = None /\ lastRefusal = None
      /\ hold = None /\ trial = None /\ probed \in BOOLEAN
  BY DEF Init
<1>3. LearnedTypes BY <1>1, <1>2, OptionFacts DEF LearnedTypes
<1>4. TrialsBesideAnother /\ LimitRespected
  BY <1>2 DEF TrialsBesideAnother, LimitRespected, None
<1> QED BY <1>3, <1>4 DEF LearnedInv

LEMMA KeptLearned == LearnedInv /\ UNCHANGED learned => LearnedInv'
BY DEF LearnedInv, LearnedTypes, TrialsBesideAnother, LimitRespected, learned

\* The three ways a refusal is taken.
LEMMA RefusedLearned ==
  ASSUME LearnedInv, NEW f \in Fetchers, Refused(f)
  PROVE  LearnedInv'
<1> USE ConstantsAssumption DEF LearnedInv, LearnedTypes, TrialsBesideAnother
<1>0. /\ trial' = None /\ probed' = probed
      /\ RefusedTrial \/ RefusedAgain \/ RefusedOutside
  BY DEF Refused
<1>t. None \in Option(Rates) BY DEF Option
<1>1. CASE RefusedTrial
  <2>1. cap >= 2 /\ cap \in SlotCounts BY <1>1 DEF RefusedTrial
  <2>2. cap' = cap - 1 /\ cap' \in SlotCounts
    BY <1>1, <2>1 DEF RefusedTrial, AtLeastOne, SlotCounts
  <2>3. suspect' = {cap} /\ suspect' \in Option(SlotCounts)
    BY <1>1, <2>1 DEF RefusedTrial, Option, Some
  <2>4. hold' \in Option(Rates)
    BY <1>1 DEF RefusedTrial, Option, Some, Rates
  <2>5. UNCHANGED <<served, refusedAt, lastRefusal>> BY <1>1 DEF RefusedTrial
  <2>6. LearnedTypes' BY <1>0, <1>t, <2>2, <2>3, <2>4, <2>5
  <2>7. TrialsBesideAnother' BY <1>0, <2>1, <2>3, <2>5 DEF SlotCounts
  <2>8. ASSUME NEW limit \in refusedAt PROVE cap' <= CapBelowRefusal(limit.n) /\ served' < limit.n
    <3>1. limit.n \in SlotCounts BY DEF Option, Some, None
    <3>2. CapBelowRefusal(limit.n) \in SlotCounts BY <3>1, BelowRefusal
    <3> QED BY <2>1, <2>2, <2>5, <3>2 DEF LimitRespected, SlotCounts
  <2> QED BY <2>5, <2>6, <2>7, <2>8 DEF LimitRespected
<1>2. CASE RefusedAgain
  <2>1. cap \in SlotCounts /\ cap >= 2 BY <1>2 DEF RefusedAgain, Some
  <2>2. PICK n \in SlotCounts :
          /\ n = LimitAt(cap)
          /\ suspect' = None
          /\ refusedAt' = Some([n |-> n, fresh |-> TRUE])
          /\ served' = Lowest(served, n - 1)
          /\ cap' = CapBelowRefusal(n)
    BY <1>2 DEF RefusedAgain
  <2>3. n >= 2 BY <2>1, <2>2, LimitBounds
  <2>4. CapBelowRefusal(n) \in SlotCounts BY BelowRefusal
  <2>5. served' \in 0 .. Max /\ served' < n
    BY <2>2, <2>3 DEF Lowest, SlotCounts
  <2>6. refusedAt' = {[n |-> n, fresh |-> TRUE]} /\ suspect' = {}
    BY <2>2 DEF Some, None
  <2>7. UNCHANGED <<lastRefusal, hold>> BY <1>2 DEF RefusedAgain
  <2>8. /\ refusedAt' \in Option([n : SlotCounts, fresh : BOOLEAN])
        /\ suspect' \in Option(SlotCounts)
    BY <2>6 DEF Option, Some, None
  <2>9. LearnedTypes' BY <1>0, <1>t, <2>2, <2>4, <2>5, <2>7, <2>8
  <2>10. TrialsBesideAnother' BY <1>0, <2>3, <2>6
  <2>11. LimitRespected'
    <3>1. \A limit \in refusedAt' : limit.n = n BY <2>6
    <3>2. cap' <= CapBelowRefusal(n) BY <2>2, <2>4 DEF SlotCounts
    <3> QED BY <2>5, <3>1, <3>2 DEF LimitRespected
  <2> QED BY <2>9, <2>10, <2>11
<1>3. CASE RefusedOutside
  <2>1. UNCHANGED <<served, refusedAt, suspect>> BY <1>3 DEF RefusedOutside
  <2>2. cap' \in SlotCounts /\ cap' <= cap
    BY <1>3 DEF RefusedOutside, SlotCounts
  <2>3. lastRefusal' \in Option({"recent", "old"}) /\ hold' \in Option(Rates)
    BY <1>3 DEF RefusedOutside, Option, Some, Rates
  <2>4. LearnedTypes' BY <1>0, <1>t, <2>1, <2>2, <2>3
  <2>5. TrialsBesideAnother' BY <1>0, <2>1
  <2>6. ASSUME NEW limit \in refusedAt PROVE cap' <= CapBelowRefusal(limit.n) /\ served' < limit.n
    <3>1. limit.n \in SlotCounts BY DEF Option, Some, None
    <3>2. CapBelowRefusal(limit.n) \in SlotCounts BY <3>1, BelowRefusal
    <3> QED BY <2>1, <2>2, <3>2 DEF LimitRespected, SlotCounts
  <2> QED BY <2>1, <2>4, <2>5, <2>6 DEF LimitRespected
<1> QED BY <1>0, <1>1, <1>2, <1>3

\* What a probe, the idle reset and the passing of time do to it.
LEMMA ProbeLearned ==
  ASSUME LearnedInv, PlacesOK, NEW t \in Titles, ProbeStep(t)
  PROVE  LearnedInv'
<1> USE DEF LearnedInv
<1>n. None \in Option(Rates) /\ None \in Option(SlotCounts) BY OptionFacts
<1>k. ASSUME UNCHANGED <<served, refusedAt>>, cap' \in SlotCounts, cap' <= cap
      PROVE  LimitRespected'
  <2> SUFFICES ASSUME NEW limit \in refusedAt
               PROVE  cap' <= CapBelowRefusal(limit.n) /\ served < limit.n
    BY <1>k DEF LimitRespected
  <2>1. limit.n \in SlotCounts BY DEF LearnedTypes, Option, Some, None
  <2>2. CapBelowRefusal(limit.n) \in SlotCounts BY <2>1, BelowRefusal
  <2> QED BY <1>k, <2>2 DEF LimitRespected, LearnedTypes, SlotCounts
<1>1. CASE ProbeFirst(t)
  BY <1>1 DEF ProbeFirst, LearnedTypes, TrialsBesideAnother, LimitRespected
<1>2. CASE ProbeNotify(t)
  BY <1>2, LearnedKept, KeptLearned
<1>3. CASE CanSplit(t)
  <2>1. /\ refusedAt' = Remembered
        /\ UNCHANGED <<cap, served, suspect, lastRefusal, hold, trial, probed>>
    BY <1>3 DEF CanSplit
  <2>2. Remembered \subseteq refusedAt BY DEF Remembered
  <2>3. Remembered \in Option([n : SlotCounts, fresh : BOOLEAN]) BY RememberedType
  <2> QED BY <2>1, <2>2, <2>3 DEF LearnedTypes, TrialsBesideAnother, LimitRespected
<1>4. ASSUME NEW rate \in Rates, ProbeNoGain(t, rate) PROVE LearnedInv'
  <2>1. /\ cap' = AtLeastOne(cap - 1) /\ trial' = None
        /\ hold' = {IF before >= rate THEN before ELSE rate : before \in trial}
        /\ UNCHANGED <<served, refusedAt, suspect, lastRefusal, probed>>
    BY <1>4 DEF ProbeNoGain
  <2>2. cap' \in SlotCounts /\ cap' <= cap
    BY <2>1, ConstantsAssumption DEF LearnedTypes, AtLeastOne, SlotCounts
  <2>3. hold' \in Option(Rates)
    <3>1. CASE trial = None BY <2>1, <3>1, <1>n DEF None
    <3>2. ASSUME NEW before \in Rates, trial = Some(before) PROVE hold' \in Option(Rates)
      <4>1. hold' = Some(IF before >= rate THEN before ELSE rate)
        BY <2>1, <3>2 DEF Some
      <4> QED BY <4>1, OptionFacts
    <3> QED BY <3>1, <3>2 DEF LearnedTypes, Option
  <2>4. LearnedTypes' BY <1>n, <2>1, <2>2, <2>3 DEF LearnedTypes
  <2>5. TrialsBesideAnother' BY <2>1 DEF TrialsBesideAnother
  <2> QED BY <1>k, <2>1, <2>2, <2>4, <2>5
<1>5. ASSUME NEW rate \in Rates, ProbeSettled(t, rate) PROVE LearnedInv'
  <2>1. served' \in 0 .. Max /\ suspect' \in Option(SlotCounts) /\ suspect' \subseteq suspect
    <3>1. CASE trial # None
      <4>1. served' = IF served >= cap THEN served ELSE cap
        BY <1>5, <3>1 DEF ProbeSettled
      <4>2. suspect' = {n \in suspect : n > cap}
        BY <1>5, <3>1 DEF ProbeSettled
      <4>3. suspect' \in Option(SlotCounts)
        <5>1. suspect' = suspect \/ suspect' = {}
          BY <4>2 DEF LearnedTypes, Option, Some, None
        <5> QED BY <5>1, <1>n DEF LearnedTypes, None
      <4> QED BY <4>1, <4>2, <4>3 DEF LearnedTypes, SlotCounts
    <3>2. CASE trial = None
      BY <1>5, <3>2 DEF ProbeSettled, LearnedTypes
    <3> QED BY <3>1, <3>2
  <2>2. UNCHANGED <<lastRefusal, probed>> BY <1>5 DEF ProbeSettled
  <2>3. \A limit \in refusedAt : limit.n \in SlotCounts /\ served' < limit.n
    <3> SUFFICES ASSUME NEW limit \in refusedAt PROVE limit.n \in SlotCounts /\ served' < limit.n
      OBVIOUS
    <3>1. limit.n \in SlotCounts /\ limit.n >= 2
      BY DEF LearnedTypes, TrialsBesideAnother, Option, Some, None
    <3>2. CapBelowRefusal(limit.n) \in SlotCounts /\ CapBelowRefusal(limit.n) < limit.n
      BY <3>1, BelowRefusal
    <3>3. cap <= CapBelowRefusal(limit.n) /\ served < limit.n BY DEF LimitRespected
    <3>4. served' \in {served, cap} BY <1>5 DEF ProbeSettled
    <3> QED BY <3>1, <3>2, <3>3, <3>4 DEF SlotCounts, LearnedTypes
  <2>4. CASE Held(rate)
    <3>1. trial' = None /\ UNCHANGED <<cap, refusedAt, hold>> BY <1>5, <2>4 DEF ProbeSettled
    <3>2. LearnedTypes' BY <1>n, <2>1, <2>2, <3>1 DEF LearnedTypes
    <3>3. TrialsBesideAnother' BY <2>1, <3>1 DEF TrialsBesideAnother
    <3>4. LimitRespected' BY <2>3, <3>1 DEF LimitRespected
    <3> QED BY <3>2, <3>3, <3>4
  <2>5. CASE ~Held(rate)
    <3>1. hold' = None /\ refusedAt' = Remembered BY <1>5, <2>5 DEF ProbeSettled
    <3>2. Remembered \subseteq refusedAt BY DEF Remembered
    <3>3. Remembered \in Option([n : SlotCounts, fresh : BOOLEAN]) BY RememberedType
    <3>4. Ceiling \in SlotCounts /\ \A limit \in Remembered : Ceiling <= CapBelowRefusal(limit.n)
      BY CeilingBounds
    <3>5. \/ cap' = Ceiling /\ trial' = None
          \/ cap < Ceiling /\ cap' = cap + 1 /\ trial' = Some(rate)
          \/ cap' = cap /\ trial' = None
      BY <1>5, <2>5 DEF ProbeSettled, GrowsFrom, Grow
    <3>6. /\ cap' \in SlotCounts /\ trial' \in Option(Rates)
          /\ trial' # None => cap' >= 2
          /\ cap' <= Ceiling \/ cap' = cap
      BY ConstantsAssumption, <1>n, <3>4, <3>5, OptionFacts DEF LearnedTypes, SlotCounts
    <3>7. LearnedTypes' BY <1>n, <2>1, <2>2, <3>1, <3>3, <3>6 DEF LearnedTypes
    <3>8. TrialsBesideAnother' BY <2>1, <3>1, <3>2, <3>6 DEF TrialsBesideAnother
    <3>9. ASSUME NEW limit \in Remembered PROVE cap' <= CapBelowRefusal(limit.n) /\ served' < limit.n
      <4>1. limit.n \in SlotCounts /\ served' < limit.n BY <2>3, <3>2
      <4>2. CapBelowRefusal(limit.n) \in SlotCounts BY <4>1, BelowRefusal
      <4>3. cap <= CapBelowRefusal(limit.n) BY <3>2 DEF LimitRespected
      <4> QED BY <3>4, <3>6, <4>1, <4>2, <4>3 DEF SlotCounts
    <3> QED BY <3>1, <3>7, <3>8, <3>9 DEF LimitRespected
  <2> QED BY <2>4, <2>5
<1> QED BY <1>1, <1>2, <1>3, <1>4, <1>5 DEF ProbeStep

LEMMA LearnedStep == LearnedInv /\ PlacesOK /\ [Next]_vars => LearnedInv'
<1> SUFFICES ASSUME LearnedInv, PlacesOK, [Next]_vars PROVE LearnedInv'
  OBVIOUS
<1>1. ASSUME NEW t \in Titles, TitleStep(t) PROVE LearnedInv'
  BY <1>1, LearnedKept, KeptLearned
<1>2. ASSUME NEW t \in Titles, ProbeStep(t) PROVE LearnedInv'
  BY <1>2, ProbeLearned
<1>3. ASSUME NEW f \in Fetchers, FetcherStep(f) PROVE LearnedInv'
  <2>1. CASE Acquire(f)
    <3>1. /\ UNCHANGED <<cap, served, refusedAt, suspect, lastRefusal, hold>>
          /\ trial' = None \/ trial' = trial
          /\ probed' = FALSE \/ probed' = probed
      BY <2>1 DEF Acquire
    <3> QED BY <3>1, OptionFacts
      DEF LearnedInv, LearnedTypes, TrialsBesideAnother, LimitRespected
  <2>2. CASE Refused(f) BY <2>2, RefusedLearned
  <2>3. CASE UNCHANGED learned BY <2>3, KeptLearned
  <2> QED BY <1>3, <2>1, <2>2, <2>3, LearnedKept
<1>4. CASE HoldEnds
  BY <1>4, OptionFacts DEF HoldEnds, LearnedInv, LearnedTypes, TrialsBesideAnother, LimitRespected
<1>5. CASE RefusalAges
  BY <1>5, OptionFacts DEF RefusalAges, LearnedInv, LearnedTypes, TrialsBesideAnother, LimitRespected
<1>6. CASE LimitAges
  <2>1. /\ refusedAt' = {[limit EXCEPT !.fresh = FALSE] : limit \in refusedAt}
        /\ UNCHANGED <<cap, served, suspect, lastRefusal, hold, trial, probed>>
        /\ refusedAt # None
    BY <1>6 DEF LimitAges
  <2>2. PICK limit \in [n : SlotCounts, fresh : BOOLEAN] : refusedAt = Some(limit)
    BY <2>1 DEF LearnedInv, LearnedTypes, Option
  <2>3. refusedAt' = Some([limit EXCEPT !.fresh = FALSE])
    BY <2>1, <2>2 DEF Some
  <2>4. /\ [limit EXCEPT !.fresh = FALSE] \in [n : SlotCounts, fresh : BOOLEAN]
        /\ [limit EXCEPT !.fresh = FALSE].n = limit.n
    BY <2>2
  <2>5. refusedAt' \in Option([n : SlotCounts, fresh : BOOLEAN])
    BY <2>3, <2>4, OptionFacts
  <2>6. \A l \in refusedAt' : l.n = limit.n BY <2>3, <2>4 DEF Some
  <2>7. limit \in refusedAt BY <2>2 DEF Some
  <2>8. LearnedTypes' BY <2>1, <2>5 DEF LearnedInv, LearnedTypes
  <2>9. TrialsBesideAnother' BY <2>1, <2>6, <2>7 DEF LearnedInv, TrialsBesideAnother
  <2>10. LimitRespected' BY <2>1, <2>6, <2>7 DEF LearnedInv, LimitRespected
  <2> QED BY <2>8, <2>9, <2>10 DEF LearnedInv
<1>7. CASE UNCHANGED vars
  BY <1>7, KeptLearned DEF vars
<1> QED BY <1>1, <1>2, <1>3, <1>4, <1>5, <1>6, <1>7 DEF Next

-----------------------------------------------------------------------------
\* One more or one less of a set that is counted, with the saturating decrement.
LEMMA OneMore ==
  ASSUME NEW U, IsFiniteSet(U), NEW S \in SUBSET U, NEW x \in U, x \notin S, NEW n, n = Cardinality(S)
  PROVE  n \in Nat /\ n + 1 = Cardinality(S \cup {x})
<1>1. IsFiniteSet(S) BY FS_Subset
<1> QED BY <1>1, FS_CardinalityType, FS_AddElement

LEMMA OneLess ==
  ASSUME NEW U, IsFiniteSet(U), NEW S \in SUBSET U, NEW x \in S, NEW n, n = Cardinality(S)
  PROVE  Less(n) = Cardinality(S \ {x})
<1>1. IsFiniteSet(S) BY FS_Subset
<1>2. n \in Nat /\ n # 0 BY <1>1, FS_CardinalityType, FS_EmptySet
<1>3. Cardinality(S \ {x}) = n - 1 BY <1>1, FS_RemoveElement
<1> QED BY <1>2, <1>3 DEF Less

LEMMA CountsInit == Init => CountsExact
<1> SUFFICES ASSUME Init PROVE CountsExact
  OBVIOUS
<1>1. Holders = {} /\ Waiters = {} /\ Lessees = {}
  BY DEF Init, Holders, Waiters, Lessees
<1> QED BY <1>1, FS_EmptySet DEF Init, CountsExact

\* A lease is counted when it is taken, and no longer when it is dropped.
LEMMA TitleCounts ==
  ASSUME PlacesOK, CountsExact, NEW t \in Titles, TitleStep(t) \/ ProbeStep(t)
  PROVE  CountsExact'
<1> USE ConstantsAssumption DEF PlacesOK, CountsExact
<1>0. fetcher' = fetcher /\ inUse' = inUse /\ waiting' = waiting
  BY DEF TitleStep, ProbeStep, Shared, SharedNotify, TryLease, LeaseBusy, LeaseEnable, Lease,
    LeaseQueue, LeaseWait, LeaseWake, DropLease, LeaseNotify, CancelLease, TakeLease, counters,
    ProbeFirst, ProbeNotify, CanSplit, ProbeNoGain, ProbeSettled
<1>1. Holders' = Holders /\ Waiters' = Waiters BY <1>0 DEF Holders, Waiters
<1>2. SUFFICES streams' = Cardinality(Lessees') BY <1>0, <1>1
<1>3. CASE TryLease(t) \/ Lease(t)
  <2>1. streams' = streams + 1 /\ title' = [title EXCEPT ![t] = "leased"]
    BY <1>3 DEF TryLease, Lease, TakeLease, TitleTo
  <2>2. title[t] \in {"trying", "enabled"} BY <1>3 DEF TryLease, Lease
  <2>3. Lessees' = Lessees \cup {t} /\ t \notin Lessees /\ Lessees \subseteq Titles
    BY <2>1, <2>2 DEF Lessees
  <2> QED BY <2>1, <2>3, OneMore
<1>4. CASE DropLease(t)
  <2>1. streams' = Less(streams) /\ title[t] = "leased" /\ title' = [title EXCEPT ![t] = "dropped"]
    BY <1>4 DEF DropLease, TitleTo
  <2>2. Lessees' = Lessees \ {t} /\ t \in Lessees /\ Lessees \subseteq Titles
    BY <2>1 DEF Lessees
  <2> QED BY <2>1, <2>2, OneLess
<1>5. CASE ~(TryLease(t) \/ Lease(t) \/ DropLease(t))
  <2>1. streams' = streams
    BY <1>5 DEF TitleStep, ProbeStep, Shared, SharedNotify, LeaseBusy, LeaseEnable,
      LeaseQueue, LeaseWait, LeaseWake, LeaseNotify, CancelLease, counters,
      ProbeFirst, ProbeNotify, CanSplit, ProbeNoGain, ProbeSettled
  <2>2. /\ \A s \in Titles \ {t} : title'[s] = title[s]
        /\ title'[t] \in {"leased", "probed"} <=> title[t] \in {"leased", "probed"}
    BY <1>5 DEF TitleStep, ProbeStep, Shared, SharedNotify, LeaseBusy, LeaseEnable,
      LeaseQueue, LeaseWait, LeaseWake, LeaseNotify, CancelLease, TitleTo, TitleStates,
      ProbeFirst, ProbeNotify, CanSplit, ProbeNoGain, ProbeSettled, Grow
  <2>3. Lessees' = Lessees BY <2>2 DEF Lessees
  <2> QED BY <2>1, <2>3
<1> QED BY <1>3, <1>4, <1>5

\* So is a slot, and a wait for one, which an abort ends as a wakeup does.
LEMMA FetcherCounts ==
  ASSUME PlacesOK, CountsExact, NEW f \in Fetchers, FetcherStep(f)
  PROVE  CountsExact'
<1> USE ConstantsAssumption DEF PlacesOK, CountsExact
<1>0. title' = title /\ streams' = streams
  BY DEF FetcherStep, Want, Enable, Acquire, Queue, Wait, Wake, CancelAcquire, DropSlot,
    SlotNotify, RefusalSeen, Refused, counters
<1>1. Lessees' = Lessees BY <1>0 DEF Lessees
<1>s. Holders \subseteq Fetchers /\ Waiters \subseteq Fetchers BY DEF Holders, Waiters
<1>2. CASE Acquire(f)
  <2>1. /\ inUse' = inUse + 1 /\ waiting' = waiting /\ fetcher[f] = "enabled"
        /\ fetcher' = [fetcher EXCEPT ![f] = "holding"]
    BY <1>2 DEF Acquire, FetcherTo
  <2>2. Holders' = Holders \cup {f} /\ f \notin Holders /\ Waiters' = Waiters
    BY <2>1 DEF Holders, Waiters
  <2> QED BY <1>0, <1>1, <1>s, <2>1, <2>2, OneMore
<1>3. CASE Queue(f)
  <2>1. /\ waiting' = waiting + 1 /\ inUse' = inUse /\ fetcher[f] = "enabled"
        /\ fetcher' = [fetcher EXCEPT ![f] = "queued"]
    BY <1>3 DEF Queue, FetcherTo
  <2>2. Waiters' = Waiters \cup {f} /\ f \notin Waiters /\ Holders' = Holders
    BY <2>1 DEF Holders, Waiters
  <2> QED BY <1>0, <1>1, <1>s, <2>1, <2>2, OneMore
<1>4. CASE Wake(f) \/ CancelAcquire(f)
  <2>1. /\ waiting' = Less(waiting) /\ inUse' = inUse /\ fetcher[f] = "waiting"
        /\ \E pc \in {"asking", "idle"} : fetcher' = [fetcher EXCEPT ![f] = pc]
    BY <1>4 DEF Wake, CancelAcquire, FetcherTo
  <2>2. Waiters' = Waiters \ {f} /\ f \in Waiters /\ Holders' = Holders
    BY <2>1 DEF Holders, Waiters
  <2> QED BY <1>0, <1>1, <1>s, <2>1, <2>2, OneLess
<1>5. CASE DropSlot(f)
  <2>1. /\ inUse' = Less(inUse) /\ waiting' = waiting /\ fetcher[f] = "holding"
        /\ fetcher' = [fetcher EXCEPT ![f] = "dropped"]
    BY <1>5 DEF DropSlot, FetcherTo
  <2>2. Holders' = Holders \ {f} /\ f \in Holders /\ Waiters' = Waiters
    BY <2>1 DEF Holders, Waiters
  <2> QED BY <1>0, <1>1, <1>s, <2>1, <2>2, OneLess
<1>6. CASE Want(f) \/ Enable(f) \/ Wait(f) \/ SlotNotify(f) \/ RefusalSeen(f) \/ Refused(f)
  <2>1. inUse' = inUse /\ waiting' = waiting
    BY <1>6 DEF Want, Enable, Wait, SlotNotify, RefusalSeen, Refused, counters
  <2>2. \E pc \in FetcherStates :
          /\ fetcher' = [fetcher EXCEPT ![f] = pc]
          /\ pc \in {"holding", "refused"} <=> fetcher[f] \in {"holding", "refused"}
          /\ pc \in {"queued", "waiting"} <=> fetcher[f] \in {"queued", "waiting"}
    BY <1>6 DEF Want, Enable, Wait, SlotNotify, RefusalSeen, Refused, FetcherTo, FetcherStates
  <2>3. Holders' = Holders /\ Waiters' = Waiters BY <2>2 DEF Holders, Waiters
  <2> QED BY <1>0, <1>1, <2>1, <2>3
<1> QED BY <1>2, <1>3, <1>4, <1>5, <1>6 DEF FetcherStep

LEMMA CountsStep == PlacesOK /\ CountsExact /\ [Next]_vars => CountsExact'
<1> SUFFICES ASSUME PlacesOK, CountsExact, [Next]_vars PROVE CountsExact'
  OBVIOUS
<1>1. ASSUME NEW t \in Titles, TitleStep(t) \/ ProbeStep(t) PROVE CountsExact'
  BY <1>1, TitleCounts
<1>2. ASSUME NEW f \in Fetchers, FetcherStep(f) PROVE CountsExact'
  BY <1>2, FetcherCounts
<1>3. CASE HoldEnds \/ RefusalAges \/ LimitAges \/ UNCHANGED vars
  BY <1>3 DEF HoldEnds, RefusalAges, LimitAges, vars, counters,
    CountsExact, Holders, Waiters, Lessees
<1> QED BY <1>1, <1>2, <1>3 DEF Next

-----------------------------------------------------------------------------
LEMMA WakeupsInit == Init => WakeupsOwed
BY DEF Init, WakeupsOwed, Asleep, AsleepTitle

\* After a notification nobody that registered is still owed one.
LEMMA NotifiedAll ==
  ASSUME PlacesOK, NotifyWaiters,
         \A f \in Fetchers : fetcher'[f] \in {"queued", "waiting"} => fetcher[f] = fetcher'[f],
         \A t \in Titles : title'[t] \in {"queued", "waiting"} => title[t] = title'[t]
  PROVE  WakeupsOwed'
BY DEF PlacesOK, NotifyWaiters, Registered, WakeupsOwed, Asleep, AsleepTitle

LEMMA TitleWakeups ==
  ASSUME PlacesOK, LearnedInv, CountsExact, WakeupsOwed, NEW t \in Titles, TitleStep(t) \/ ProbeStep(t)
  PROVE  WakeupsOwed'
<1> USE DEF PlacesOK, TitleTo
<1>n. cap \in Nat /\ inUse \in Nat /\ streams \in Nat /\ streamsMax \in Nat
  <2>1. IsFiniteSet(Holders) /\ IsFiniteSet(Lessees)
    BY ConstantsAssumption, FS_Subset DEF Holders, Lessees
  <2> QED BY <2>1, FS_CardinalityType, ConstantsAssumption
      DEF CountsExact, LearnedInv, LearnedTypes, SlotCounts
<1>1. CASE Shared(t) \/ DropLease(t)
  <2>1. title'[t] \in {"joining", "dropped"} BY <1>1 DEF Shared, DropLease
  <2> QED BY <2>1 DEF WakeupsOwed, Notifying
<1>2. CASE SharedNotify(t) \/ LeaseNotify(t) \/ ProbeNotify(t)
  BY <1>2, NotifiedAll DEF SharedNotify, LeaseNotify, ProbeNotify
<1>3. CASE TryLease(t) \/ Lease(t)
  <2>1. /\ streams' = streams + 1 /\ title' = [title EXCEPT ![t] = "leased"]
        /\ title[t] \in {"trying", "enabled"}
        /\ UNCHANGED <<cap, inUse, streamsMax, fetcher, notified>>
    BY <1>3 DEF TryLease, Lease, TakeLease, learned
  <2> QED BY <1>n, <2>1 DEF WakeupsOwed, Notifying, Asleep, AsleepTitle
<1>4. CASE LeaseQueue(t)
  <2>1. /\ streams >= streamsMax /\ title' = [title EXCEPT ![t] = "queued"]
        /\ title[t] = "enabled"
        /\ UNCHANGED <<cap, inUse, streams, streamsMax, fetcher, notified>>
    BY <1>4 DEF LeaseQueue, learned, counters
  <2> QED BY <1>n, <2>1 DEF WakeupsOwed, Notifying, Asleep, AsleepTitle
<1>5. CASE LeaseWait(t) \/ LeaseWake(t) \/ CancelLease(t) \/ LeaseBusy(t) \/ LeaseEnable(t)
  <2>1. /\ UNCHANGED <<cap, inUse, streams, streamsMax, fetcher>>
        /\ title[t] \notin {"joining", "probed", "dropped"}
        /\ \/ title' = [title EXCEPT ![t] = "waiting"] /\ title[t] = "queued" /\ notified' = notified
           \/ \E pc \in {"asking", "idle", "enabled"} :
                 title' = [title EXCEPT ![t] = pc] /\ notified' \in {notified, notified \ {t}}
    BY <1>5 DEF LeaseWait, LeaseWake, CancelLease, LeaseBusy, LeaseEnable, learned, counters
  <2>2. \A f \in Fetchers : Asleep(f)' => Asleep(f)
    BY <2>1, ConstantsAssumption DEF Asleep
  <2>3. \A s \in Titles : AsleepTitle(s)' => AsleepTitle(s)
    BY <2>1 DEF AsleepTitle
  <2> QED BY <1>n, <2>1, <2>2, <2>3 DEF WakeupsOwed, Notifying
<1>6. CASE ProbeFirst(t) \/ CanSplit(t)
  <2>1. UNCHANGED <<cap, inUse, streams, streamsMax, fetcher, title, notified>>
    BY <1>6 DEF ProbeFirst, CanSplit, counters
  <2> QED BY <2>1 DEF WakeupsOwed, Notifying, Asleep, AsleepTitle
<1>7. ASSUME NEW rate \in Rates, ProbeNoGain(t, rate) \/ ProbeSettled(t, rate)
      PROVE  WakeupsOwed'
  <2>1. UNCHANGED <<inUse, streams, streamsMax, fetcher, notified>> /\ title[t] = "leased"
    BY <1>7 DEF ProbeNoGain, ProbeSettled, counters
  <2>2. CASE title'[t] = "probed"
    BY <2>2 DEF WakeupsOwed, Notifying
  <2>3. CASE title'[t] # "probed"
    <3>1. title' = title
      BY <1>7, <2>3 DEF ProbeNoGain, ProbeSettled, Grow
    <3>2. cap' <= cap /\ cap' \in Nat
      <4>1. CASE ProbeNoGain(t, rate)
        BY <1>n, <4>1 DEF ProbeNoGain, AtLeastOne, LearnedInv, LearnedTypes, SlotCounts
      <4>2. CASE ProbeSettled(t, rate)
        <5>1. cap' = cap \/ (cap > Ceiling /\ cap' = Ceiling)
          BY <2>3, <4>2 DEF ProbeSettled, Grow
        <5> QED BY <1>n, <5>1, CeilingBounds DEF LearnedInv, SlotCounts
      <4> QED BY <1>7, <4>1, <4>2
    <3> QED BY <1>n, <2>1, <3>1, <3>2 DEF WakeupsOwed, Notifying, Asleep, AsleepTitle
  <2> QED BY <2>2, <2>3
<1> QED BY <1>1, <1>2, <1>3, <1>4, <1>5, <1>6, <1>7 DEF TitleStep, ProbeStep

LEMMA FetcherWakeups ==
  ASSUME PlacesOK, LearnedInv, CountsExact, WakeupsOwed, NEW f \in Fetchers, FetcherStep(f)
  PROVE  WakeupsOwed'
<1> USE DEF PlacesOK, FetcherTo
<1>n. cap \in Nat /\ inUse \in Nat /\ streams \in Nat /\ streamsMax \in Nat
  <2>1. IsFiniteSet(Holders) /\ IsFiniteSet(Lessees)
    BY ConstantsAssumption, FS_Subset DEF Holders, Lessees
  <2> QED BY <2>1, FS_CardinalityType, ConstantsAssumption
      DEF CountsExact, LearnedInv, LearnedTypes, SlotCounts
<1>1. CASE DropSlot(f)
  <2>1. fetcher'[f] = "dropped" BY <1>1 DEF DropSlot
  <2> QED BY <2>1 DEF WakeupsOwed, Notifying
<1>2. CASE SlotNotify(f)
  BY <1>2, NotifiedAll DEF SlotNotify
<1>3. CASE Acquire(f)
  <2>1. /\ inUse' = inUse + 1 /\ fetcher' = [fetcher EXCEPT ![f] = "holding"]
        /\ fetcher[f] = "enabled"
        /\ UNCHANGED <<cap, streams, streamsMax, title, notified>>
    BY <1>3 DEF Acquire
  <2> QED BY <1>n, <2>1 DEF WakeupsOwed, Notifying, Asleep, AsleepTitle
<1>4. CASE Queue(f)
  <2>1. /\ inUse >= cap /\ fetcher' = [fetcher EXCEPT ![f] = "queued"]
        /\ fetcher[f] = "enabled"
        /\ UNCHANGED <<cap, inUse, streams, streamsMax, title, notified>>
    BY <1>4 DEF Queue, learned
  <2> QED BY <1>n, <2>1 DEF WakeupsOwed, Notifying, Asleep, AsleepTitle
<1>5. CASE Want(f) \/ Enable(f) \/ Wait(f) \/ Wake(f) \/ CancelAcquire(f) \/ RefusalSeen(f)
  <2>1. /\ UNCHANGED <<cap, inUse, streams, streamsMax, title>>
        /\ fetcher[f] # "dropped"
        /\ \/ fetcher' = [fetcher EXCEPT ![f] = "waiting"] /\ fetcher[f] = "queued" /\ notified' = notified
           \/ \E pc \in {"asking", "idle", "enabled", "refused"} :
                 fetcher' = [fetcher EXCEPT ![f] = pc] /\ notified' \in {notified, notified \ {f}}
    BY <1>5 DEF Want, Enable, Wait, Wake, CancelAcquire, RefusalSeen, learned, counters
  <2>2. \A g \in Fetchers : Asleep(g)' => Asleep(g)
    BY <2>1 DEF Asleep
  <2>3. \A t \in Titles : AsleepTitle(t)' => AsleepTitle(t)
    BY <2>1, ConstantsAssumption DEF AsleepTitle
  <2> QED BY <1>n, <2>1, <2>2, <2>3 DEF WakeupsOwed, Notifying
<1>6. CASE Refused(f)
  <2>1. /\ fetcher' = [fetcher EXCEPT ![f] = "holding"] /\ fetcher[f] = "refused"
        /\ UNCHANGED <<inUse, streams, streamsMax, title, notified>>
    BY <1>6 DEF Refused, counters
  <2>2. cap' <= cap /\ cap' \in Nat
    <3>1. CASE RefusedTrial
      BY <1>n, <3>1 DEF RefusedTrial, AtLeastOne, LearnedInv, LearnedTypes, SlotCounts
    <3>2. CASE RefusedAgain
      <4>1. cap \in SlotCounts /\ cap >= 2
        BY <3>2 DEF RefusedAgain, Some, LearnedInv, LearnedTypes, TrialsBesideAnother
      <4>2. LimitAt(cap) \in SlotCounts /\ LimitAt(cap) <= cap
        BY <4>1, LimitBounds DEF LearnedInv
      <4>3. cap' = CapBelowRefusal(LimitAt(cap)) BY <3>2 DEF RefusedAgain
      <4> QED BY <4>1, <4>2, <4>3 DEF CapBelowRefusal, AtLeastOne, Less, SlotCounts
    <3>3. CASE RefusedOutside
      BY <1>n, <3>3 DEF RefusedOutside, LearnedInv, LearnedTypes, SlotCounts
    <3> QED BY <1>6, <3>1, <3>2, <3>3 DEF Refused
  <2> QED BY <1>n, <2>1, <2>2 DEF WakeupsOwed, Notifying, Asleep, AsleepTitle
<1> QED BY <1>1, <1>2, <1>3, <1>4, <1>5, <1>6 DEF FetcherStep

LEMMA WakeupsStep ==
  PlacesOK /\ LearnedInv /\ CountsExact /\ WakeupsOwed /\ [Next]_vars => WakeupsOwed'
<1> SUFFICES ASSUME PlacesOK, LearnedInv, CountsExact, WakeupsOwed, [Next]_vars
             PROVE  WakeupsOwed'
  OBVIOUS
<1>1. ASSUME NEW t \in Titles, TitleStep(t) \/ ProbeStep(t) PROVE WakeupsOwed'
  BY <1>1, TitleWakeups
<1>2. ASSUME NEW f \in Fetchers, FetcherStep(f) PROVE WakeupsOwed'
  BY <1>2, FetcherWakeups
<1>3. CASE HoldEnds \/ RefusalAges \/ LimitAges \/ UNCHANGED vars
  BY <1>3 DEF HoldEnds, RefusalAges, LimitAges, vars, counters, learned,
    WakeupsOwed, Notifying, Asleep, AsleepTitle
<1> QED BY <1>1, <1>2, <1>3 DEF Next

-----------------------------------------------------------------------------
LEMMA AccountHolds == Spec => []AccountInv
<1>1. Init => AccountInv
  BY PlacesInit, LearnedInit, CountsInit, WakeupsInit DEF AccountInv
<1>2. AccountInv /\ [Next]_vars => AccountInv'
  BY PlacesStep, LearnedStep, CountsStep, WakeupsStep DEF AccountInv
<1> QED BY <1>1, <1>2, PTL DEF Spec

LEMMA CountersAreNumbers == PlacesOK /\ CountsExact => inUse \in Nat /\ waiting \in Nat /\ streams \in Nat
<1>1. IsFiniteSet(Holders) /\ IsFiniteSet(Waiters) /\ IsFiniteSet(Lessees)
  BY ConstantsAssumption, FS_Subset DEF Holders, Waiters, Lessees
<1> QED BY <1>1, FS_CardinalityType DEF CountsExact

\* Through every race, abort and cancellation the counters of an account are the
\* slots, the waiters and the leases there really are, and no variable leaves its type:
\* in particular an account always has a slot, and never more than Max.
THEOREM CountersAreExact == Spec => []CountsSound
<1>1. AccountInv => CountsSound
  BY CountersAreNumbers DEF AccountInv, CountsSound, TypeOK, PlacesOK, LearnedInv, LearnedTypes
<1> QED BY <1>1, AccountHolds, PTL

\* Nobody sleeps beside a free slot or a free stream unless a notification is on its
\* way: to register before looking, and to notify after releasing, is enough.
THEOREM WakeupsArrive == Spec => []NoLostWakeup
<1>1. AccountInv => NoLostWakeup
  BY DEF AccountInv, WakeupsOwed, NoLostWakeup, Asleep, AsleepTitle, Sleeping, SleepingTitle
<1> QED BY <1>1, AccountHolds, PTL

\* An account never goes back over the limit its panel has shown.
THEOREM LimitIsRespected == Spec => []LimitRespected
<1>1. AccountInv => LimitRespected
  BY DEF AccountInv, LearnedInv
<1> QED BY <1>1, AccountHolds, PTL

\* Whatever moves the count ends the trial, or counts it as served.
THEOREM TrialsAreJudged == Spec => TrialJudgedAtItsCount
<1>1. AccountInv /\ [Next]_vars => [TrialJudged]_vars
  <2> SUFFICES ASSUME AccountInv, [Next]_vars, trial # None, cap' # cap
               PROVE  trial' = None \/ served' >= cap
    BY DEF TrialJudged
  <2>n. cap \in Nat /\ served \in Nat
    BY DEF AccountInv, LearnedInv, LearnedTypes, SlotCounts
  <2>1. ASSUME NEW t \in Titles, TitleStep(t) \/ ProbeNotify(t) PROVE FALSE
    BY <2>1, LearnedKept DEF learned
  <2>2. ASSUME NEW t \in Titles, NEW rate \in Rates, ProbeNoGain(t, rate) PROVE trial' = None
    BY <2>2 DEF ProbeNoGain
  <2>3. ASSUME NEW t \in Titles, NEW rate \in Rates, ProbeSettled(t, rate) PROVE served' >= cap
    BY <2>n, <2>3 DEF ProbeSettled
  <2>4. ASSUME NEW t \in Titles, ProbeFirst(t) \/ CanSplit(t) PROVE FALSE
    BY <2>4 DEF ProbeFirst, CanSplit
  <2>5. ASSUME NEW f \in Fetchers, FetcherStep(f) PROVE trial' = None
    <3>1. Refused(f) BY <2>5, LearnedKept DEF Acquire, learned
    <3> QED BY <3>1 DEF Refused
  <2>6. CASE HoldEnds \/ RefusalAges \/ LimitAges \/ UNCHANGED vars
    BY <2>6 DEF HoldEnds, RefusalAges, LimitAges, vars, learned
  <2> QED BY <2>1, <2>2, <2>3, <2>4, <2>5, <2>6 DEF Next, ProbeStep
<1> QED BY <1>1, AccountHolds, PTL DEF Spec, TrialJudgedAtItsCount
=============================================================================
