------------------------------- MODULE ApiGate -------------------------------
(***************************************************************************)
(* The throttle in front of a public service: ApiGate of                   *)
(* src/crates/fluxplay/src/metadata.rs (OMDb, TVMaze, iTunes, Wikipedia),  *)
(* and Gate of translate.rs (Google, MyMemory), which does not sleep       *)
(* through a cooldown.  A request passes `blocked`, takes a slot in        *)
(* wait_turn, sleeps until it, and is sent; a refusal starts a cooldown.   *)
(*                                                                         *)
(* No slot given yet is one long ago.                                      *)
(***************************************************************************)
EXTENDS Integers, FiniteSets

CONSTANTS
  Callers,   \* tasks that look something up at the same time
  Interval,  \* min_interval
  Cooldown,  \* how long a refusal holds
  Sleeps,    \* wait_turn sleeps through a cooldown
  MaxNow     \* bound: the clock

ASSUME GateAssumption ==
  /\ Interval \in Nat \ {0} /\ Cooldown \in Nat \ {0}
  /\ Sleeps \in BOOLEAN /\ MaxNow \in Nat

VARIABLES
  now,    \* the clock
  last,   \* last
  until,  \* cooldown_until
  pc,     \* [callers -> where in the request it is]
  wake,   \* [callers -> when its sleep ends]
  slot    \* [callers -> the last slot it was given]

vars == <<now, last, until, pc, wake, slot>>

Init ==
  /\ now = 0 /\ last = -Interval /\ until = 0
  /\ pc = [c \in Callers |-> "idle"]
  /\ wake = [c \in Callers |-> 0]
  /\ slot = [c \in Callers |-> -Interval]

-----------------------------------------------------------------------------
Tick ==
  /\ now < MaxNow /\ now' = now + 1
  /\ UNCHANGED <<last, until, pc, wake, slot>>

\* A request that is not begun during a cooldown; another one is given up.
Blocked == now < until
Ask(c) ==
  /\ pc[c] = "idle" /\ ~Blocked
  /\ pc' = [pc EXCEPT ![c] = "turn"]
  /\ UNCHANGED <<now, last, until, wake, slot>>

\* The cooldown began since.
CoolDown(c) ==
  /\ pc[c] = "turn" /\ Sleeps /\ now < until
  /\ pc' = [pc EXCEPT ![c] = "cool"]
  /\ wake' = [wake EXCEPT ![c] = until]
  /\ UNCHANGED <<now, last, until, slot>>

\* A slot that is still to come does not count.
WaitNone ==
  LET since == IF last > now THEN Interval ELSE now - last
  IN IF since >= Interval THEN 0 ELSE Interval - since
\* saturating_duration_since: a last slot that is still to come counts as now.
Wait ==
  LET since == IF last > now THEN 0 ELSE now - last
  IN IF since >= Interval THEN 0 ELSE Interval - since
TakeSlot(c) ==
  /\ \/ pc[c] = "turn" /\ (Sleeps => until <= now)
     \/ pc[c] = "cool" /\ wake[c] <= now
  /\ last' = now + Wait
  /\ slot' = [slot EXCEPT ![c] = now + Wait]
  /\ wake' = [wake EXCEPT ![c] = now + Wait]
  /\ pc' = [pc EXCEPT ![c] = "wait"]
  /\ UNCHANGED <<now, until>>

Send(c) ==
  /\ pc[c] = "wait" /\ wake[c] <= now
  /\ pc' = [pc EXCEPT ![c] = "sent"]
  /\ UNCHANGED <<now, last, until, wake, slot>>

Answered(c) ==
  /\ pc[c] = "sent"
  /\ pc' = [pc EXCEPT ![c] = "idle"]
  /\ UNCHANGED <<now, last, until, wake, slot>>
\* trip_429, trip
Refused(c) ==
  /\ pc[c] = "sent"
  /\ pc' = [pc EXCEPT ![c] = "idle"]
  /\ until' = now + Cooldown
  /\ UNCHANGED <<now, last, wake, slot>>

Next ==
  \/ Tick
  \/ \E c \in Callers : \/ Ask(c) \/ CoolDown(c) \/ TakeSlot(c)
                        \/ Send(c) \/ Answered(c) \/ Refused(c)

Spec == Init /\ [][Next]_vars
-----------------------------------------------------------------------------
PCs == {"idle", "turn", "cool", "wait", "sent"}
TypeOK ==
  /\ now \in Nat /\ last \in Int /\ until \in Nat
  /\ pc \in [Callers -> PCs]
  /\ wake \in [Callers -> Nat]
  /\ slot \in [Callers -> Int]

\* The slots of one caller are an interval apart, however many callers share the
\* throttle: the rate a host sees is at most that many requests per interval.
CallerSpaced == \A c \in Callers : slot'[c] # slot[c] => slot'[c] >= slot[c] + Interval
CallersSpaced == [][CallerSpaced]_vars

\* What the throttle is for: no slot within an interval of the last one given.  It
\* does not hold of three requests: those that come before the slot of the last one
\* are all given the same wait.
SlotsApart == \A c \in Callers : slot'[c] # slot[c] => slot'[c] >= last + Interval

\* A slot is never given far ahead: what is asked for waits one interval at most.
NearSlots == last <= now + Interval
=============================================================================
