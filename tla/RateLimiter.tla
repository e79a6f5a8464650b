----------------------------- MODULE RateLimiter -----------------------------
(***************************************************************************)
(* The rate limiter of the HTTP path (package ratelimit, the check and the *)
(* records of Handler.handleToolCall): a sliding window, a total and a     *)
(* loop detector per agent, under limits chosen by the policy the call     *)
(* matches.                                                                *)
(*                                                                         *)
(* A request checks, goes on (policy, grants, an approval that may take    *)
(* minutes), then records the call and forwards it; the limiter is locked  *)
(* for the check and for the record, not in between.  A collector forgets  *)
(* agents that were idle, and a new agent may push an older one out.       *)
(***************************************************************************)
EXTENDS Integers, FiniteSets

CONSTANTS
  Agent,        \* agent ids, self-declared
  Policy,       \* policy names
  Params,       \* the tool and the parameters of a call, compared as one
  Thread,       \* the requests served at the same time
  Limits,       \* the maps of limits a reload may install
  LoopWindow,   \* 10 s
  Minute,       \* 60 s
  Idle,         \* 120 s
  LoopMax,      \* 3
  RecentMax,    \* 50
  MaxAgents,    \* maxAgents
  MaxNow,       \* bound on the clock
  MaxRuns       \* bound on the calls run

NoLimit == [perMinute |-> -1, total |-> -1]
Limit == [perMinute : 0 .. MaxRuns, total : 0 .. MaxRuns] \cup {NoLimit}

ASSUME LimiterConstants ==
  /\ {LoopWindow, Minute, Idle, LoopMax, RecentMax, MaxAgents} \subseteq Nat \ {0}
  /\ {MaxNow, MaxRuns} \subseteq Nat
  /\ Limits # {} /\ Limits \subseteq [Policy -> Limit]
  /\ LoopWindow <= Minute /\ Minute <= Idle
  /\ Params # {} /\ IsFiniteSet(Thread) /\ Thread # {}

VARIABLES
  now,
  limits,        \* Limiter.limits; NoLimit where the policy has none
  tracked,       \* the agents in Limiter.agents
  times,         \* Agent -> agentState.calls: the runs it remembers
  total,         \* Agent -> agentState.total
  recent,        \* Agent -> agentState.recent: the last of them, for loops
  lastSeen,      \* Agent -> agentState.lastSeen
  at,            \* Thread -> the agent served, NoAgent when there is none
  doing,         \* Thread -> the parameters of its call
  runs,          \* the calls forwarded, numbered in order
  seen,          \* Agent -> when it last called, whatever the limiter knows
  sinceRest,     \* Agent -> calls run since it last rested for Idle
  crowdedOut     \* the agents evictOldest has ever removed

CONSTANT NoAgent
ASSUME NoAgentIsNone == NoAgent \notin Agent

tableVars == <<tracked, times, total, recent, lastSeen>>
threadVars == <<at, doing>>
ghostVars == <<runs, seen, sinceRest, crowdedOut>>
vars == <<now, limits, tableVars, threadVars, ghostVars>>

Run == [agent : Agent, n : 1 .. MaxRuns, at : 0 .. MaxNow, params : Params]

TypeOK ==
  /\ now \in 0 .. MaxNow
  /\ limits \in Limits
  /\ tracked \subseteq Agent /\ IsFiniteSet(tracked) /\ Cardinality(tracked) <= MaxAgents
  /\ times \in [Agent -> SUBSET Run]
  /\ total \in [Agent -> Nat]
  /\ recent \in [Agent -> SUBSET Run]
  /\ \A a \in Agent : Cardinality(recent[a]) <= RecentMax
  /\ lastSeen \in [Agent -> 0 .. MaxNow]
  /\ at \in [Thread -> Agent \cup {NoAgent}]
  /\ doing \in [Thread -> Params]
  /\ runs \subseteq Run /\ IsFiniteSet(runs) /\ Cardinality(runs) <= MaxRuns
  /\ seen \in [Agent -> 0 .. MaxNow]
  /\ sinceRest \in [Agent -> Nat]
  /\ crowdedOut \subseteq Agent

After(S, from) == {c \in S : c.at > from}
Alike(S, p) == {c \in S : c.params = p}

-----------------------------------------------------------------------------
Init ==
  /\ now = 0
  /\ limits \in Limits
  /\ tracked = {}
  /\ times = [a \in Agent |-> {}]
  /\ total = [a \in Agent |-> 0]
  /\ recent = [a \in Agent |-> {}]
  /\ lastSeen = [a \in Agent |-> 0]
  /\ at = [t \in Thread |-> NoAgent]
  /\ doing = [t \in Thread |-> CHOOSE p \in Params : TRUE]
  /\ runs = {}
  /\ seen = [a \in Agent |-> 0]
  /\ sinceRest = [a \in Agent |-> 0]
  /\ crowdedOut = {}

(* getOrCreate: the least recently seen agent leaves when the map is full. *)
Evicted(a) ==
  IF a \in tracked \/ Cardinality(tracked) < MaxAgents THEN {{}}
  ELSE {{b} : b \in {b \in tracked : \A c \in tracked : lastSeen[b] <= lastSeen[c]}}

(* The table with gone forgotten, a seen now and its calls as given. *)
Table(a, gone, calls, count, last) ==
  /\ tracked' = (tracked \ gone) \cup {a}
  /\ times' = [b \in Agent |-> IF b = a THEN calls ELSE IF b \in gone THEN {} ELSE times[b]]
  /\ total' = [b \in Agent |-> IF b = a THEN count ELSE IF b \in gone THEN 0 ELSE total[b]]
  /\ recent' = [b \in Agent |-> IF b = a THEN last ELSE IF b \in gone THEN {} ELSE recent[b]]
  /\ lastSeen' = [b \in Agent |-> IF b = a THEN now ELSE lastSeen[b]]
  /\ crowdedOut' = crowdedOut \cup gone

(* The agent shows up; the count starts over after a rest. *)
Seen(a, run) ==
  /\ seen' = [seen EXCEPT ![a] = now]
  /\ sinceRest' = [sinceRest EXCEPT ![a] = run + (IF now - seen[a] > Idle THEN 0 ELSE @)]

(* Variant: one call too many. *)
WithinMinuteLoose(a, l) ==
  l.perMinute > 0 => Cardinality(After(times[a], now - Minute)) <= l.perMinute
NoLoopLoose(a, p) ==
  Cardinality(Alike(After(recent[a], now - LoopWindow), p)) <= LoopMax

WithinTotal(a, l) == l.total > 0 => total[a] < l.total
WithinMinute(a, l) ==
  l.perMinute > 0 => Cardinality(After(times[a], now - Minute)) < l.perMinute
NoLoop(a, p) ==
  Cardinality(Alike(After(recent[a], now - LoopWindow), p)) < LoopMax

(* Check: without a limit for the policy nothing is looked at, loops       *)
(* included, and the agent does not even show up.  A refusal answers 429.  *)
Check(t, a, pol, p) ==
  LET l == limits[pol]
      passes == l # NoLimit => WithinTotal(a, l) /\ WithinMinute(a, l) /\ NoLoop(a, p)
  IN /\ at[t] = NoAgent
     /\ at' = [at EXCEPT ![t] = IF passes THEN a ELSE NoAgent]
     /\ doing' = [doing EXCEPT ![t] = IF passes THEN p ELSE @]
     /\ IF l = NoLimit THEN UNCHANGED <<tableVars, crowdedOut>>
        ELSE \E gone \in Evicted(a) : Table(a, gone, times[a], total[a], recent[a])
     /\ Seen(a, 0)
     /\ UNCHANGED <<now, limits, runs>>

(* recent is cut to the RecentMax added last. *)
Latest(S) == {c \in S : Cardinality({d \in S : d.n > c.n}) < RecentMax}

(* Record, then ForwardAs: the call runs. *)
Record(t) ==
  LET a == at[t]
      c == [agent |-> a, n |-> Cardinality(runs) + 1, at |-> now, params |-> doing[t]]
  IN /\ a # NoAgent
     /\ Cardinality(runs) < MaxRuns
     /\ \E gone \in Evicted(a) :
          Table(a, gone, times[a] \cup {c}, total[a] + 1, Latest(recent[a] \cup {c}))
     /\ runs' = runs \cup {c}
     /\ Seen(a, 1)
     /\ at' = [at EXCEPT ![t] = NoAgent]
     /\ UNCHANGED <<now, limits, doing>>

(* The call ends without running: refused by the policy, denied, timed out. *)
Abandon(t) ==
  /\ at[t] # NoAgent
  /\ at' = [at EXCEPT ![t] = NoAgent]
  /\ UNCHANGED <<now, limits, tableVars, doing, ghostVars>>

(* Variant: the idle agents collected a minute early. *)
GcEager ==
  LET gone == {a \in tracked : lastSeen[a] < now - Minute}
  IN /\ times' = [a \in Agent |-> IF a \in gone THEN {} ELSE After(times[a], now - Idle)]
     /\ recent' = [a \in Agent |-> IF a \in gone THEN {} ELSE After(recent[a], now - LoopWindow)]
     /\ total' = [a \in Agent |-> IF a \in gone THEN 0 ELSE total[a]]
     /\ tracked' = tracked \ gone
     /\ UNCHANGED <<now, limits, lastSeen, threadVars, ghostVars>>

(* gc: old timestamps go, and every agent idle for longer than Idle. *)
Gc ==
  LET gone == {a \in tracked : lastSeen[a] < now - Idle}
  IN /\ times' = [a \in Agent |-> IF a \in gone THEN {} ELSE After(times[a], now - Idle)]
     /\ recent' = [a \in Agent |-> IF a \in gone THEN {} ELSE After(recent[a], now - LoopWindow)]
     /\ total' = [a \in Agent |-> IF a \in gone THEN 0 ELSE total[a]]
     /\ tracked' = tracked \ gone
     /\ UNCHANGED <<now, limits, lastSeen, threadVars, ghostVars>>

(* ReplaceLimits, when the policy file is reloaded: the counters stay. *)
ReplaceLimits ==
  /\ limits' \in Limits \ {limits}
  /\ UNCHANGED <<now, tableVars, threadVars, ghostVars>>

Tick ==
  /\ now < MaxNow
  /\ now' = now + 1
  /\ UNCHANGED <<limits, tableVars, threadVars, ghostVars>>

Next ==
  \/ \E t \in Thread, a \in Agent, pol \in Policy, p \in Params : Check(t, a, pol, p)
  \/ \E t \in Thread : Record(t)
  \/ \E t \in Thread : Abandon(t)
  \/ Gc
  \/ ReplaceLimits
  \/ Tick

Spec == Init /\ [][Next]_vars

-----------------------------------------------------------------------------
(* Every configuration gives every policy a limit, of n at most. *)
RatesUpTo(n) == \A l \in Limits, pol \in Policy : l[pol].perMinute \in 1 .. n
TotalsUpTo(n) == \A l \in Limits, pol \in Policy : l[pol].total \in 1 .. n

Overlap == Cardinality(Thread) - 1
RunsOf(a, from) == {c \in After(runs, from) : c.agent = a}

(* Never more than max_per_minute calls of an agent in a minute, but for   *)
(* those that had passed the check when the last one did, unless a crowd   *)
(* of other agents ever made the limiter forget it (Check, Record).        *)
RateHeld ==
  \A n \in 1 .. MaxRuns : RatesUpTo(n) =>
    \A a \in Agent \ crowdedOut : Cardinality(RunsOf(a, now - Minute)) <= n + Overlap

(* Never more than max_total calls of an agent that does not rest, but for *)
(* those that overlap (Check, Record, gc).                                 *)
BudgetHeld ==
  \A n \in 1 .. MaxRuns : TotalsUpTo(n) =>
    \A a \in Agent \ crowdedOut : sinceRest[a] <= n + Overlap

(* The same call of an agent runs at most LoopMax times in a window, but   *)
(* for those that overlap (Check, gc).                                     *)
LoopBroken ==
  \A a \in Agent \ crowdedOut, p \in Params :
    Cardinality(Alike(RunsOf(a, now - LoopWindow), p)) <= LoopMax + Overlap

(* max_total is for the lifetime of the process. *)
BudgetForLife ==
  \A n \in 1 .. MaxRuns : TotalsUpTo(n) => \A a \in Agent : Cardinality(RunsOf(a, -1)) <= n

-----------------------------------------------------------------------------
(* The inductive invariants behind them (RateLimiterProofs). *)

(* The runs are numbered in time, and their agents were seen since. *)
RunsInOrder ==
  /\ \A c \in runs : c.n <= Cardinality(runs) /\ c.at <= now /\ c.at <= lastSeen[c.agent]
  /\ \A c, d \in runs : c.n <= d.n => c.at <= d.at
  /\ \A c, d \in runs : c.n = d.n => c = d

(* The table holds runs of the agent, and those of the last minute unless  *)
(* the agent was pushed out.                                               *)
TableHolds ==
  /\ \A a \in Agent : times[a] \cup recent[a] \subseteq {c \in runs : c.agent = a}
  /\ \A a \in Agent \ crowdedOut : RunsOf(a, now - Minute) \subseteq times[a]

LimiterIInv == TypeOK /\ RunsInOrder /\ TableHolds

Serving(a) == {t \in Thread : at[t] = a}
Repeating(a, p) == {t \in Serving(a) : doing[t] = p}

(* A call past its check has its place below the limits already.           *)
RateRoom(n) ==
  \A a \in Agent : Cardinality(After(times[a], now - Minute)) + Cardinality(Serving(a)) <= n + Overlap
TotalRoom(n) == \A a \in Agent : total[a] + Cardinality(Serving(a)) <= n + Overlap
LoopRoom ==
  \A a \in Agent, p \in Params :
    Cardinality(Alike(After(recent[a], now - LoopWindow), p)) + Cardinality(Repeating(a, p))
      <= LoopMax + Overlap

(* The total of an agent that did not rest counts every run.               *)
TotalCounts ==
  /\ seen = lastSeen
  /\ \A a \in Agent \ crowdedOut : sinceRest[a] <= total[a] \/ now - seen[a] > Idle

(* The repeated calls of an agent are among its recent ones.               *)
RecentHolds == \A a \in Agent \ crowdedOut : RunsOf(a, now - LoopWindow) \subseteq recent[a]

RoomIInv ==
  /\ LimiterIInv
  /\ \A n \in 1 .. MaxRuns :
       /\ RatesUpTo(n) => RateRoom(n) /\ LoopRoom
       /\ RatesUpTo(n) /\ n + Overlap <= RecentMax => RecentHolds
       /\ TotalsUpTo(n) => TotalRoom(n) /\ TotalCounts
  /\ BudgetHeld
=============================================================================
