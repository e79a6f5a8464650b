---------------------------- MODULE RateLimiterProofs ----------------------------
(***************************************************************************)
(* What holds of the rate limiter for any agents, policies, limits,        *)
(* windows, number of requests at a time and size of the table: that its   *)
(* counts lag behind the calls that run by the overlap alone.              *)
(***************************************************************************)
EXTENDS RateLimiter, FiniteSetTheorems, WellFoundedInduction, TLAPS

-----------------------------------------------------------------------------
(* Types *)

(* The constants that are numbers.                                         *)
LEMMA Numbers ==
  /\ LoopWindow \in Nat /\ Minute \in Nat /\ Idle \in Nat /\ LoopMax \in Nat /\ LoopMax > 0
  /\ RecentMax \in Nat /\ RecentMax > 0 /\ MaxAgents \in Nat /\ MaxAgents > 0
  /\ MaxNow \in Nat /\ MaxRuns \in Nat
  /\ LoopWindow <= Minute /\ Minute <= Idle
  BY LimiterConstants

(* An element more, of finite sets.                                        *)
LEMMA OneMore ==
  ASSUME NEW S, NEW x, IsFiniteSet(S)
  PROVE  /\ IsFiniteSet(S \cup {x}) /\ IsFiniteSet(S \ {x})
         /\ Cardinality(S) \in Nat /\ Cardinality(S \cup {x}) \in Nat /\ Cardinality(S \ {x}) \in Nat
         /\ Cardinality(S \cup {x}) <= Cardinality(S) + 1
         /\ x \notin S => Cardinality(S \cup {x}) = Cardinality(S) + 1
         /\ x \in S => Cardinality(S \ {x}) = Cardinality(S) - 1
<1>1. IsFiniteSet(S \cup {x}) /\ IsFiniteSet(S \ {x})
  BY FS_AddElement, FS_RemoveElement
<1>2. Cardinality(S) \in Nat /\ Cardinality(S \cup {x}) \in Nat /\ Cardinality(S \ {x}) \in Nat
  BY <1>1, FS_CardinalityType
<1>3. Cardinality(S \cup {x}) = IF x \in S THEN Cardinality(S) ELSE Cardinality(S) + 1
  BY FS_AddElement
<1>4. Cardinality(S \ {x}) = IF x \in S THEN Cardinality(S) - 1 ELSE Cardinality(S)
  BY FS_RemoveElement
<1> QED
  BY <1>1, <1>2, <1>3, <1>4

(* A part has no more elements.                                            *)
LEMMA Fewer ==
  ASSUME NEW S, NEW T, IsFiniteSet(S), T \subseteq S
  PROVE  /\ IsFiniteSet(T) /\ Cardinality(T) \in Nat /\ Cardinality(S) \in Nat
         /\ Cardinality(T) <= Cardinality(S)
<1>1. IsFiniteSet(T) /\ Cardinality(T) <= Cardinality(S)
  BY FS_Subset
<1> QED
  BY <1>1, FS_CardinalityType

(* What is kept of a set are members of it.                                *)
LEMMA Parts ==
  ASSUME NEW S
  PROVE  /\ \A from : After(S, from) \subseteq S
         /\ \A p : Alike(S, p) \subseteq S
         /\ Latest(S) \subseteq S
  BY DEF After, Alike, Latest

(* Of a set of numbered runs one has the least number.                     *)
LEMMA FirstRun ==
  ASSUME NEW S \in SUBSET Run, S # {}
  PROVE  \E c \in S : \A d \in S : c.n <= d.n
<1> DEFINE N == {c.n : c \in S}
<1>1. N \subseteq Nat /\ N # {}
  BY DEF Run
<1>2. \E x \in N : \A y \in N : ~ (<<y, x>> \in OpToRel(<, Nat))
  BY <1>1, NatLessThanWellFounded, WFMin
<1>3. PICK x \in N : \A y \in N : ~ (y < x)
  BY <1>1, <1>2 DEF OpToRel
<1>4. PICK c \in S : c.n = x
  OBVIOUS
<1>5. ASSUME NEW d \in S PROVE c.n <= d.n
  <2>1. d.n \in N /\ d.n \in Nat /\ x \in Nat
    BY <1>1
  <2> QED
    BY <1>3, <1>4, <2>1
<1> QED
  BY <1>4, <1>5

(* The recent calls stay within RecentMax.                                 *)
LEMMA LatestBound ==
  ASSUME NEW R \in SUBSET Run, IsFiniteSet(R), Cardinality(R) <= RecentMax,
         NEW c \in Run, \A d, e \in R \cup {c} : d.n = e.n => d = e
  PROVE  IsFiniteSet(Latest(R \cup {c})) /\ Cardinality(Latest(R \cup {c})) <= RecentMax
<1> DEFINE S == R \cup {c}
<1>1. IsFiniteSet(S) /\ Cardinality(S) <= RecentMax + 1 /\ Cardinality(S) \in Nat
  <2>1. /\ IsFiniteSet(S) /\ Cardinality(R) \in Nat /\ Cardinality(S) \in Nat
        /\ Cardinality(S) <= Cardinality(R) + 1
    BY OneMore
  <2> QED
    BY <2>1, Numbers
<1>2. Latest(S) \subseteq S
  BY Parts
<1>3. IsFiniteSet(Latest(S)) /\ Cardinality(Latest(S)) <= Cardinality(S) /\ Cardinality(Latest(S)) \in Nat
  BY <1>1, <1>2, Fewer
<1>4. CASE Cardinality(S) = RecentMax + 1
  <2>1. PICK first \in S : \A d \in S : first.n <= d.n
    <3>1. S \in SUBSET Run /\ S # {}
      OBVIOUS
    <3> QED
      BY <3>1, FirstRun
  <2>2. {d \in S : d.n > first.n} = S \ {first}
    <3>1. \A d \in S : d.n \in Nat
      BY DEF Run
    <3>2. \A d \in S \ {first} : d.n # first.n
      BY <2>1
    <3> QED
      BY <2>1, <3>1, <3>2
  <2>3. Cardinality(S \ {first}) = RecentMax
    <3>1. Cardinality(S \ {first}) = Cardinality(S) - 1
      BY <1>1, <2>1, OneMore
    <3> QED
      BY <1>4, <3>1, Numbers
  <2>4. Latest(S) \subseteq S \ {first}
    <3>1. ~ (Cardinality({d \in S : d.n > first.n}) < RecentMax)
      BY <2>2, <2>3, Numbers
    <3> QED
      BY <1>2, <3>1 DEF Latest
  <2>5. IsFiniteSet(S \ {first})
    BY <1>1, OneMore
  <2> QED
    BY <1>3, <2>3, <2>4, <2>5, Fewer
<1>5. CASE Cardinality(S) <= RecentMax
  BY <1>1, <1>3, <1>5, Numbers
<1> QED
  BY <1>1, <1>4, <1>5, Numbers

LEMMA InitTypes == Init => LimiterIInv
<1> SUFFICES ASSUME Init PROVE LimiterIInv
  OBVIOUS
<1>1. TypeOK
  BY FS_EmptySet, LimiterConstants DEF Init, TypeOK
<1>2. RunsInOrder /\ TableHolds
  BY DEF Init, RunsInOrder, TableHolds, RunsOf, After
<1> QED
  BY <1>1, <1>2 DEF LimiterIInv

(* Room is made for an agent that is not in the table, by no one or by     *)
(* another.                                                                *)
LEMMA RoomIsMade ==
  ASSUME TypeOK, NEW a \in Agent, NEW gone \in Evicted(a)
  PROVE  /\ gone \subseteq tracked /\ a \notin gone
         /\ IsFiniteSet((tracked \ gone) \cup {a})
         /\ Cardinality((tracked \ gone) \cup {a}) <= MaxAgents
<1>1. IsFiniteSet(tracked) /\ Cardinality(tracked) \in Nat /\ Cardinality(tracked) <= MaxAgents
  BY FS_CardinalityType DEF TypeOK
<1>2. CASE gone = {} /\ (a \in tracked \/ Cardinality(tracked) < MaxAgents)
  <2>1. (tracked \ gone) \cup {a} = tracked \cup {a}
    BY <1>2
  <2> QED
    <3>1. /\ IsFiniteSet(tracked \cup {a}) /\ Cardinality(tracked \cup {a}) \in Nat
          /\ Cardinality(tracked \cup {a}) <= Cardinality(tracked) + 1
      BY <1>1, OneMore
    <3>2. a \in tracked => tracked \cup {a} = tracked
      OBVIOUS
    <3> QED
      BY <1>1, <1>2, <2>1, <3>1, <3>2, Numbers
<1>3. ASSUME NEW b \in tracked, gone = {b}, a \notin tracked
      PROVE  /\ gone \subseteq tracked /\ a \notin gone
             /\ IsFiniteSet((tracked \ gone) \cup {a})
             /\ Cardinality((tracked \ gone) \cup {a}) <= MaxAgents
  <2>1. IsFiniteSet(tracked \ {b}) /\ Cardinality(tracked \ {b}) = Cardinality(tracked) - 1
    BY <1>1, <1>3, OneMore
  <2>2. Cardinality((tracked \ {b}) \cup {a}) <= Cardinality(tracked)
        /\ IsFiniteSet((tracked \ {b}) \cup {a})
    <3>1. /\ Cardinality((tracked \ {b}) \cup {a}) <= Cardinality(tracked \ {b}) + 1
          /\ IsFiniteSet((tracked \ {b}) \cup {a})
      BY <2>1, OneMore
    <3> QED
      BY <1>1, <2>1, <3>1
  <2>3. Cardinality((tracked \ {b}) \cup {a}) \in Nat
    BY <2>2, FS_CardinalityType
  <2> QED
    BY <1>1, <1>3, <2>2, <2>3, Numbers
<1> QED
  BY <1>2, <1>3 DEF Evicted

(* A change of one agent's entry keeps the types.                          *)
LEMMA TableTypes ==
  ASSUME TypeOK, NEW a \in Agent, NEW gone \in Evicted(a),
         NEW calls \in SUBSET Run, NEW count \in Nat, NEW last \in SUBSET Run,
         Cardinality(last) <= RecentMax,
         Table(a, gone, calls, count, last)
  PROVE  /\ tracked' \subseteq Agent /\ IsFiniteSet(tracked') /\ Cardinality(tracked') <= MaxAgents
         /\ times' \in [Agent -> SUBSET Run]
         /\ total' \in [Agent -> Nat]
         /\ recent' \in [Agent -> SUBSET Run]
         /\ \A b \in Agent : Cardinality(recent'[b]) <= RecentMax
         /\ lastSeen' \in [Agent -> 0 .. MaxNow]
         /\ crowdedOut' \subseteq Agent
<1>1. /\ tracked' \subseteq Agent /\ IsFiniteSet(tracked') /\ Cardinality(tracked') <= MaxAgents
      /\ crowdedOut' \subseteq Agent
  BY RoomIsMade DEF Table, TypeOK
<1>2. times' \in [Agent -> SUBSET Run] /\ total' \in [Agent -> Nat] /\ lastSeen' \in [Agent -> 0 .. MaxNow]
  BY DEF Table, TypeOK
<1>3. recent' \in [Agent -> SUBSET Run]
  BY DEF Table, TypeOK
<1>4. \A b \in Agent : Cardinality(recent'[b]) <= RecentMax
  BY FS_EmptySet, Numbers DEF Table, TypeOK
<1> QED
  BY <1>1, <1>2, <1>3, <1>4

(* An agent is seen.                                                       *)
LEMMA SeenTypes ==
  ASSUME TypeOK, NEW a \in Agent, NEW run \in {0, 1}, Seen(a, run)
  PROVE  seen' \in [Agent -> 0 .. MaxNow] /\ sinceRest' \in [Agent -> Nat]
  BY DEF Seen, TypeOK

(* The run a request records.                                              *)
RunBy(t) == [agent |-> at[t], n |-> Cardinality(runs) + 1, at |-> now, params |-> doing[t]]

LEMMA RecordedRun ==
  ASSUME LimiterIInv, NEW t \in Thread, Record(t)
  PROVE  /\ at[t] \in Agent /\ RunBy(t) \in Run /\ RunBy(t) \notin runs
         /\ runs' = runs \cup {RunBy(t)}
         /\ IsFiniteSet(runs') /\ Cardinality(runs') = Cardinality(runs) + 1
         /\ Cardinality(runs') <= MaxRuns /\ Cardinality(runs) \in Nat
<1>1. Cardinality(runs) \in Nat /\ IsFiniteSet(runs)
  BY FS_CardinalityType DEF LimiterIInv, TypeOK
<1>2. at[t] \in Agent /\ runs' = runs \cup {RunBy(t)} /\ Cardinality(runs) < MaxRuns
  BY DEF Record, RunBy, LimiterIInv, TypeOK
<1>3. RunBy(t) \in Run
  BY <1>1, <1>2, Numbers DEF RunBy, Run, LimiterIInv, TypeOK
<1>4. RunBy(t) \notin runs
  BY <1>1 DEF RunBy, LimiterIInv, RunsInOrder
<1> QED
  <2>1. /\ IsFiniteSet(runs \cup {RunBy(t)})
        /\ Cardinality(runs \cup {RunBy(t)}) = Cardinality(runs) + 1
    BY <1>1, <1>4, OneMore
  <2> QED
    BY <1>1, <1>2, <1>3, <1>4, <2>1, Numbers

(* What a check does to the table.                                         *)
LEMMA CheckedTable ==
  ASSUME TypeOK, NEW t \in Thread, NEW a \in Agent, NEW pol \in Policy, NEW p \in Params,
         Check(t, a, pol, p)
  PROVE  \/ UNCHANGED <<tableVars, crowdedOut>> /\ limits[pol] = NoLimit
         \/ \E gone \in Evicted(a) : Table(a, gone, times[a], total[a], recent[a])
  BY DEF Check

(* Every step keeps the types.                                             *)
LEMMA TypesStep ==
  ASSUME LimiterIInv, Next
  PROVE  TypeOK'
<1>0. TypeOK /\ \A a \in Agent : IsFiniteSet(recent[a])
  <2>1. ASSUME NEW a \in Agent PROVE IsFiniteSet(recent[a])
    <3>1. recent[a] \subseteq runs /\ IsFiniteSet(runs)
      BY DEF LimiterIInv, TypeOK, TableHolds
    <3> QED
      BY <3>1, FS_Subset
  <2> QED
    BY <2>1 DEF LimiterIInv
<1>1. ASSUME NEW t \in Thread, NEW a \in Agent, NEW pol \in Policy, NEW p \in Params,
             Check(t, a, pol, p)
      PROVE  TypeOK'
  <2>1. /\ tracked' \subseteq Agent /\ IsFiniteSet(tracked') /\ Cardinality(tracked') <= MaxAgents
        /\ times' \in [Agent -> SUBSET Run] /\ total' \in [Agent -> Nat]
        /\ recent' \in [Agent -> SUBSET Run] /\ \A b \in Agent : Cardinality(recent'[b]) <= RecentMax
        /\ lastSeen' \in [Agent -> 0 .. MaxNow] /\ crowdedOut' \subseteq Agent
    <3>1. CASE UNCHANGED <<tableVars, crowdedOut>>
      BY <1>0, <3>1 DEF tableVars, TypeOK
    <3>2. ASSUME NEW gone \in Evicted(a), Table(a, gone, times[a], total[a], recent[a])
          PROVE  /\ tracked' \subseteq Agent /\ IsFiniteSet(tracked') /\ Cardinality(tracked') <= MaxAgents
                 /\ times' \in [Agent -> SUBSET Run] /\ total' \in [Agent -> Nat]
                 /\ recent' \in [Agent -> SUBSET Run] /\ \A b \in Agent : Cardinality(recent'[b]) <= RecentMax
                 /\ lastSeen' \in [Agent -> 0 .. MaxNow] /\ crowdedOut' \subseteq Agent
      <4>1. times[a] \in SUBSET Run /\ total[a] \in Nat /\ recent[a] \in SUBSET Run
            /\ Cardinality(recent[a]) <= RecentMax
        BY <1>0 DEF TypeOK
      <4> QED
        BY <1>0, <3>2, <4>1, TableTypes
    <3> QED
      BY <1>0, <1>1, <3>1, <3>2, CheckedTable
  <2>2. seen' \in [Agent -> 0 .. MaxNow] /\ sinceRest' \in [Agent -> Nat]
    BY <1>0, <1>1, SeenTypes DEF Check
  <2>3. /\ at' \in [Thread -> Agent \cup {NoAgent}] /\ doing' \in [Thread -> Params]
        /\ UNCHANGED <<now, limits, runs>>
    BY <1>0, <1>1 DEF Check, TypeOK
  <2> QED
    BY <1>0, <2>1, <2>2, <2>3 DEF TypeOK
<1>2. ASSUME NEW t \in Thread, Record(t) PROVE TypeOK'
  <2> DEFINE a == at[t]
             c == RunBy(t)
             last == Latest(recent[a] \cup {c})
  <2>1. /\ a \in Agent /\ c \in Run /\ runs' = runs \cup {c}
        /\ IsFiniteSet(runs') /\ Cardinality(runs') <= MaxRuns /\ c \notin runs
    BY <1>2, RecordedRun
  <2>2. \A d, e \in recent[a] \cup {c} : d.n = e.n => d = e
    <3>1. recent[a] \subseteq runs
      BY <2>1 DEF LimiterIInv, TableHolds
    <3>2. \A d \in runs : d.n \in Nat /\ Cardinality(runs) \in Nat /\ d.n <= Cardinality(runs)
      BY <1>2, RecordedRun DEF LimiterIInv, RunsInOrder, TypeOK, Run
    <3>3. c.n = Cardinality(runs) + 1
      BY DEF RunBy
    <3>4. \A d \in runs : d.n # c.n
      BY <3>2, <3>3
    <3> QED
      BY <3>1, <3>4 DEF LimiterIInv, RunsInOrder
  <2>3. last \in SUBSET Run /\ Cardinality(last) <= RecentMax
    <3>1. recent[a] \in SUBSET Run /\ Cardinality(recent[a]) <= RecentMax /\ IsFiniteSet(recent[a])
      BY <1>0, <2>1 DEF TypeOK
    <3>2. last \subseteq recent[a] \cup {c}
      BY Parts
    <3> QED
      BY <2>1, <2>2, <3>1, <3>2, LatestBound
  <2>4. times[a] \cup {c} \in SUBSET Run /\ total[a] + 1 \in Nat
    BY <1>0, <2>1 DEF TypeOK
  <2>5. PICK gone \in Evicted(a) : Table(a, gone, times[a] \cup {c}, total[a] + 1, last)
    BY <1>2 DEF Record, RunBy
  <2>6. /\ tracked' \subseteq Agent /\ IsFiniteSet(tracked') /\ Cardinality(tracked') <= MaxAgents
        /\ times' \in [Agent -> SUBSET Run] /\ total' \in [Agent -> Nat]
        /\ recent' \in [Agent -> SUBSET Run] /\ \A b \in Agent : Cardinality(recent'[b]) <= RecentMax
        /\ lastSeen' \in [Agent -> 0 .. MaxNow] /\ crowdedOut' \subseteq Agent
    BY <1>0, <2>1, <2>3, <2>4, <2>5, TableTypes
  <2>7. seen' \in [Agent -> 0 .. MaxNow] /\ sinceRest' \in [Agent -> Nat]
    BY <1>0, <1>2, <2>1, SeenTypes DEF Record
  <2>8. at' \in [Thread -> Agent \cup {NoAgent}] /\ UNCHANGED <<now, limits, doing>>
    BY <1>0, <1>2 DEF Record, TypeOK
  <2>9. runs' \subseteq Run
    BY <1>0, <2>1 DEF TypeOK
  <2> QED
    BY <1>0, <2>1, <2>6, <2>7, <2>8, <2>9 DEF TypeOK
<1>3. CASE Gc
  <2>1. tracked' \subseteq Agent /\ IsFiniteSet(tracked') /\ Cardinality(tracked') <= MaxAgents
    <3>1. tracked' \subseteq tracked
      BY <1>3 DEF Gc
    <3>2. /\ IsFiniteSet(tracked') /\ Cardinality(tracked') \in Nat /\ Cardinality(tracked) \in Nat
          /\ Cardinality(tracked') <= Cardinality(tracked)
      BY <1>0, <3>1, Fewer DEF TypeOK
    <3> QED
      BY <1>0, <3>1, <3>2, Numbers DEF TypeOK
  <2>2. times' \in [Agent -> SUBSET Run] /\ total' \in [Agent -> Nat]
        /\ recent' \in [Agent -> SUBSET Run]
    BY <1>0, <1>3, Parts DEF Gc, TypeOK
  <2>3. ASSUME NEW a \in Agent PROVE Cardinality(recent'[a]) <= RecentMax
    <3>1. recent'[a] \subseteq recent[a]
      BY <1>3, Parts DEF Gc
    <3>2. Cardinality(recent'[a]) <= Cardinality(recent[a])
          /\ Cardinality(recent'[a]) \in Nat /\ Cardinality(recent[a]) \in Nat
      BY <1>0, <3>1, Fewer
    <3> QED
      BY <1>0, <3>2, Numbers DEF TypeOK
  <2> QED
    BY <1>0, <1>3, <2>1, <2>2, <2>3 DEF Gc, threadVars, ghostVars, TypeOK
<1>4. ASSUME NEW t \in Thread, Abandon(t) PROVE TypeOK'
  BY <1>0, <1>4 DEF Abandon, tableVars, ghostVars, TypeOK
<1>5. CASE ReplaceLimits
  BY <1>0, <1>5 DEF ReplaceLimits, tableVars, threadVars, ghostVars, TypeOK
<1>6. CASE Tick
  BY <1>0, <1>6, Numbers DEF Tick, tableVars, threadVars, ghostVars, TypeOK
<1> QED
  BY <1>1, <1>2, <1>3, <1>4, <1>5, <1>6 DEF Next

(* Steps that record nothing leave the order of the runs.                  *)
LEMMA OrderStep ==
  ASSUME LimiterIInv, Next
  PROVE  RunsInOrder'
<1>0. /\ now \in Nat /\ \A c \in runs : c.agent \in Agent /\ c.at \in Nat /\ c.n \in Nat /\ c.at <= now
      /\ \A a \in Agent : lastSeen[a] \in Nat
  BY DEF LimiterIInv, TypeOK, RunsInOrder, Run
<1>1. ASSUME NEW t \in Thread, Record(t) PROVE RunsInOrder'
  <2> DEFINE c == RunBy(t)
  <2>1. /\ runs' = runs \cup {c} /\ Cardinality(runs') = Cardinality(runs) + 1
        /\ Cardinality(runs) \in Nat /\ at[t] \in Agent
    BY <1>1, RecordedRun
  <2>2. c.n = Cardinality(runs) + 1 /\ c.at = now /\ c.agent = at[t]
    BY DEF RunBy
  <2>3. /\ now' = now
        /\ \A b \in Agent : lastSeen'[b] = IF b = at[t] THEN now ELSE lastSeen[b]
    BY <1>1 DEF Record, Table
  <2>4. \A d \in runs : d.n <= Cardinality(runs) /\ d.n < c.n /\ d.at <= lastSeen[d.agent]
    BY <1>0, <2>1, <2>2 DEF LimiterIInv, RunsInOrder
  <2>5. \A d \in runs' : d.n <= Cardinality(runs') /\ d.at <= now' /\ d.at <= lastSeen'[d.agent]
    BY <1>0, <2>1, <2>2, <2>3, <2>4
  <2>6. \A d, e \in runs' : d.n <= e.n => d.at <= e.at
    BY <1>0, <2>1, <2>2, <2>4 DEF LimiterIInv, RunsInOrder
  <2>7. \A d, e \in runs' : d.n = e.n => d = e
    BY <1>0, <2>1, <2>2, <2>4 DEF LimiterIInv, RunsInOrder
  <2> QED
    BY <2>5, <2>6, <2>7 DEF RunsInOrder
<1>2. CASE /\ runs' = runs /\ now' \in Nat /\ now <= now'
           /\ \A b \in Agent : lastSeen'[b] \in {lastSeen[b], now}
  BY <1>0, <1>2 DEF LimiterIInv, RunsInOrder
<1>3. ASSUME NEW t \in Thread, NEW a \in Agent, NEW pol \in Policy, NEW p \in Params,
             Check(t, a, pol, p)
      PROVE  RunsInOrder'
  <2>1. \A b \in Agent : lastSeen'[b] \in {lastSeen[b], now}
    BY <1>3, CheckedTable DEF Table, tableVars, LimiterIInv
  <2> QED
    BY <1>0, <1>2, <1>3, <2>1 DEF Check
<1>4. ASSUME NEW t \in Thread, Abandon(t) PROVE RunsInOrder'
  BY <1>0, <1>2, <1>4 DEF Abandon, tableVars, ghostVars
<1>5. CASE Gc \/ ReplaceLimits \/ Tick
  BY <1>0, <1>2, <1>5 DEF Gc, ReplaceLimits, Tick, tableVars, ghostVars
<1> QED
  BY <1>1, <1>3, <1>4, <1>5 DEF Next

(* The table goes on to hold the runs of the last minute.                  *)
LEMMA TableStep ==
  ASSUME LimiterIInv, Next
  PROVE  TableHolds'
<1>0. /\ now \in Nat /\ \A c \in runs : c.agent \in Agent /\ c.at \in Nat
      /\ \A a \in Agent : times[a] \cup recent[a] \subseteq {c \in runs : c.agent = a}
      /\ \A a \in Agent \ crowdedOut, c \in runs : c.agent = a /\ c.at > now - Minute => c \in times[a]
  BY DEF LimiterIInv, TypeOK, TableHolds, RunsOf, After, Run
<1>1. ASSUME /\ \A a \in Agent : times'[a] \cup recent'[a] \subseteq {c \in runs' : c.agent = a}
             /\ \A a \in Agent \ crowdedOut', c \in runs' :
                  c.agent = a /\ c.at > now' - Minute => c \in times'[a]
      PROVE  TableHolds'
  BY <1>1 DEF TableHolds, RunsOf, After
<1>2. ASSUME NEW t \in Thread, NEW a \in Agent, NEW pol \in Policy, NEW p \in Params,
             Check(t, a, pol, p)
      PROVE  TableHolds'
  <2>1. UNCHANGED <<now, runs>>
    BY <1>2 DEF Check
  <2>2. CASE UNCHANGED <<tableVars, crowdedOut>>
    BY <1>0, <1>1, <2>1, <2>2 DEF tableVars
  <2>3. ASSUME NEW gone \in Evicted(a), Table(a, gone, times[a], total[a], recent[a])
        PROVE  TableHolds'
    BY <1>0, <1>1, <2>1, <2>3 DEF Table
  <2> QED
    BY <1>2, <2>2, <2>3, CheckedTable DEF LimiterIInv
<1>3. ASSUME NEW t \in Thread, Record(t) PROVE TableHolds'
  <2> DEFINE c == RunBy(t)
             last == Latest(recent[at[t]] \cup {c})
  <2>1. runs' = runs \cup {c} /\ at[t] \in Agent /\ now' = now /\ c.agent = at[t]
    BY <1>3, RecordedRun DEF Record, RunBy
  <2>2. PICK gone \in Evicted(at[t]) :
          Table(at[t], gone, times[at[t]] \cup {c}, total[at[t]] + 1, last)
    BY <1>3 DEF Record, RunBy
  <2>3. last \subseteq recent[at[t]] \cup {c}
    BY Parts
  <2>4. \A a \in Agent : times'[a] \cup recent'[a] \subseteq {d \in runs' : d.agent = a}
    BY <1>0, <2>1, <2>2, <2>3 DEF Table
  <2>5. ASSUME NEW a \in Agent \ crowdedOut', NEW d \in runs', d.agent = a, d.at > now' - Minute
        PROVE  d \in times'[a]
    BY <1>0, <2>1, <2>2, <2>5 DEF Table
  <2> QED
    BY <1>1, <2>4, <2>5
<1>4. CASE Gc
  <2> DEFINE gone == {a \in tracked : lastSeen[a] < now - Idle}
  <2>1. UNCHANGED <<now, runs, crowdedOut>>
    BY <1>4 DEF Gc, ghostVars
  <2>2. \A a \in Agent : /\ times'[a] = IF a \in gone THEN {} ELSE After(times[a], now - Idle)
                         /\ recent'[a] = IF a \in gone THEN {} ELSE After(recent[a], now - LoopWindow)
    BY <1>4 DEF Gc
  <2>3. \A a \in Agent : times'[a] \cup recent'[a] \subseteq {d \in runs' : d.agent = a}
    <3>1. \A a \in Agent : times'[a] \subseteq times[a] /\ recent'[a] \subseteq recent[a]
      BY <2>2 DEF After
    <3> QED
      BY <1>0, <2>1, <3>1
  <2>4. ASSUME NEW a \in Agent \ crowdedOut', NEW d \in runs', d.agent = a, d.at > now' - Minute
        PROVE  d \in times'[a]
    <3>1. d \in times[a] /\ d.at > now - Idle /\ d.at \in Nat
      BY <1>0, <2>1, <2>4, Numbers
    <3>2. a \notin gone
      <4>1. d.at <= lastSeen[a] /\ lastSeen[a] \in Nat
        BY <2>1, <2>4 DEF LimiterIInv, RunsInOrder, TypeOK
      <4> QED
        BY <1>0, <3>1, <4>1, Numbers
    <3> QED
      BY <2>2, <3>1, <3>2 DEF After
  <2> QED
    BY <1>1, <2>3, <2>4
<1>5. CASE ReplaceLimits \/ Tick \/ \E t \in Thread : Abandon(t)
  <2>1. UNCHANGED <<times, recent, runs, crowdedOut>> /\ now' \in Nat /\ now <= now'
    BY <1>0, <1>5 DEF ReplaceLimits, Tick, Abandon, tableVars, ghostVars
  <2>2. \A d \in runs : d.at > now' - Minute => d.at > now - Minute
    BY <1>0, <2>1, Numbers
  <2> QED
    BY <1>0, <1>1, <2>1, <2>2
<1> QED
  BY <1>2, <1>3, <1>4, <1>5 DEF Next

LEMMA LimiterStep == LimiterIInv /\ [Next]_vars => LimiterIInv'
<1> SUFFICES ASSUME LimiterIInv, [Next]_vars PROVE LimiterIInv'
  OBVIOUS
<1>1. CASE Next
  BY <1>1, TypesStep, OrderStep, TableStep DEF LimiterIInv
<1>2. CASE UNCHANGED vars
  BY <1>2 DEF vars, tableVars, threadVars, ghostVars, LimiterIInv, TypeOK, RunsInOrder, TableHolds, RunsOf, After
<1> QED
  BY <1>1, <1>2

(* Every reachable state of the limiter is type correct: the table holds   *)
(* MaxAgents agents at most, and RecentMax calls for loops of each.        *)
THEOREM LimiterTypes == Spec => []TypeOK
<1>1. LimiterIInv => TypeOK
  BY DEF LimiterIInv
<1> QED
  BY <1>1, InitTypes, LimiterStep, PTL DEF Spec

-----------------------------------------------------------------------------
(* What a step does to the counts of one agent, when every policy has a    *)
(* limit.                                                                  *)

Limited == \A l \in Limits, pol \in Policy : l[pol] # NoLimit

\* Nothing is added to them.
NothingAdded(a) ==
  /\ now <= now' /\ now' \in Nat
  /\ Serving(a)' \subseteq Serving(a)
  /\ \A p \in Params : Repeating(a, p)' \subseteq Repeating(a, p)
  /\ times'[a] \subseteq times[a] /\ recent'[a] \subseteq recent[a]
  /\ total'[a] <= total[a]

\* A call passes the check.
Passes(a) ==
  /\ UNCHANGED now
  /\ times'[a] = times[a] /\ recent'[a] = recent[a] /\ total'[a] = total[a]
  /\ \E pol \in Policy, p \in Params :
       /\ WithinTotal(a, limits[pol]) /\ WithinMinute(a, limits[pol]) /\ NoLoop(a, p)
       /\ \A q \in Params \ {p} : Repeating(a, q)' = Repeating(a, q)

\* A call runs.
RunsOne(a) ==
  /\ UNCHANGED now
  /\ \E t \in Serving(a) :
       /\ Serving(a)' = Serving(a) \ {t}
       /\ \A p \in Params : Repeating(a, p)' = Repeating(a, p) \ {t}
       /\ times'[a] = times[a] \cup {RunBy(t)}
       /\ recent'[a] \subseteq recent[a] \cup {RunBy(t)}
       /\ total'[a] = total[a] + 1

(* Every step is of these kinds for every agent.                           *)
LEMMA AgentStep ==
  ASSUME LimiterIInv, Limited, Next, NEW b \in Agent
  PROVE  NothingAdded(b) \/ Passes(b) \/ RunsOne(b)
<1>0. /\ now \in Nat /\ total[b] \in Nat /\ limits \in Limits
      /\ at \in [Thread -> Agent \cup {NoAgent}] /\ doing \in [Thread -> Params]
      /\ NoAgent \notin Agent
  BY NoAgentIsNone DEF LimiterIInv, TypeOK
<1>1. ASSUME NEW t \in Thread, NEW a \in Agent, NEW pol \in Policy, NEW p \in Params,
             Check(t, a, pol, p)
      PROVE  NothingAdded(b) \/ Passes(b)
  <2> DEFINE l == limits[pol]
             passes == WithinTotal(a, l) /\ WithinMinute(a, l) /\ NoLoop(a, p)
  <2>1. l # NoLimit
    BY <1>0 DEF Limited
  <2>2. /\ UNCHANGED now /\ at[t] = NoAgent
        /\ at' = [at EXCEPT ![t] = IF passes THEN a ELSE NoAgent]
        /\ doing' = [doing EXCEPT ![t] = IF passes THEN p ELSE @]
    BY <1>1, <2>1 DEF Check
  <2>3. PICK gone \in Evicted(a) : Table(a, gone, times[a], total[a], recent[a])
    BY <1>1, <2>1 DEF Check
  <2>4. CASE b = a /\ passes
    <3>1. times'[b] = times[b] /\ recent'[b] = recent[b] /\ total'[b] = total[b]
      BY <2>3, <2>4 DEF Table
    <3>2. \A q \in Params \ {p} : Repeating(b, q)' = Repeating(b, q)
      BY <1>0, <2>2, <2>4 DEF Repeating, Serving
    <3> QED
      BY <2>2, <2>4, <3>1, <3>2 DEF Passes
  <2>5. CASE ~ (b = a /\ passes)
    <3>1. times'[b] \subseteq times[b] /\ recent'[b] \subseteq recent[b] /\ total'[b] <= total[b]
      BY <1>0, <2>3 DEF Table
    <3>2. Serving(b)' = Serving(b)
      BY <1>0, <2>2, <2>5 DEF Serving
    <3>3. \A q \in Params : Repeating(b, q)' = Repeating(b, q)
      BY <1>0, <2>2, <2>5 DEF Repeating, Serving
    <3> QED
      BY <1>0, <2>2, <3>1, <3>2, <3>3 DEF NothingAdded
  <2> QED
    BY <2>4, <2>5
<1>2. ASSUME NEW t \in Thread, Record(t) PROVE NothingAdded(b) \/ RunsOne(b)
  <2>1. PICK gone \in Evicted(at[t]) :
          Table(at[t], gone, times[at[t]] \cup {RunBy(t)}, total[at[t]] + 1,
                Latest(recent[at[t]] \cup {RunBy(t)}))
    BY <1>2 DEF Record, RunBy
  <2>2. at[t] \in Agent /\ at' = [at EXCEPT ![t] = NoAgent] /\ UNCHANGED <<now, doing>>
    BY <1>0, <1>2 DEF Record
  <2>3. Serving(b)' = Serving(b) \ {t} /\ \A p \in Params : Repeating(b, p)' = Repeating(b, p) \ {t}
    BY <1>0, <2>2 DEF Serving, Repeating
  <2>4. CASE b = at[t]
    <3>1. t \in Serving(b)
      BY <2>4 DEF Serving
    <3>2. times'[b] = times[b] \cup {RunBy(t)} /\ total'[b] = total[b] + 1
          /\ recent'[b] = Latest(recent[b] \cup {RunBy(t)})
      BY <2>1, <2>4 DEF Table
    <3>3. recent'[b] \subseteq recent[b] \cup {RunBy(t)}
      BY <3>2, Parts
    <3> QED
      BY <2>2, <2>3, <3>1, <3>2, <3>3 DEF RunsOne
  <2>5. CASE b # at[t]
    <3>1. times'[b] \subseteq times[b] /\ recent'[b] \subseteq recent[b] /\ total'[b] <= total[b]
      BY <1>0, <2>1, <2>5 DEF Table
    <3> QED
      BY <1>0, <2>2, <2>3, <3>1 DEF NothingAdded
  <2> QED
    BY <2>4, <2>5
<1>3. ASSUME NEW t \in Thread, Abandon(t) PROVE NothingAdded(b)
  <2>1. at' = [at EXCEPT ![t] = NoAgent] /\ UNCHANGED <<now, doing, times, recent, total>>
    BY <1>3 DEF Abandon, tableVars
  <2>2. Serving(b)' \subseteq Serving(b) /\ \A p \in Params : Repeating(b, p)' \subseteq Repeating(b, p)
    BY <1>0, <2>1 DEF Serving, Repeating
  <2> QED
    BY <1>0, <2>1, <2>2 DEF NothingAdded
<1>4. CASE Gc \/ ReplaceLimits \/ Tick
  <2>1. UNCHANGED threadVars /\ now <= now' /\ now' \in Nat
    BY <1>0, <1>4 DEF Gc, ReplaceLimits, Tick
  <2>2. times'[b] \subseteq times[b] /\ recent'[b] \subseteq recent[b] /\ total'[b] <= total[b]
    BY <1>0, <1>4 DEF Gc, ReplaceLimits, Tick, tableVars, After
  <2>3. Serving(b)' = Serving(b) /\ \A p \in Params : Repeating(b, p)' = Repeating(b, p)
    BY <2>1 DEF threadVars, Serving, Repeating
  <2> QED
    BY <2>1, <2>2, <2>3 DEF NothingAdded
<1> QED
  BY <1>1, <1>2, <1>3, <1>4 DEF Next

-----------------------------------------------------------------------------
(* Calls past their check have their place below the limits.               *)

LEMMA LimitsAreLimits ==
  ASSUME NEW n \in Nat, RatesUpTo(n) \/ TotalsUpTo(n)
  PROVE  Limited
<1>1. \A m \in 1 .. n : m # -1
  OBVIOUS
<1>2. NoLimit.perMinute = -1 /\ NoLimit.total = -1
  BY DEF NoLimit
<1> QED
  BY <1>1, <1>2 DEF Limited, RatesUpTo, TotalsUpTo

(* What is counted is finite, and all threads but one overlap with one.    *)
LEMMA Counted ==
  ASSUME LimiterIInv, NEW a \in Agent
  PROVE  /\ \A from : /\ IsFiniteSet(After(times[a], from)) /\ IsFiniteSet(After(recent[a], from))
                      /\ \A p : IsFiniteSet(Alike(After(recent[a], from), p))
         /\ IsFiniteSet(Serving(a)) /\ \A p : IsFiniteSet(Repeating(a, p))
         /\ IsFiniteSet(runs)
<1>1. IsFiniteSet(runs) /\ times[a] \subseteq runs /\ recent[a] \subseteq runs /\ IsFiniteSet(Thread)
  BY LimiterConstants DEF LimiterIInv, TypeOK, TableHolds
<1>2. \A from : After(times[a], from) \subseteq runs /\ After(recent[a], from) \subseteq runs
                /\ \A p : Alike(After(recent[a], from), p) \subseteq runs
  BY <1>1 DEF After, Alike
<1>3. Serving(a) \subseteq Thread /\ \A p : Repeating(a, p) \subseteq Thread
  BY DEF Serving, Repeating
<1> QED
  BY <1>1, <1>2, <1>3, FS_Subset

LEMMA Overlapping ==
  ASSUME NEW S \in SUBSET Thread
  PROVE  Cardinality(S) \in Nat /\ Overlap \in Nat /\ Cardinality(S) <= Overlap + 1
<1>1. IsFiniteSet(Thread) /\ Thread # {}
  BY LimiterConstants
<1>2. Cardinality(Thread) \in Nat /\ Cardinality(Thread) # 0
  BY <1>1, FS_CardinalityType, FS_EmptySet
<1>3. Cardinality(S) \in Nat /\ Cardinality(S) <= Cardinality(Thread)
  BY <1>1, Fewer
<1> QED
  BY <1>2, <1>3 DEF Overlap

(* The calls of the last minute and those past the check.                  *)
LEMMA RateRoomStep ==
  ASSUME LimiterIInv, Next, NEW n \in Nat, RatesUpTo(n), RateRoom(n)
  PROVE  RateRoom(n)'
<1> SUFFICES ASSUME NEW a \in Agent
             PROVE  Cardinality(After(times'[a], now' - Minute)) + Cardinality(Serving(a)')
                      <= n + Overlap
  BY DEF RateRoom, Overlap
<1> DEFINE before == After(times[a], now - Minute)
           after == After(times'[a], now' - Minute)
<1>0. /\ IsFiniteSet(before) /\ IsFiniteSet(Serving(a))
      /\ Cardinality(before) + Cardinality(Serving(a)) <= n + Overlap
      /\ now \in Nat /\ Minute \in Nat /\ Overlap \in Nat
      /\ \A c \in times[a] : c.at \in Nat
  <2>1. Overlap \in Nat
    BY Overlapping
  <2> QED
    BY <2>1, Counted, Numbers DEF RateRoom, LimiterIInv, TypeOK, Run
<1>1. Cardinality(before) \in Nat /\ Cardinality(Serving(a)) \in Nat
  BY <1>0, FS_CardinalityType
<1>2. CASE NothingAdded(a)
  <2>1. after \subseteq before
    BY <1>0, <1>2 DEF NothingAdded, After
  <2>2. Serving(a)' \subseteq Serving(a)
    BY <1>2 DEF NothingAdded
  <2>3. Cardinality(after) <= Cardinality(before) /\ Cardinality(after) \in Nat
    BY <1>0, <2>1, Fewer
  <2>4. Cardinality(Serving(a)') <= Cardinality(Serving(a)) /\ Cardinality(Serving(a)') \in Nat
    BY <1>0, <2>2, Fewer
  <2> QED
    BY <1>0, <1>1, <2>3, <2>4
<1>3. CASE Passes(a)
  <2>1. PICK pol \in Policy : WithinMinute(a, limits[pol])
    BY <1>3 DEF Passes
  <2>2. limits[pol].perMinute \in 1 .. n
    BY DEF RatesUpTo, LimiterIInv, TypeOK
  <2>3. Cardinality(before) < n
    BY <1>1, <2>1, <2>2 DEF WithinMinute
  <2>4. after = before
    BY <1>3 DEF Passes
  <2>5. Cardinality(Serving(a)') \in Nat /\ Cardinality(Serving(a)') <= Overlap + 1
    <3>1. Serving(a)' \subseteq Thread
      BY DEF Serving
    <3> QED
      BY <3>1, Overlapping
  <2> QED
    BY <1>0, <1>1, <2>3, <2>4, <2>5
<1>4. CASE RunsOne(a)
  <2>1. PICK t \in Serving(a) : /\ Serving(a)' = Serving(a) \ {t}
                                /\ times'[a] = times[a] \cup {RunBy(t)}
    BY <1>4 DEF RunsOne
  <2>2. after \subseteq before \cup {RunBy(t)}
    BY <1>4, <2>1 DEF RunsOne, After
  <2>3. /\ IsFiniteSet(before \cup {RunBy(t)}) /\ Cardinality(before \cup {RunBy(t)}) \in Nat
        /\ Cardinality(before \cup {RunBy(t)}) <= Cardinality(before) + 1
    BY <1>0, OneMore
  <2>4. Cardinality(after) <= Cardinality(before \cup {RunBy(t)}) /\ Cardinality(after) \in Nat
    BY <2>2, <2>3, Fewer
  <2>5. Cardinality(Serving(a)') = Cardinality(Serving(a)) - 1
    BY <1>0, <2>1, OneMore
  <2> QED
    BY <1>0, <1>1, <2>3, <2>4, <2>5
<1> QED
  BY <1>2, <1>3, <1>4, AgentStep, LimitsAreLimits

(* The total and the calls past the check.                                 *)
LEMMA TotalRoomStep ==
  ASSUME LimiterIInv, Next, NEW n \in Nat, TotalsUpTo(n), TotalRoom(n), LimiterIInv'
  PROVE  TotalRoom(n)'
<1> SUFFICES ASSUME NEW a \in Agent
             PROVE  total'[a] + Cardinality(Serving(a)') <= n + Overlap
  BY DEF TotalRoom, Overlap
<1>0. /\ IsFiniteSet(Serving(a)) /\ total[a] \in Nat /\ total'[a] \in Nat
      /\ total[a] + Cardinality(Serving(a)) <= n + Overlap
  BY Counted DEF TotalRoom, LimiterIInv, TypeOK
<1>1. Cardinality(Serving(a)) \in Nat /\ Overlap \in Nat
  BY <1>0, FS_CardinalityType, Overlapping
<1>2. CASE NothingAdded(a)
  <2>1. Cardinality(Serving(a)') <= Cardinality(Serving(a)) /\ Cardinality(Serving(a)') \in Nat
    BY <1>0, <1>2, Fewer DEF NothingAdded
  <2> QED
    BY <1>0, <1>1, <1>2, <2>1 DEF NothingAdded
<1>3. CASE Passes(a)
  <2>1. PICK pol \in Policy : WithinTotal(a, limits[pol])
    BY <1>3 DEF Passes
  <2>2. limits[pol].total \in 1 .. n
    BY DEF TotalsUpTo, LimiterIInv, TypeOK
  <2>3. total'[a] < n
    BY <1>0, <1>3, <2>1, <2>2 DEF WithinTotal, Passes
  <2>4. Cardinality(Serving(a)') \in Nat /\ Cardinality(Serving(a)') <= Overlap + 1
    <3>1. Serving(a)' \subseteq Thread
      BY DEF Serving
    <3> QED
      BY <3>1, Overlapping
  <2> QED
    BY <1>0, <1>1, <2>3, <2>4
<1>4. CASE RunsOne(a)
  <2>1. PICK t \in Serving(a) : Serving(a)' = Serving(a) \ {t}
    BY <1>4 DEF RunsOne
  <2>2. Cardinality(Serving(a)') = Cardinality(Serving(a)) - 1
    BY <1>0, <2>1, OneMore
  <2> QED
    BY <1>0, <1>1, <1>4, <2>2 DEF RunsOne
<1> QED
  BY <1>2, <1>3, <1>4, AgentStep, LimitsAreLimits

(* The repeated calls of a window and those past the check.                *)
LEMMA LoopRoomStep ==
  ASSUME LimiterIInv, Next, Limited, LoopRoom
  PROVE  LoopRoom'
<1> SUFFICES ASSUME NEW a \in Agent, NEW p \in Params
             PROVE  Cardinality(Alike(After(recent'[a], now' - LoopWindow), p))
                      + Cardinality(Repeating(a, p)') <= LoopMax + Overlap
  BY DEF LoopRoom, Overlap
<1> DEFINE before == Alike(After(recent[a], now - LoopWindow), p)
           after == Alike(After(recent'[a], now' - LoopWindow), p)
<1>0. /\ IsFiniteSet(before) /\ IsFiniteSet(Repeating(a, p)) /\ IsFiniteSet(Serving(a))
      /\ Cardinality(before) + Cardinality(Repeating(a, p)) <= LoopMax + Overlap
      /\ now \in Nat /\ LoopWindow \in Nat /\ LoopMax \in Nat /\ Overlap \in Nat
      /\ \A c \in recent[a] : c.at \in Nat
  <2>1. Overlap \in Nat
    BY Overlapping
  <2> QED
    BY <2>1, Counted, Numbers DEF LoopRoom, LimiterIInv, TypeOK, Run
<1>1. Cardinality(before) \in Nat /\ Cardinality(Repeating(a, p)) \in Nat
  BY <1>0, FS_CardinalityType
<1>2. ASSUME after \subseteq before, Repeating(a, p)' \subseteq Repeating(a, p)
      PROVE  Cardinality(after) + Cardinality(Repeating(a, p)') <= LoopMax + Overlap
  <2>1. Cardinality(after) <= Cardinality(before) /\ Cardinality(after) \in Nat
    BY <1>0, <1>2, Fewer
  <2>2. /\ Cardinality(Repeating(a, p)') <= Cardinality(Repeating(a, p))
        /\ Cardinality(Repeating(a, p)') \in Nat
    BY <1>0, <1>2, Fewer
  <2> QED
    BY <1>0, <1>1, <2>1, <2>2
<1>3. CASE NothingAdded(a)
  <2>1. after \subseteq before
    BY <1>0, <1>3 DEF NothingAdded, After, Alike
  <2> QED
    BY <1>2, <1>3, <2>1 DEF NothingAdded
<1>4. CASE Passes(a)
  <2>1. after = before
    BY <1>4 DEF Passes
  <2>2. PICK q \in Params : NoLoop(a, q) /\ \A r \in Params \ {q} : Repeating(a, r)' = Repeating(a, r)
    BY <1>4 DEF Passes
  <2>3. CASE q = p
    <3>1. Cardinality(before) < LoopMax
      BY <2>2, <2>3 DEF NoLoop
    <3>2. Cardinality(Repeating(a, p)') \in Nat /\ Cardinality(Repeating(a, p)') <= Overlap + 1
      <4>1. Repeating(a, p)' \subseteq Thread
        BY DEF Repeating, Serving
      <4> QED
        BY <4>1, Overlapping
    <3> QED
      BY <1>0, <1>1, <2>1, <3>1, <3>2
  <2>4. CASE q # p
    BY <1>2, <2>1, <2>2, <2>4
  <2> QED
    BY <2>3, <2>4
<1>5. CASE RunsOne(a)
  <2>1. PICK t \in Serving(a) : /\ Repeating(a, p)' = Repeating(a, p) \ {t}
                                /\ recent'[a] \subseteq recent[a] \cup {RunBy(t)}
    BY <1>5 DEF RunsOne
  <2>2. CASE doing[t] = p
    <3>1. after \subseteq before \cup {RunBy(t)}
      BY <1>5, <2>1 DEF RunsOne, After, Alike
    <3>2. /\ IsFiniteSet(before \cup {RunBy(t)}) /\ Cardinality(before \cup {RunBy(t)}) \in Nat
          /\ Cardinality(before \cup {RunBy(t)}) <= Cardinality(before) + 1
      BY <1>0, OneMore
    <3>3. Cardinality(after) <= Cardinality(before \cup {RunBy(t)}) /\ Cardinality(after) \in Nat
      BY <3>1, <3>2, Fewer
    <3>4. t \in Repeating(a, p)
      BY <2>2 DEF Repeating
    <3>5. Cardinality(Repeating(a, p)') = Cardinality(Repeating(a, p)) - 1
      BY <1>0, <2>1, <3>4, OneMore
    <3> QED
      BY <1>0, <1>1, <3>2, <3>3, <3>5
  <2>3. CASE doing[t] # p
    <3>1. after \subseteq before
      BY <1>5, <2>1, <2>3 DEF RunsOne, After, Alike, RunBy
    <3> QED
      BY <1>2, <2>1, <3>1
  <2> QED
    BY <2>2, <2>3
<1> QED
  BY <1>3, <1>4, <1>5, AgentStep

(* The rate is held.                                                       *)
LEMMA RateFromRoom ==
  ASSUME LimiterIInv, NEW n \in Nat, RateRoom(n), NEW a \in Agent \ crowdedOut
  PROVE  Cardinality(RunsOf(a, now - Minute)) <= n + Overlap
<1>1. RunsOf(a, now - Minute) \subseteq After(times[a], now - Minute)
  BY DEF LimiterIInv, TableHolds, RunsOf, After
<1>2. IsFiniteSet(After(times[a], now - Minute)) /\ IsFiniteSet(Serving(a))
  BY Counted
<1>3. /\ Cardinality(RunsOf(a, now - Minute)) <= Cardinality(After(times[a], now - Minute))
      /\ Cardinality(RunsOf(a, now - Minute)) \in Nat
      /\ Cardinality(After(times[a], now - Minute)) \in Nat
  BY <1>1, <1>2, Fewer
<1>4. Cardinality(Serving(a)) \in Nat /\ Overlap \in Nat
  BY <1>2, FS_CardinalityType, Overlapping
<1>5. Cardinality(After(times[a], now - Minute)) + Cardinality(Serving(a)) <= n + Overlap
  BY DEF RateRoom
<1> QED
  BY <1>3, <1>4, <1>5

(* An agent is seen whenever its entry is touched.                         *)
LEMMA SeenStep ==
  ASSUME LimiterIInv, Limited, Next, TotalCounts
  PROVE  /\ TotalCounts'
         /\ \A b \in Agent \ crowdedOut' :
              sinceRest'[b] <= total'[b] \/ (sinceRest'[b] = sinceRest[b] /\ b \notin crowdedOut)
<1>0. /\ now \in Nat /\ seen \in [Agent -> 0 .. MaxNow] /\ seen = lastSeen
      /\ sinceRest \in [Agent -> Nat] /\ total \in [Agent -> Nat] /\ Idle \in Nat
      /\ \A b \in Agent : seen[b] \in Nat
      /\ \A b \in Agent \ crowdedOut : sinceRest[b] <= total[b] \/ now - seen[b] > Idle
      /\ limits \in Limits
  BY Numbers DEF LimiterIInv, TypeOK, TotalCounts
<1>1. ASSUME NEW a \in Agent, NEW run \in {0, 1}, NEW gone, a \notin gone,
             NEW calls, NEW last, UNCHANGED now,
             Table(a, gone, calls, total[a] + run, last), Seen(a, run)
      PROVE  /\ TotalCounts'
             /\ \A b \in Agent \ crowdedOut' :
                  sinceRest'[b] <= total'[b] \/ (sinceRest'[b] = sinceRest[b] /\ b \notin crowdedOut)
  <2>1. \A b \in Agent : /\ seen'[b] = IF b = a THEN now ELSE seen[b]
                         /\ lastSeen'[b] = IF b = a THEN now ELSE lastSeen[b]
                         /\ total'[b] = IF b = a THEN total[b] + run
                                        ELSE IF b \in gone THEN 0 ELSE total[b]
    BY <1>0, <1>1 DEF Table, Seen
  <2>2. seen' = lastSeen'
    BY <1>0, <1>1 DEF Table, Seen
  <2>3. \A b \in Agent : sinceRest'[b] = IF b = a THEN run + (IF now - seen[a] > Idle THEN 0 ELSE sinceRest[a])
                                         ELSE sinceRest[b]
    BY <1>0, <1>1 DEF Seen
  <2>4. crowdedOut' = crowdedOut \cup gone
    BY <1>1 DEF Table
  <2>5. ASSUME NEW b \in Agent \ crowdedOut', b = a
        PROVE  sinceRest'[b] <= total'[b]
    <3>1. CASE now - seen[a] > Idle
      BY <1>0, <2>1, <2>3, <2>5, <3>1
    <3>2. CASE ~ (now - seen[a] > Idle)
      <4>1. sinceRest[a] <= total[a]
        BY <1>0, <2>4, <2>5, <3>2
      <4> QED
        BY <1>0, <2>1, <2>3, <2>5, <3>2, <4>1
    <3> QED
      BY <3>1, <3>2
  <2>6. ASSUME NEW b \in Agent \ crowdedOut', b # a
        PROVE  /\ sinceRest'[b] = sinceRest[b] /\ b \notin crowdedOut
               /\ sinceRest'[b] <= total'[b] \/ now' - seen'[b] > Idle
    BY <1>0, <1>1, <2>1, <2>3, <2>4, <2>6
  <2> QED
    BY <2>2, <2>5, <2>6 DEF TotalCounts
<1>2. ASSUME NEW t \in Thread, NEW a \in Agent, NEW pol \in Policy, NEW p \in Params,
             Check(t, a, pol, p)
      PROVE  /\ TotalCounts'
             /\ \A b \in Agent \ crowdedOut' :
                  sinceRest'[b] <= total'[b] \/ (sinceRest'[b] = sinceRest[b] /\ b \notin crowdedOut)
  <2>1. PICK gone \in Evicted(a) : Table(a, gone, times[a], total[a], recent[a])
    BY <1>0, <1>2 DEF Check, Limited
  <2>2. a \notin gone /\ total[a] = total[a] + 0 /\ UNCHANGED now /\ Seen(a, 0)
    <3>1. a \notin gone
      BY RoomIsMade DEF LimiterIInv
    <3>2. UNCHANGED now /\ Seen(a, 0)
      BY <1>2 DEF Check
    <3> QED
      BY <1>0, <3>1, <3>2
  <2> QED
    BY <1>1, <2>1, <2>2
<1>3. ASSUME NEW t \in Thread, Record(t)
      PROVE  /\ TotalCounts'
             /\ \A b \in Agent \ crowdedOut' :
                  sinceRest'[b] <= total'[b] \/ (sinceRest'[b] = sinceRest[b] /\ b \notin crowdedOut)
  <2>1. at[t] \in Agent /\ UNCHANGED now /\ Seen(at[t], 1)
    BY <1>3 DEF Record, LimiterIInv, TypeOK
  <2>2. PICK gone \in Evicted(at[t]) :
          Table(at[t], gone, times[at[t]] \cup {RunBy(t)}, total[at[t]] + 1,
                Latest(recent[at[t]] \cup {RunBy(t)}))
    BY <1>3 DEF Record, RunBy
  <2>3. at[t] \notin gone
    BY <2>1, RoomIsMade DEF LimiterIInv
  <2> QED
    BY <1>1, <2>1, <2>2, <2>3
<1>4. CASE Gc
  <2>1. UNCHANGED <<now, seen, lastSeen, sinceRest, crowdedOut>>
    BY <1>4 DEF Gc, ghostVars
  <2>2. \A b \in Agent : total'[b] = total[b] \/ (total'[b] = 0 /\ lastSeen[b] < now - Idle)
    BY <1>4 DEF Gc
  <2> QED
    BY <1>0, <2>1, <2>2 DEF TotalCounts
<1>5. CASE ReplaceLimits \/ Tick \/ \E t \in Thread : Abandon(t)
  <2>1. UNCHANGED <<seen, lastSeen, sinceRest, crowdedOut, total>> /\ now' \in Nat /\ now <= now'
    BY <1>0, <1>5 DEF ReplaceLimits, Tick, Abandon, tableVars, ghostVars
  <2> QED
    BY <1>0, <2>1 DEF TotalCounts
<1> QED
  BY <1>2, <1>3, <1>4, <1>5 DEF Next

(* The calls of a window are among the recent ones, if there are not more  *)
(* in a minute than those that are kept.                                   *)
LEMMA RecentStep ==
  ASSUME LimiterIInv, LimiterIInv', Next, NEW n \in Nat, n + Overlap <= RecentMax,
         RateRoom(n)', RecentHolds
  PROVE  RecentHolds'
<1>0. /\ now \in Nat /\ now' \in Nat
      /\ \A c \in runs : c.agent \in Agent /\ c.at \in Nat
      /\ \A a \in Agent \ crowdedOut, c \in runs : c.agent = a /\ c.at > now - LoopWindow => c \in recent[a]
  BY DEF LimiterIInv, TypeOK, RecentHolds, RunsOf, After, Run
<1>1. ASSUME \A a \in Agent \ crowdedOut', c \in runs' :
               c.agent = a /\ c.at > now' - LoopWindow => c \in recent'[a]
      PROVE  RecentHolds'
  BY <1>1 DEF RecentHolds, RunsOf, After
<1>2. ASSUME NEW t \in Thread, NEW a \in Agent, NEW pol \in Policy, NEW p \in Params,
             Check(t, a, pol, p)
      PROVE  RecentHolds'
  <2>1. UNCHANGED <<now, runs>>
    BY <1>2 DEF Check
  <2>2. CASE UNCHANGED <<tableVars, crowdedOut>>
    BY <1>0, <1>1, <2>1, <2>2 DEF tableVars
  <2>3. ASSUME NEW gone \in Evicted(a), Table(a, gone, times[a], total[a], recent[a])
        PROVE  RecentHolds'
    BY <1>0, <1>1, <2>1, <2>3 DEF Table
  <2> QED
    BY <1>2, <2>2, <2>3, CheckedTable DEF LimiterIInv
<1>3. ASSUME NEW t \in Thread, Record(t) PROVE RecentHolds'
  <2>0. PICK a \in Agent : a = at[t]
    BY <1>3, RecordedRun
  <2> DEFINE c == RunBy(t)
             S == recent[a] \cup {c}
  <2>1. /\ runs' = runs \cup {c} /\ UNCHANGED now /\ c.agent = a
        /\ IsFiniteSet(runs')
    BY <1>3, <2>0, RecordedRun DEF Record, RunBy
  <2>2. PICK gone \in Evicted(a) : Table(a, gone, times[a] \cup {c}, total[a] + 1, Latest(S))
    BY <1>3, <2>0 DEF Record, RunBy
  <2>3. ASSUME NEW d \in S, a \notin crowdedOut', d.at > now - LoopWindow
        PROVE  d \in Latest(S)
    <3> DEFINE D == {e \in S : e.n > d.n}
               minute == {e \in runs' : e.agent = a /\ e.at > now' - Minute}
    <3>1. S \subseteq {e \in runs' : e.agent = a}
      BY <2>1 DEF LimiterIInv, TableHolds
    <3>2. \A e \in runs' : e.at \in Nat /\ e.n \in Nat
      BY DEF LimiterIInv, TypeOK, Run
    <3>3. D \cup {d} \subseteq minute
      <4>1. \A e \in D : d.at <= e.at
        BY <3>1, <3>2 DEF LimiterIInv, RunsInOrder
      <4> QED
        BY <1>0, <2>1, <2>3, <3>1, <3>2, <4>1, Numbers
    <3>4. minute \subseteq After(times'[a], now' - Minute)
      BY <2>1, <2>3 DEF LimiterIInv, TableHolds, RunsOf, After
    <3>5. IsFiniteSet(After(times'[a], now' - Minute))
      <4>1. After(times'[a], now' - Minute) \subseteq runs'
        BY <2>1 DEF LimiterIInv, TableHolds, After
      <4> QED
        BY <2>1, <4>1, FS_Subset
    <3>6. /\ Cardinality(D \cup {d}) <= Cardinality(After(times'[a], now' - Minute))
          /\ Cardinality(D \cup {d}) \in Nat
          /\ Cardinality(After(times'[a], now' - Minute)) \in Nat
          /\ IsFiniteSet(D)
      <4>1. D \cup {d} \subseteq After(times'[a], now' - Minute)
        BY <3>3, <3>4
      <4>2. D \subseteq D \cup {d}
        OBVIOUS
      <4> QED
        BY <3>5, <4>1, <4>2, Fewer
    <3>7. Cardinality(D \cup {d}) = Cardinality(D) + 1 /\ Cardinality(D) \in Nat
      <4>1. d \notin D
        BY <3>1, <3>2
      <4> QED
        BY <3>6, <4>1, OneMore
    <3>8. Cardinality(After(times'[a], now' - Minute)) + Cardinality(Serving(a)') <= n + Overlap
      BY DEF RateRoom, Overlap
    <3>9. Cardinality(Serving(a)') \in Nat /\ Overlap \in Nat
      <4>1. Serving(a)' \subseteq Thread
        BY DEF Serving
      <4> QED
        BY <4>1, Overlapping
    <3>10. Cardinality(D) < RecentMax
      BY <3>6, <3>7, <3>8, <3>9, Numbers
    <3> QED
      BY <3>10 DEF Latest
  <2>4. ASSUME NEW b \in Agent \ crowdedOut', NEW d \in runs', d.agent = b, d.at > now' - LoopWindow
        PROVE  d \in recent'[b]
    <3>1. CASE b = a
      <4>1. d \in S
        BY <1>0, <2>1, <2>2, <2>4, <3>1 DEF Table
      <4> QED
        BY <2>1, <2>2, <2>3, <2>4, <3>1, <4>1 DEF Table
    <3>2. CASE b # a
      BY <1>0, <2>1, <2>2, <2>4, <3>2 DEF Table
    <3> QED
      BY <3>1, <3>2
  <2> QED
    BY <1>1, <2>4
<1>4. CASE Gc
  <2> DEFINE gone == {a \in tracked : lastSeen[a] < now - Idle}
  <2>1. UNCHANGED <<now, runs, crowdedOut>>
    BY <1>4 DEF Gc, ghostVars
  <2>2. \A a \in Agent : recent'[a] = IF a \in gone THEN {} ELSE After(recent[a], now - LoopWindow)
    BY <1>4 DEF Gc
  <2>3. ASSUME NEW a \in Agent \ crowdedOut', NEW d \in runs', d.agent = a, d.at > now' - LoopWindow
        PROVE  d \in recent'[a]
    <3>1. d \in recent[a] /\ d.at > now - Idle /\ d.at \in Nat
      BY <1>0, <2>1, <2>3, Numbers
    <3>2. a \notin gone
      <4>1. d.at <= lastSeen[a] /\ lastSeen[a] \in Nat
        BY <2>1, <2>3 DEF LimiterIInv, RunsInOrder, TypeOK
      <4> QED
        BY <1>0, <3>1, <4>1, Numbers
    <3> QED
      BY <2>1, <2>2, <2>3, <3>1, <3>2 DEF After
  <2> QED
    BY <1>1, <2>3
<1>5. CASE ReplaceLimits \/ Tick \/ \E t \in Thread : Abandon(t)
  <2>1. UNCHANGED <<recent, runs, crowdedOut>> /\ now <= now'
    BY <1>0, <1>5 DEF ReplaceLimits, Tick, Abandon, tableVars, ghostVars
  <2>2. \A d \in runs : d.at > now' - LoopWindow => d.at > now - LoopWindow
    BY <1>0, <2>1, Numbers
  <2> QED
    BY <1>0, <1>1, <2>1, <2>2
<1> QED
  BY <1>2, <1>3, <1>4, <1>5 DEF Next

-----------------------------------------------------------------------------
(* The theorems *)

LEMMA InitRoom == Init => RoomIInv
<1> SUFFICES ASSUME Init PROVE RoomIInv
  OBVIOUS
<1>1. LimiterIInv
  BY InitTypes
<1>2. Overlap \in Nat
  BY Overlapping
<1>3. \A a \in Agent : Serving(a) = {} /\ \A p : Repeating(a, p) = {}
  BY NoAgentIsNone DEF Init, Serving, Repeating
<1>4. /\ \A a \in Agent : \A from : After(times[a], from) = {}
      /\ \A a \in Agent : \A from, p : Alike(After(recent[a], from), p) = {}
      /\ \A a \in Agent : \A from : RunsOf(a, from) = {}
  BY DEF Init, After, Alike, RunsOf
<1>0. Cardinality({}) = 0
  BY FS_EmptySet
<1>5. ASSUME NEW n \in 1 .. MaxRuns PROVE RateRoom(n) /\ TotalRoom(n)
  <2>1. 0 + 0 <= n + Overlap
    BY <1>2, Numbers
  <2>2. RateRoom(n)
    BY <1>0, <1>3, <1>4, <2>1 DEF RateRoom
  <2>3. TotalRoom(n)
    BY <1>0, <1>3, <2>1 DEF Init, TotalRoom
  <2> QED
    BY <2>2, <2>3
<1>6. LoopRoom
  <2>1. 0 + 0 <= LoopMax + Overlap
    BY <1>2, Numbers
  <2> QED
    BY <1>0, <1>3, <1>4, <2>1 DEF LoopRoom
<1>7. RecentHolds /\ TotalCounts
  BY <1>4 DEF Init, RecentHolds, TotalCounts
<1>8. BudgetHeld
  BY <1>2, Numbers DEF Init, BudgetHeld
<1> QED
  BY <1>1, <1>5, <1>6, <1>7, <1>8 DEF RoomIInv

LEMMA RoomStep == RoomIInv /\ [Next]_vars => RoomIInv'
<1> SUFFICES ASSUME RoomIInv, [Next]_vars PROVE RoomIInv'
  OBVIOUS
<1>1. LimiterIInv /\ LimiterIInv'
  BY LimiterStep DEF RoomIInv
<1>2. CASE UNCHANGED vars
  BY <1>1, <1>2 DEF vars, tableVars, threadVars, ghostVars, RoomIInv, RateRoom, TotalRoom, LoopRoom,
       TotalCounts, RecentHolds, BudgetHeld, RunsOf, After, Alike, Serving, Repeating, RatesUpTo,
       TotalsUpTo, Overlap
<1>3. CASE Next
  <2>1. ASSUME NEW n \in 1 .. MaxRuns, RatesUpTo(n)
        PROVE  RateRoom(n)' /\ LoopRoom'
    BY <1>1, <1>3, <2>1, Numbers, RateRoomStep, LoopRoomStep, LimitsAreLimits DEF RoomIInv
  <2>2. ASSUME NEW n \in 1 .. MaxRuns, RatesUpTo(n), n + Overlap <= RecentMax
        PROVE  RecentHolds'
    BY <1>1, <1>3, <2>1, <2>2, Numbers, RecentStep DEF RoomIInv
  <2>3. ASSUME NEW n \in 1 .. MaxRuns, TotalsUpTo(n)
        PROVE  /\ TotalRoom(n)' /\ TotalCounts'
               /\ \A b \in Agent \ crowdedOut' :
                    sinceRest'[b] <= total'[b] \/ (sinceRest'[b] = sinceRest[b] /\ b \notin crowdedOut)
    BY <1>1, <1>3, <2>3, Numbers, TotalRoomStep, SeenStep, LimitsAreLimits DEF RoomIInv
  <2>4. ASSUME NEW n \in 1 .. MaxRuns, TotalsUpTo(n), NEW b \in Agent \ crowdedOut'
        PROVE  sinceRest'[b] <= n + Overlap
    <3>1. total'[b] + Cardinality(Serving(b)') <= n + Overlap
      BY <2>3, <2>4 DEF TotalRoom, Overlap
    <3>2. Serving(b)' \subseteq Thread
      BY DEF Serving
    <3>3. Cardinality(Serving(b)') \in Nat /\ Overlap \in Nat
      BY <3>2, Overlapping
    <3>4. total'[b] \in Nat /\ sinceRest'[b] \in Nat
      BY <1>1 DEF LimiterIInv, TypeOK
    <3>5. sinceRest'[b] <= total'[b] \/ (sinceRest'[b] = sinceRest[b] /\ b \notin crowdedOut)
      BY <2>3, <2>4
    <3>6. b \notin crowdedOut => sinceRest[b] <= n + Overlap
      BY <2>4 DEF RoomIInv, BudgetHeld
    <3> QED
      BY <3>1, <3>3, <3>4, <3>5, <3>6
  <2>5. BudgetHeld'
    BY <2>4 DEF BudgetHeld, TotalsUpTo, Overlap
  <2> QED
    BY <1>1, <2>1, <2>2, <2>3, <2>5 DEF RoomIInv, RatesUpTo, TotalsUpTo, Overlap
<1> QED
  BY <1>2, <1>3

(* The room left below the limits is an invariant of the limiter.          *)
THEOREM LimiterInvariant == Spec => []RoomIInv
  BY InitRoom, RoomStep, PTL DEF Spec

(* max_per_minute: if every configuration limits every policy, no agent    *)
(* that was never pushed out of the table runs more calls in a minute than *)
(* the largest limit and the calls that overlap, whatever policies its     *)
(* calls match, reloads install and Gc forgets.                            *)
THEOREM RateIsHeld == Spec => []RateHeld
<1>1. RoomIInv => RateHeld
  <2> SUFFICES ASSUME RoomIInv, NEW n \in 1 .. MaxRuns, RatesUpTo(n), NEW a \in Agent \ crowdedOut
               PROVE  Cardinality(RunsOf(a, now - Minute)) <= n + Overlap
    BY DEF RateHeld
  <2>1. LimiterIInv /\ RateRoom(n) /\ n \in Nat
    BY Numbers DEF RoomIInv
  <2> QED
    BY <2>1, RateFromRoom
<1> QED
  BY <1>1, LimiterInvariant, PTL

(* max_total: no such agent runs more calls without resting for Idle than  *)
(* the largest total and the calls that overlap.                           *)
THEOREM BudgetIsHeld == Spec => []BudgetHeld
<1>1. RoomIInv => BudgetHeld
  BY DEF RoomIInv
<1> QED
  BY <1>1, LimiterInvariant, PTL

\* Every policy has a rate, and recent holds the calls of a minute at it.
RecentSuffices == \E n \in 1 .. MaxRuns : RatesUpTo(n) /\ n + Overlap <= RecentMax

(* Loop detection: under those limits no such agent runs the same call     *)
(* more often in a window than LoopMax and the calls that overlap.         *)
THEOREM LoopsAreBroken == RecentSuffices => (Spec => []LoopBroken)
<1> SUFFICES ASSUME RecentSuffices PROVE Spec => []LoopBroken
  OBVIOUS
<1>1. RoomIInv => LoopBroken
  <2> SUFFICES ASSUME RoomIInv, NEW a \in Agent \ crowdedOut, NEW p \in Params
               PROVE  Cardinality(Alike(RunsOf(a, now - LoopWindow), p)) <= LoopMax + Overlap
    BY DEF LoopBroken
  <2> DEFINE same == Alike(RunsOf(a, now - LoopWindow), p)
             known == Alike(After(recent[a], now - LoopWindow), p)
  <2>1. LimiterIInv /\ RecentHolds /\ LoopRoom
    BY DEF RoomIInv, RecentSuffices
  <2>2. same \subseteq known
    BY <2>1 DEF RecentHolds, RunsOf, After, Alike
  <2>3. IsFiniteSet(known) /\ IsFiniteSet(Repeating(a, p))
    BY <2>1, Counted
  <2>4. /\ Cardinality(same) <= Cardinality(known) /\ Cardinality(same) \in Nat
        /\ Cardinality(known) \in Nat
    <3> HIDE DEF same, known
    <3> QED
      BY <2>2, <2>3, Fewer
  <2>5. Cardinality(known) + Cardinality(Repeating(a, p)) <= LoopMax + Overlap
    BY <2>1 DEF LoopRoom
  <2>6. Cardinality(Repeating(a, p)) \in Nat /\ Overlap \in Nat /\ LoopMax \in Nat
    BY <2>3, FS_CardinalityType, Overlapping, Numbers
  <2> QED
    BY <2>4, <2>5, <2>6
<1> QED
  BY <1>1, LimiterInvariant, PTL
=============================================================================
