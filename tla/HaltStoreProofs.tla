---------------------------- MODULE HaltStoreProofs ----------------------------
(***************************************************************************)
(* What holds of the stops and of the grants they take away, for any       *)
(* number of processes, stops and grants, however statements fail and      *)
(* processes crash, and however many requests are served at a time: that a *)
(* stop reaches every process and stays known there, and that the grants   *)
(* on its record are not lost.                                             *)
(***************************************************************************)
EXTENDS HaltStore, TLAPS

USE HaltConstants

-----------------------------------------------------------------------------
(* Types *)

LEMMA Rows ==
  /\ NoRows \in [Stop -> Row]
  /\ InForce(NoRows) = {}
  /\ \A h \in Stop : NoRows[h].state = "none" /\ NoRows[h].revoked = {} /\ NoRows[h].created = 0
  BY DEF NoRows, Row, AnyTarget, InForce

LEMMA InitTypes == Init => TypeOK
  BY Rows DEF Init, TypeOK, Steps, AnyTarget

(* Statements are carried out for some of what they were meant for.        *)
LEMMA WrittenPart == \A S, W : W \in Written(S) => W \subseteq S
  BY DEF Written

(* A request that is answered leaves its variables typed.                  *)
LEMMA DoneTypes ==
  ASSUME TypeOK, NEW t \in Thread, Done(t)
  PROVE  /\ op' \in [Thread -> {"start", "resume", "match"}]
         /\ about' \in [Thread -> Target \cup Stop]
         /\ step' \in [Thread -> Steps] /\ hand' \in [Thread -> SUBSET Grant]
         /\ read' \in [Thread -> [Stop -> Row]] /\ save' \in [Thread -> Grant \cup {NoGrant}]
<1>1. AnyTarget \in Target
  BY DEF AnyTarget
<1> QED
  BY <1>1, Rows DEF Done, Goto, TypeOK, Steps

(* The lists of the stops in force.                                        *)
LEMMA ListsTypes == \A r \in [Stop -> Row] : Lists(r) \in [Stop -> SUBSET Grant]
  BY DEF Lists, Row, InForce

(* One stop's grants of one process change.                                *)
LEMMA KeptTypes ==
  ASSUME kept \in [Proc -> [Stop -> SUBSET Grant]], NEW p \in Proc, NEW h \in Stop,
         NEW G \in SUBSET Grant
  PROVE  [kept EXCEPT ![p][h] = G] \in [Proc -> [Stop -> SUBSET Grant]]
<1>1. [kept[p] EXCEPT ![h] = G] \in [Stop -> SUBSET Grant]
  OBVIOUS
<1> QED
  BY <1>1

(* Changes of a row. *)
LEMMA RowChanges ==
  ASSUME NEW r \in Row
  PROVE  /\ [r EXCEPT !.state = "resumed"] \in Row
         /\ \A G \in SUBSET Grant :
              LET changed == [r EXCEPT !.revoked = G]
              IN  /\ changed \in Row /\ changed.revoked = G /\ changed.target = r.target
                  /\ changed.state = r.state /\ changed.created = r.created
<1>1. PICK k \in Target, s \in {"none", "active", "resumed"}, c \in 0 .. MaxNow, R \in SUBSET Grant :
        r = [target |-> k, state |-> s, created |-> c, revoked |-> R]
  BY DEF Row
<1>2. [r EXCEPT !.state = "resumed"] = [target |-> k, state |-> "resumed", created |-> c, revoked |-> R]
  BY <1>1
<1>3. ASSUME NEW G \in SUBSET Grant
      PROVE  [r EXCEPT !.revoked = G] = [target |-> k, state |-> s, created |-> c, revoked |-> G]
  BY <1>1
<1> QED
  BY <1>2, <1>3 DEF Row

(* Every step of a request keeps the types.                                *)
LEMMA ThreadTypes ==
  ASSUME TypeOK, RequestTypes, NEW t \in Thread, ThreadStep(t)
  PROVE  TypeOK'
<1> DEFINE p == at[t]
<1>1. CASE SkipReload(t) \/ QueryFails(t)
  BY <1>1 DEF SkipReload, QueryFails, Goto, TypeOK, Steps, haltVars, grantVars
<1>2. CASE QueryHalts(t)
  BY <1>2 DEF QueryHalts, Goto, TypeOK, Steps, haltVars, grantVars
<1>3. CASE SwapHalts(t)
  <2>1. InForce(read[t]) \in SUBSET Stop
    BY DEF InForce
  <2>2. Lists(read[t]) \in [Stop -> SUBSET Grant]
    BY ListsTypes DEF TypeOK
  <2> QED
    BY <1>3, <2>1, <2>2, Rows DEF SwapHalts, Goto, TypeOK, Steps, grantVars
<1>4. CASE Match(t) \/ StartNothing(t) \/ NoStopLeft(t) \/ ResumeNothing(t) \/ RestoreDone(t)
  BY <1>4, DoneTypes DEF Match, StartNothing, NoStopLeft, ResumeNothing, RestoreDone, TypeOK,
       haltVars, grantVars
<1>5. ASSUME NEW h \in Stop, StartStop(t, h) PROVE TypeOK'
  <2> DEFINE begun == [target |-> about[t], state |-> "active", created |-> now, revoked |-> {}]
  <2>0. about[t] \in Target
    BY <1>5 DEF StartStop, Acting, RequestTypes
  <2>1. begun \in Row
    BY <1>5, <2>0 DEF StartStop, TypeOK, Row
  <2>2. row' \in [Stop -> Row]
    BY <1>5, <2>1 DEF StartStop, TypeOK
  <2>3. known' \in [Proc -> SUBSET Stop] /\ p \in Proc
    BY <1>5 DEF StartStop, TypeOK
  <2>4. kept' \in [Proc -> [Stop -> SUBSET Grant]]
    BY <1>5, <2>3, KeptTypes DEF StartStop, TypeOK
  <2>5. step' \in [Thread -> Steps] /\ about' \in [Thread -> Target \cup Stop]
    BY <1>5 DEF StartStop, Goto, TypeOK, Steps
  <2> QED
    BY <1>5, <2>2, <2>3, <2>4, <2>5 DEF StartStop, TypeOK, grantVars
<1>6. CASE RevokeGrants(t)
  <2> DEFINE taken == (grants[p] \cap Covered[row[about[t]].target]) \ expired
  <2>1. taken \in SUBSET Grant /\ p \in Proc
    BY DEF TypeOK
  <2>2. grantRow' \in SUBSET Grant
    BY <1>6 DEF RevokeGrants, TypeOK
  <2>3. grants' \in [Proc -> SUBSET Grant]
    BY <1>6, <2>1 DEF RevokeGrants, TypeOK
  <2>4. /\ op' \in [Thread -> {"start", "resume", "match"}]
        /\ about' \in [Thread -> Target \cup Stop]
        /\ step' \in [Thread -> Steps] /\ hand' \in [Thread -> SUBSET Grant]
        /\ read' \in [Thread -> [Stop -> Row]] /\ save' \in [Thread -> Grant \cup {NoGrant}]
    <3>1. CASE Done(t)
      BY <3>1, DoneTypes
    <3>2. CASE hand' = [hand EXCEPT ![t] = taken] /\ Goto(t, "record")
                /\ UNCHANGED <<op, about, read, save>>
      BY <2>1, <3>2 DEF Goto, TypeOK, Steps
    <3> QED
      BY <1>6, <3>1, <3>2 DEF RevokeGrants
  <2> QED
    BY <1>6, <2>2, <2>3, <2>4 DEF RevokeGrants, TypeOK, haltVars
<1>7. CASE RecordRevoked(t)
  <2> DEFINE h == about[t]
             taken == kept[p][h] \cup hand[t]
  <2>1. p \in Proc /\ (h \in known[p] => h \in Stop /\ taken \in SUBSET Grant)
    BY DEF TypeOK
  <2>2. kept' \in [Proc -> [Stop -> SUBSET Grant]]
    <3>1. kept' = kept \/ (h \in Stop /\ taken \in SUBSET Grant /\ kept' = [kept EXCEPT ![p][h] = taken])
      BY <1>7, <2>1 DEF RecordRevoked
    <3>2. CASE h \in Stop /\ taken \in SUBSET Grant /\ kept' = [kept EXCEPT ![p][h] = taken]
      BY <2>1, <3>2, KeptTypes DEF TypeOK
    <3> QED
      BY <3>1, <3>2 DEF TypeOK
  <2>3. row' \in [Stop -> Row]
    <3>1. CASE row' = row
      BY <3>1 DEF TypeOK
    <3>2. CASE h \in Stop /\ taken \in SUBSET Grant /\ row' = [row EXCEPT ![h].revoked = taken]
      <4>1. [row[h] EXCEPT !.revoked = taken] \in Row
        BY <3>2, RowChanges DEF TypeOK
      <4> QED
        BY <3>2, <4>1 DEF TypeOK
    <3> QED
      BY <1>7, <2>1, <3>1, <3>2 DEF RecordRevoked
  <2>4. Done(t)
    BY <1>7 DEF RecordRevoked
  <2> QED
    BY <1>7, <2>2, <2>3, <2>4, DoneTypes DEF RecordRevoked, TypeOK, grantVars
<1>8. CASE ResumeStop(t)
  <2> DEFINE h == about[t]
  <2>1. p \in Proc /\ h \in Stop
    BY <1>8 DEF ResumeStop, TypeOK
  <2>2. row' \in [Stop -> Row]
    <3>1. [row[h] EXCEPT !.state = "resumed"] \in Row
      BY <2>1, RowChanges DEF TypeOK
    <3> QED
      BY <1>8, <2>1, <3>1 DEF ResumeStop, TypeOK
  <2>3. known' \in [Proc -> SUBSET Stop] /\ hand' \in [Thread -> SUBSET Grant]
    BY <1>8, <2>1 DEF ResumeStop, TypeOK
  <2>4. step' \in [Thread -> Steps] /\ owed' \in [Stop -> SUBSET Grant]
    BY <1>8, <2>1 DEF ResumeStop, Goto, TypeOK, Steps
  <2>5. kept' \in [Proc -> [Stop -> SUBSET Grant]]
    BY <1>8, <2>1, KeptTypes DEF ResumeStop, TypeOK
  <2> QED
    BY <1>8, <2>2, <2>3, <2>4, <2>5 DEF ResumeStop, TypeOK
<1>9. ASSUME NEW g \in Grant, RestoreGrant(t, g) PROVE TypeOK'
  <2>1. hand' \in [Thread -> SUBSET Grant] /\ owed' \in [Stop -> SUBSET Grant]
    BY <1>9 DEF RestoreGrant, TypeOK
  <2>2. grants' \in [Proc -> SUBSET Grant] /\ save' \in [Thread -> Grant \cup {NoGrant}]
        /\ step' \in [Thread -> Steps]
    <3>1. CASE UNCHANGED <<grants, save, step>>
      BY <3>1 DEF TypeOK
    <3>2. CASE /\ grants' = [grants EXCEPT ![p] = @ \cup {g}]
               /\ save' = [save EXCEPT ![t] = g] /\ Goto(t, "save")
      BY <3>2 DEF Goto, TypeOK, Steps
    <3> QED
      BY <1>9, <3>1, <3>2 DEF RestoreGrant
  <2> QED
    BY <1>9, <2>1, <2>2 DEF RestoreGrant, TypeOK, haltVars
<1>10. CASE SaveGrant(t)
  <2>1. save[t] \in Grant
    BY <1>10 DEF SaveGrant, RequestTypes
  <2>2. grantRow' \in SUBSET Grant
    BY <1>10, <2>1, WrittenPart DEF SaveGrant, TypeOK
  <2>3. CASE Done(t)
    BY <1>10, <2>2, <2>3, DoneTypes DEF SaveGrant, TypeOK, haltVars
  <2>4. CASE /\ save' = [save EXCEPT ![t] = NoGrant] /\ Goto(t, "restore")
             /\ UNCHANGED <<op, about, read, hand>>
    BY <1>10, <2>2, <2>4 DEF SaveGrant, Goto, TypeOK, Steps, haltVars
  <2> QED
    BY <1>10, <2>3, <2>4 DEF SaveGrant
<1> QED
  BY <1>1, <1>2, <1>3, <1>4, <1>5, <1>6, <1>7, <1>8, <1>9, <1>10 DEF ThreadStep

(* So does every other step.                                               *)
LEMMA OtherTypes ==
  ASSUME TypeOK, NEW p \in Proc,
         \/ \E t \in Thread : Arrive(t, p)
         \/ Crash(p) \/ Restart(p)
         \/ \E g \in Grant : RevokeOne(p, g) \/ Expire(g)
         \/ Tick
  PROVE  TypeOK'
<1>1. ASSUME NEW t \in Thread, NEW o \in {"match", "start", "resume"},
             NEW x \in Target \cup Stop, Request(t, p, o, x)
      PROVE  TypeOK'
  BY <1>1 DEF Request, Goto, TypeOK, Steps, haltVars, grantVars
<1>2. ASSUME NEW t \in Thread, NEW g \in Grant, AddGrant(t, p, g) PROVE TypeOK'
  BY <1>2 DEF AddGrant, Goto, TypeOK, Steps, haltVars
<1>3. CASE \E t \in Thread : Arrive(t, p)
  <2>1. AnyTarget \in Target
    BY DEF AnyTarget
  <2> QED
    BY <1>1, <1>2, <1>3, <2>1 DEF Arrive
<1>4. CASE Crash(p)
  <2>1. [kept EXCEPT ![p] = [h \in Stop |-> {}]] \in [Proc -> [Stop -> SUBSET Grant]]
    BY DEF TypeOK
  <2>2. /\ step' \in [Thread -> Steps] /\ hand' \in [Thread -> SUBSET Grant]
        /\ read' \in [Thread -> [Stop -> Row]] /\ save' \in [Thread -> Grant \cup {NoGrant}]
    BY <1>4, Rows DEF Crash, TypeOK, Steps
  <2>3. AnyTarget \in Target
    BY DEF AnyTarget
  <2>4. /\ op' \in [Thread -> {"start", "resume", "match"}]
        /\ about' \in [Thread -> Target \cup Stop]
    BY <1>4, <2>3 DEF Crash, TypeOK
  <2>5. owed' \in [Stop -> SUBSET Grant]
    BY <1>4 DEF Crash, TypeOK
  <2> QED
    BY <1>4, <2>1, <2>2, <2>4, <2>5 DEF Crash, TypeOK
<1>5. CASE Restart(p)
  <2>1. InForce(row) \in SUBSET Stop
    BY DEF InForce
  <2>2. Lists(row) \in [Stop -> SUBSET Grant]
    BY ListsTypes DEF TypeOK
  <2>3. grantRow' \in SUBSET Grant
    BY <1>5 DEF Restart, TypeOK
  <2>4. grants' \in [Proc -> SUBSET Grant]
    <3>1. PICK loaded \in Written(grantRow \ expired) : grants' = [grants EXCEPT ![p] = loaded]
      BY <1>5 DEF Restart
    <3>2. loaded \in SUBSET Grant
      BY <3>1, WrittenPart DEF TypeOK
    <3> QED
      BY <3>1, <3>2 DEF TypeOK
  <2> QED
    BY <1>5, <2>1, <2>2, <2>3, <2>4 DEF Restart, TypeOK, threadVars
<1>6. ASSUME NEW g \in Grant, RevokeOne(p, g) PROVE TypeOK'
  BY <1>6 DEF RevokeOne, TypeOK, haltVars, threadVars
<1>7. ASSUME NEW g \in Grant, Expire(g) PROVE TypeOK'
  BY <1>7 DEF Expire, TypeOK, haltVars, threadVars
<1>8. CASE Tick
  <2>1. owed' \in [Stop -> SUBSET Grant]
    BY <1>8 DEF Tick, TypeOK, Row
  <2> QED
    BY <1>8, <2>1 DEF Tick, TypeOK, haltVars, threadVars
<1> QED
  BY <1>3, <1>4, <1>5, <1>6, <1>7, <1>8

(* A request that is answered names and saves nothing.                     *)
LEMMA DoneRequest ==
  ASSUME TypeOK, RequestTypes, NEW t \in Thread, Done(t)
  PROVE  RequestTypes'
  BY DEF Done, Goto, TypeOK, RequestTypes

(* What a request names and has to save.                                   *)
LEMMA RequestTypesStep ==
  ASSUME TypeOK, RequestTypes, Next
  PROVE  RequestTypes'
<1>1. ASSUME NEW t \in Thread, ThreadStep(t) PROVE RequestTypes'
  <2>1. CASE SkipReload(t) \/ QueryFails(t) \/ QueryHalts(t) \/ SwapHalts(t)
    <3>1. PICK s \in {"act", "blind", "swap"} : Goto(t, s)
      BY <2>1 DEF SkipReload, QueryFails, QueryHalts, SwapHalts
    <3>2. step[t] \in {"sync", "swap"} /\ UNCHANGED <<op, about, save>>
      BY <2>1 DEF SkipReload, QueryFails, QueryHalts, SwapHalts
    <3> QED
      BY <3>1, <3>2 DEF Goto, TypeOK, RequestTypes
  <2>2. CASE Match(t) \/ StartNothing(t) \/ NoStopLeft(t) \/ ResumeNothing(t) \/ RestoreDone(t)
             \/ RecordRevoked(t)
    BY <2>2, DoneRequest DEF Match, StartNothing, NoStopLeft, ResumeNothing, RestoreDone, RecordRevoked
  <2>3. ASSUME NEW h \in Stop, StartStop(t, h) PROVE RequestTypes'
    BY <2>3 DEF StartStop, Goto, TypeOK, RequestTypes
  <2>4. CASE RevokeGrants(t)
    <3>1. CASE Done(t)
      BY <2>4, <3>1, DoneRequest DEF RevokeGrants
    <3>2. CASE Goto(t, "record") /\ UNCHANGED <<op, about, save>>
      BY <2>4, <3>2 DEF RevokeGrants, Goto, TypeOK, RequestTypes
    <3> QED
      BY <2>4, <3>1, <3>2 DEF RevokeGrants
  <2>5. CASE ResumeStop(t) \/ SaveGrant(t)
    <3>1. CASE ResumeStop(t)
      BY <3>1 DEF ResumeStop, Goto, TypeOK, RequestTypes
    <3>2. CASE Done(t)
      BY <3>2, DoneRequest
    <3>3. CASE /\ save' = [save EXCEPT ![t] = NoGrant] /\ Goto(t, "restore")
               /\ UNCHANGED <<op, about>>
      BY <3>3 DEF Goto, TypeOK, RequestTypes
    <3> QED
      BY <2>5, <3>1, <3>2, <3>3 DEF SaveGrant
  <2>6. ASSUME NEW g \in Grant, RestoreGrant(t, g) PROVE RequestTypes'
    <3>1. UNCHANGED <<op, about>>
      BY <2>6 DEF RestoreGrant
    <3>2. CASE UNCHANGED <<save, step>>
      BY <3>1, <3>2 DEF RequestTypes
    <3>3. CASE save' = [save EXCEPT ![t] = g] /\ Goto(t, "save")
      BY <3>1, <3>3 DEF Goto, TypeOK, RequestTypes
    <3> QED
      BY <2>6, <3>2, <3>3 DEF RestoreGrant
  <2> QED
    BY <1>1, <2>1, <2>2, <2>3, <2>4, <2>5, <2>6 DEF ThreadStep
<1>2. ASSUME NEW t \in Thread, NEW p \in Proc, Arrive(t, p) PROVE RequestTypes'
  BY <1>2 DEF Arrive, Request, AddGrant, Goto, TypeOK, RequestTypes
<1>3. ASSUME NEW p \in Proc, Crash(p) PROVE RequestTypes'
  BY <1>3 DEF Crash, RequestTypes
<1>4. ASSUME NEW p \in Proc, \/ Restart(p) \/ Tick
                             \/ \E g \in Grant : RevokeOne(p, g) \/ Expire(g)
      PROVE  RequestTypes'
  BY <1>4 DEF Restart, Tick, RevokeOne, Expire, threadVars, RequestTypes
<1> QED
  BY <1>1, <1>2, <1>3, <1>4 DEF Next

LEMMA TypesStep ==
  TypeOK /\ RequestTypes /\ [Next]_vars => TypeOK' /\ RequestTypes'
<1> SUFFICES ASSUME TypeOK, RequestTypes, [Next]_vars PROVE TypeOK' /\ RequestTypes'
  OBVIOUS
<1>1. CASE UNCHANGED vars
  BY <1>1 DEF vars, haltVars, grantVars, threadVars, TypeOK, RequestTypes
<1>2. CASE Next
  <2>1. TypeOK'
    BY <1>2, ThreadTypes, OtherTypes DEF Next
  <2> QED
    BY <1>2, <2>1, RequestTypesStep
<1> QED
  BY <1>1, <1>2

-----------------------------------------------------------------------------
(* A stop reaches every process. *)

(* What the stops see of a step of a request other than a reload, a start  *)
(* or a resume: it moves on, and not to the point past its check.          *)
MovesOn(t) ==
  /\ UNCHANGED <<now, up, known, lastSync>>
  /\ InForce(row') = InForce(row) /\ \A h \in Stop : row'[h].created = row[h].created
  /\ \A u \in Thread \ {t} : step'[u] = step[u] /\ at'[u] = at[u] /\ read'[u] = read[u]
  /\ step'[t] \notin {"swap", "act"} /\ at'[t] \in up

LEMMA MovesOnKeeps ==
  ASSUME StopIInv, NEW t \in Thread, MovesOn(t)
  PROVE  ServedIsUp' /\ SyncedKnows' /\ ReadIsRecent'
<1>1. ServedIsUp'
  BY DEF MovesOn, StopIInv, ServedIsUp
<1>2. SyncedKnows'
  BY DEF MovesOn, StopIInv, SyncedKnows, InForce
<1>3. ReadIsRecent'
  <2>1. ASSUME NEW u \in Thread, u # t
        PROVE  /\ step'[u] = "swap" =>
                    \A h \in InForce(row') : row'[h].created < now' => h \in InForce(read'[u])
               /\ step'[u] = "act" => lastSync'[at'[u]] = now'
    <3>1. /\ step[u] = "swap" => \A h \in InForce(row) : row[h].created < now => h \in InForce(read[u])
          /\ step[u] = "act" => lastSync[at[u]] = now
      BY DEF StopIInv, ReadIsRecent
    <3>2. InForce(row) \subseteq Stop
      BY DEF InForce
    <3> QED
      BY <2>1, <3>1, <3>2 DEF MovesOn
  <2> QED
    BY <2>1 DEF MovesOn, ReadIsRecent
<1> QED
  BY <1>1, <1>2, <1>3

(* Which steps are of that kind.                                           *)
LEMMA MovingOn ==
  ASSUME StopIInv, NEW t \in Thread,
         \/ QueryFails(t) \/ Match(t) \/ StartNothing(t) \/ NoStopLeft(t) \/ RevokeGrants(t)
         \/ RecordRevoked(t) \/ ResumeNothing(t) \/ RestoreDone(t) \/ SaveGrant(t)
         \/ \E g \in Grant : RestoreGrant(t, g)
         \/ \E p \in Proc : Arrive(t, p)
  PROVE  MovesOn(t)
<1>1. step[t] # "idle" => at[t] \in up
  BY DEF StopIInv, ServedIsUp
<1>2. Done(t) => /\ \A u \in Thread \ {t} : step'[u] = step[u] /\ read'[u] = read[u]
                 /\ step'[t] = "idle"
  BY DEF Done, Goto, StopIInv, TypeOK
<1>3. CASE QueryFails(t)
  BY <1>1, <1>3 DEF QueryFails, Goto, MovesOn, StopIInv, TypeOK, haltVars
<1>4. CASE Match(t) \/ StartNothing(t) \/ NoStopLeft(t) \/ ResumeNothing(t) \/ RestoreDone(t)
  BY <1>1, <1>2, <1>4 DEF Match, StartNothing, NoStopLeft, ResumeNothing, RestoreDone, Acting,
       MovesOn, haltVars
<1>5. CASE RevokeGrants(t)
  <2>1. /\ \A u \in Thread \ {t} : step'[u] = step[u] /\ read'[u] = read[u]
        /\ step'[t] \in {"idle", "record"}
    <3>1. CASE Done(t)
      BY <1>2, <3>1
    <3>2. CASE Goto(t, "record") /\ UNCHANGED read
      BY <3>2 DEF Goto, StopIInv, TypeOK
    <3> QED
      BY <1>5, <3>1, <3>2 DEF RevokeGrants
  <2> QED
    BY <1>1, <1>5, <2>1 DEF RevokeGrants, MovesOn, haltVars
<1>6. CASE RecordRevoked(t)
  <2>1. \A h \in Stop : row'[h].state = row[h].state /\ row'[h].created = row[h].created
    <3> DEFINE taken == kept[at[t]][about[t]] \cup hand[t]
    <3>1. about[t] \in known[at[t]] => about[t] \in Stop /\ taken \in SUBSET Grant
      BY DEF StopIInv, TypeOK
    <3>2. CASE /\ about[t] \in Stop /\ taken \in SUBSET Grant
               /\ row' = [row EXCEPT ![about[t]].revoked = taken]
      <4>1. \A h \in Stop :
              row'[h] = IF h = about[t] THEN [row[h] EXCEPT !.revoked = taken] ELSE row[h]
        BY <3>2 DEF StopIInv, TypeOK
      <4> QED
        BY <3>2, <4>1, RowChanges DEF StopIInv, TypeOK
    <3> QED
      BY <1>6, <3>1, <3>2 DEF RecordRevoked
  <2>2. InForce(row') = InForce(row)
    BY <2>1 DEF InForce
  <2> QED
    BY <1>1, <1>2, <1>6, <2>1, <2>2 DEF RecordRevoked, MovesOn
<1>7. CASE SaveGrant(t)
  <2>1. /\ \A u \in Thread \ {t} : step'[u] = step[u] /\ read'[u] = read[u]
        /\ step'[t] \in {"idle", "restore"}
    <3>1. CASE Done(t)
      BY <1>2, <3>1
    <3>2. CASE Goto(t, "restore") /\ UNCHANGED read
      BY <3>2 DEF Goto, StopIInv, TypeOK
    <3> QED
      BY <1>7, <3>1, <3>2 DEF SaveGrant
  <2> QED
    BY <1>1, <1>7, <2>1 DEF SaveGrant, MovesOn, haltVars
<1>8. ASSUME NEW g \in Grant, RestoreGrant(t, g) PROVE MovesOn(t)
  BY <1>1, <1>8 DEF RestoreGrant, Goto, MovesOn, StopIInv, TypeOK, haltVars
<1>9. ASSUME NEW p \in Proc, Arrive(t, p) PROVE MovesOn(t)
  BY <1>9 DEF Arrive, Request, AddGrant, Goto, MovesOn, StopIInv, TypeOK, haltVars
<1> QED
  BY <1>3, <1>4, <1>5, <1>6, <1>7, <1>8, <1>9

(* A reload brings what was begun before it, a start or a resume changes   *)
(* no stop begun before.                                                   *)
LEMMA SyncStep ==
  ASSUME StopIInv, NEW t \in Thread,
         \/ SkipReload(t) \/ QueryHalts(t) \/ SwapHalts(t) \/ ResumeStop(t)
         \/ \E h \in Stop : StartStop(t, h)
  PROVE  ServedIsUp' /\ SyncedKnows' /\ ReadIsRecent'
<1> USE DEF StopIInv
<1> DEFINE p == at[t]
<1>1. p \in Proc /\ now \in Nat /\ lastSync[p] \in Nat /\ lastSync[p] <= now
  BY DEF TypeOK, SyncedKnows
<1>2. step[t] # "idle" /\ UNCHANGED <<now, up, at>>
  BY DEF SkipReload, QueryHalts, SwapHalts, ResumeStop, StartStop, Acting
<1>3. \A u \in Thread \ {t} : step'[u] = step[u] /\ read'[u] = read[u]
  <2>1. PICK s : Goto(t, s)
    BY DEF SkipReload, QueryHalts, SwapHalts, ResumeStop, StartStop
  <2>2. PICK r : read' = [read EXCEPT ![t] = r] \/ read' = read
    BY DEF SkipReload, QueryHalts, SwapHalts, ResumeStop, StartStop
  <2> QED
    BY <2>1, <2>2 DEF Goto, TypeOK
<1>4. ServedIsUp'
  BY <1>2, <1>3 DEF ServedIsUp
<1>5. CASE SkipReload(t)
  <2>1. lastSync[p] = now
    BY <1>1, <1>5 DEF SkipReload, SyncEvery
  <2>2. SyncedKnows'
    BY <1>5 DEF SkipReload, SyncedKnows, haltVars
  <2>3. ReadIsRecent'
    BY <1>5, <2>1 DEF SkipReload, Goto, ReadIsRecent, TypeOK, haltVars
  <2> QED
    BY <1>4, <2>2, <2>3
<1>6. CASE QueryHalts(t)
  <2>1. SyncedKnows'
    BY <1>6 DEF QueryHalts, SyncedKnows, haltVars
  <2>2. ReadIsRecent'
    BY <1>6 DEF QueryHalts, Goto, ReadIsRecent, TypeOK, haltVars
  <2> QED
    BY <1>4, <2>1, <2>2
<1>7. CASE SwapHalts(t)
  <2>1. \A h \in InForce(row) : row[h].created < now => h \in InForce(read[t])
    BY <1>7 DEF SwapHalts, ReadIsRecent
  <2>2. SyncedKnows'
    BY <1>1, <1>7, <2>1 DEF SwapHalts, SyncedKnows, TypeOK
  <2>3. ReadIsRecent'
    BY <1>7 DEF SwapHalts, Goto, ReadIsRecent, TypeOK
  <2> QED
    BY <1>4, <2>2, <2>3
<1>8. CASE ResumeStop(t)
  <2>1. /\ \A h \in Stop : row'[h].created = row[h].created
        /\ InForce(row') = InForce(row) \ {about[t]}
    BY <1>8 DEF ResumeStop, TypeOK, Row, InForce
  <2>2. SyncedKnows'
    BY <1>8, <2>1 DEF ResumeStop, SyncedKnows, TypeOK, InForce
  <2>3. ReadIsRecent'
    BY <1>8, <2>1 DEF ResumeStop, Goto, ReadIsRecent, TypeOK, InForce
  <2> QED
    BY <1>4, <2>2, <2>3
<1>9. ASSUME NEW h \in Stop, StartStop(t, h) PROVE SyncedKnows' /\ ReadIsRecent'
  <2>1. /\ \A other \in Stop \ {h} : row'[other] = row[other]
        /\ row'[h].created = now
        /\ InForce(row') \subseteq InForce(row) \cup {h}
    BY <1>9 DEF StartStop, TypeOK, InForce
  <2>2. SyncedKnows'
    <3>1. \A q \in Proc : known[q] \subseteq known'[q] /\ lastSync'[q] = lastSync[q]
      BY <1>9 DEF StartStop, TypeOK
    <3>2. \A q \in Proc : ~(now < lastSync[q])
      BY <1>1 DEF SyncedKnows, TypeOK
    <3>3. ASSUME NEW q \in up, NEW k \in InForce(row'), row'[k].created < lastSync[q]
          PROVE  k \in known[q]
      <4>1. k # h
        BY <2>1, <3>2, <3>3 DEF TypeOK
      <4>2. k \in InForce(row) /\ row[k].created < lastSync[q]
        BY <2>1, <3>3, <4>1 DEF InForce
      <4> QED
        BY <4>2 DEF SyncedKnows
    <3> QED
      BY <1>2, <3>1, <3>3 DEF SyncedKnows, TypeOK
  <2>3. ReadIsRecent'
    <3>1. ASSUME NEW u \in Thread, step'[u] = "swap", NEW k \in InForce(row'), row'[k].created < now
          PROVE  k \in InForce(read'[u])
      <4>1. u # t /\ step[u] = "swap"
        BY <1>3, <1>9, <3>1 DEF StartStop, Goto, TypeOK
      <4>2. k \in InForce(row) /\ row[k].created < now
        BY <1>1, <2>1, <3>1 DEF InForce
      <4> QED
        BY <1>3, <4>1, <4>2 DEF ReadIsRecent
    <3>2. \A u \in Thread : step'[u] = "act" => lastSync'[at'[u]] = now'
      BY <1>2, <1>9 DEF StartStop, Goto, ReadIsRecent, TypeOK
    <3> QED
      BY <1>2, <3>1, <3>2 DEF ReadIsRecent
  <2> QED
    BY <2>2, <2>3
<1> QED
  BY <1>4, <1>5, <1>6, <1>7, <1>8, <1>9

(* Processes come and go, time passes.                                     *)
LEMMA ProcessStep ==
  ASSUME StopIInv, NEW p \in Proc,
         Crash(p) \/ Restart(p) \/ Tick \/ \E g \in Grant : RevokeOne(p, g) \/ Expire(g)
  PROVE  ServedIsUp' /\ SyncedKnows' /\ ReadIsRecent'
<1> USE DEF StopIInv
<1>1. CASE Crash(p)
  <2>1. ServedIsUp'
    BY <1>1 DEF Crash, ServedIsUp
  <2>2. SyncedKnows'
    BY <1>1 DEF Crash, SyncedKnows, TypeOK
  <2>3. ReadIsRecent'
    BY <1>1 DEF Crash, ReadIsRecent
  <2> QED
    BY <2>1, <2>2, <2>3
<1>2. CASE Restart(p)
  <2>1. \A t \in Thread : step[t] # "idle" => at[t] # p
    BY <1>2 DEF Restart, ServedIsUp
  <2>2. ServedIsUp' /\ ReadIsRecent'
    BY <1>2, <2>1 DEF Restart, ServedIsUp, ReadIsRecent, TypeOK, threadVars
  <2>3. SyncedKnows'
    BY <1>2 DEF Restart, SyncedKnows, TypeOK
  <2> QED
    BY <2>2, <2>3
<1>3. CASE Tick
  <2>1. ServedIsUp' /\ ReadIsRecent'
    BY <1>3 DEF Tick, ServedIsUp, ReadIsRecent, haltVars, threadVars
  <2>2. SyncedKnows'
    BY <1>3 DEF Tick, SyncedKnows, TypeOK, haltVars
  <2> QED
    BY <2>1, <2>2
<1>4. ASSUME NEW g \in Grant, RevokeOne(p, g) \/ Expire(g)
      PROVE  ServedIsUp' /\ SyncedKnows' /\ ReadIsRecent'
  BY <1>4 DEF RevokeOne, Expire, haltVars, threadVars, ServedIsUp, SyncedKnows, ReadIsRecent
<1> QED
  BY <1>1, <1>2, <1>3, <1>4

LEMMA InitStop == Init => StopIInv
<1> SUFFICES ASSUME Init PROVE StopIInv
  OBVIOUS
<1>1. TypeOK
  BY InitTypes
<1>2. InForce(row) = {} /\ \A p \in Proc : lastSync[p] = 0
  BY Rows DEF Init
<1>3. RequestTypes /\ ServedIsUp /\ SyncedKnows /\ ReadIsRecent
  BY <1>2 DEF Init, RequestTypes, ServedIsUp, SyncedKnows, ReadIsRecent
<1> QED
  BY <1>1, <1>3 DEF StopIInv

LEMMA StopStep == StopIInv /\ [Next]_vars => StopIInv'
<1> SUFFICES ASSUME StopIInv, [Next]_vars PROVE StopIInv'
  OBVIOUS
<1>1. TypeOK' /\ RequestTypes'
  BY TypesStep DEF StopIInv
<1>2. CASE UNCHANGED vars
  BY <1>1, <1>2 DEF vars, haltVars, threadVars, StopIInv, ServedIsUp, SyncedKnows, ReadIsRecent
<1>3. CASE Next
  <2>1. ASSUME NEW t \in Thread, ThreadStep(t) \/ \E p \in Proc : Arrive(t, p)
        PROVE  ServedIsUp' /\ SyncedKnows' /\ ReadIsRecent'
    <3>1. \/ MovesOn(t)
          \/ SkipReload(t) \/ QueryHalts(t) \/ SwapHalts(t) \/ ResumeStop(t)
          \/ \E h \in Stop : StartStop(t, h)
      BY <2>1, MovingOn DEF ThreadStep
    <3> QED
      BY <3>1, MovesOnKeeps, SyncStep
  <2>2. ServedIsUp' /\ SyncedKnows' /\ ReadIsRecent'
    <3>1. \E p \in Proc : TRUE
      OBVIOUS
    <3> QED
      BY <1>3, <2>1, <3>1, ProcessStep DEF Next
  <2> QED
    BY <1>1, <2>2 DEF StopIInv
<1> QED
  BY <1>2, <1>3

(* A stop is in every process's copy SyncEvery after it began, with any    *)
(* number of requests at a time, starts, resumes, failing queries, crashes *)
(* and restarts.                                                           *)
THEOREM StopIsEverywhere == Spec => []StopReachesEveryProcess
<1>1. StopIInv => StopReachesEveryProcess
  <2> SUFFICES ASSUME StopIInv, NEW t \in Thread, NEW h \in InForce(row),
                      step[t] = "act", row[h].created + SyncEvery <= now
               PROVE  h \in known[at[t]]
    BY DEF StopReachesEveryProcess
  <2>1. at[t] \in up /\ lastSync[at[t]] = now
    BY DEF StopIInv, ServedIsUp, ReadIsRecent
  <2>2. row[h].created \in Nat /\ now \in Nat
    BY DEF StopIInv, TypeOK, Row, InForce
  <2> QED
    BY <2>1, <2>2 DEF StopIInv, SyncedKnows, SyncEvery
<1> QED
  BY <1>1, InitStop, StopStep, PTL DEF Spec

(* The types hold with any number of requests too.                         *)
THEOREM HaltTypes == Spec => []TypeOK
  BY InitStop, StopStep, PTL DEF Spec, StopIInv

-----------------------------------------------------------------------------
(* A stop stays known until it is resumed. *)

(* What a process that lives on does not forget.                           *)
KeepsStops ==
  \A p \in up \cap up', h \in InForce(row') :
    h \in known[p] /\ row[h].created + SyncEvery <= now => h \in known'[p]

LEMMA StopsKeptStep ==
  ASSUME StopIInv, Next
  PROVE  KeepsStops
<1>0. InForce(row) \subseteq Stop /\ TypeOK
  BY DEF InForce, StopIInv
<1>1. ASSUME NEW t \in Thread, SwapHalts(t) PROVE KeepsStops
  <2> SUFFICES ASSUME NEW p \in up \cap up', NEW h \in InForce(row'), h \in known[p],
                      row[h].created + SyncEvery <= now
               PROVE  h \in known'[p]
    BY DEF KeepsStops
  <2>1. h \in InForce(row) /\ row[h].created < now
    <3>1. row' = row
      BY <1>1 DEF SwapHalts
    <3>2. row[h].created \in Nat /\ now \in Nat
      BY <1>0, <3>1 DEF TypeOK, Row
    <3> QED
      BY <3>1, <3>2 DEF SyncEvery
  <2>2. h \in InForce(read[t])
    BY <1>1, <2>1 DEF StopIInv, ReadIsRecent, SwapHalts
  <2> QED
    BY <1>0, <1>1, <2>2 DEF SwapHalts, TypeOK
<1>2. ASSUME NEW t \in Thread, ResumeStop(t) PROVE KeepsStops
  <2>1. about[t] \in Stop
    BY <1>0, <1>2 DEF ResumeStop, TypeOK
  <2>2. about[t] \notin InForce(row')
    BY <1>0, <1>2, <2>1 DEF ResumeStop, TypeOK, Row, InForce
  <2> QED
    BY <1>0, <1>2, <2>2 DEF ResumeStop, TypeOK, KeepsStops
<1>3. ASSUME NEW t \in Thread, NEW h \in Stop, StartStop(t, h) PROVE KeepsStops
  BY <1>0, <1>3 DEF StartStop, TypeOK, KeepsStops
<1>4. ASSUME NEW p \in Proc, Crash(p) \/ Restart(p) PROVE KeepsStops
  BY <1>0, <1>4 DEF Crash, Restart, TypeOK, KeepsStops
<1>5. CASE known' = known
  BY <1>5 DEF KeepsStops
<1>6. ASSUME NEW t \in Thread, ThreadStep(t) PROVE KeepsStops
  <2>1. \/ SwapHalts(t) \/ ResumeStop(t) \/ \E h \in Stop : StartStop(t, h)
        \/ known' = known
    BY <1>6 DEF ThreadStep, SkipReload, QueryFails, QueryHalts, Match, StartNothing, NoStopLeft,
         RevokeGrants, RecordRevoked, ResumeNothing, RestoreGrant, RestoreDone, SaveGrant, haltVars
  <2> QED
    BY <1>1, <1>2, <1>3, <1>5, <2>1
<1>7. ASSUME NEW t \in Thread, NEW p \in Proc, Arrive(t, p) PROVE KeepsStops
  BY <1>5, <1>7 DEF Arrive, Request, AddGrant, haltVars
<1>8. ASSUME NEW p \in Proc, Tick \/ \E g \in Grant : RevokeOne(p, g) \/ Expire(g)
      PROVE  KeepsStops
  BY <1>5, <1>8 DEF Tick, RevokeOne, Expire, haltVars
<1>9. \E p \in Proc : TRUE
  OBVIOUS
<1> QED
  BY <1>4, <1>6, <1>7, <1>8, <1>9 DEF Next

(* No failing query, no reload, though it swaps in rows another request    *)
(* has changed since, no start, resume of another stop or restart of       *)
(* another process lifts a stop that is SyncEvery old, with any number of  *)
(* requests at a time (before that a reload undoes a start:                *)
(* HaltStore_racing.cfg).                                                  *)
THEOREM StopsAreKept == Spec => KnownOnceSettled
<1>1. StopIInv /\ [Next]_vars => [KeepsStops]_vars
  BY StopsKeptStep
<1>2. Spec => [][KeepsStops]_vars
  BY <1>1, InitStop, StopStep, PTL DEF Spec
<1> QED
  BY <1>2 DEF KeepsStops, KnownOnceSettled

-----------------------------------------------------------------------------
(* The grants on a stop's record are not lost. *)

(* What the grants see of a step that changes no row, copy or debt: no     *)
(* stop begins, the grants in hand on their way back stay there, and rows  *)
(* are read as they are, or not at all.                                    *)
LEMMA GrantsUndisturbed ==
  ASSUME GrantIInv, UNCHANGED <<row, up, known, kept, lastSync, now, owed>>,
         expired \subseteq expired',
         \A t \in Thread :
           /\ step'[t] \in {"revoke", "record"} =>
                step[t] \in {"revoke", "record"} /\ about'[t] = about[t]
           /\ step[t] \in {"restore", "save"} =>
                \/ step'[t] \in {"restore", "save"} /\ about'[t] = about[t] /\ hand'[t] = hand[t]
                \/ hand[t] = {}
           /\ step'[t] = "swap" =>
                \/ step[t] = "swap" /\ read'[t] = read[t]
                \/ read'[t] = row
  PROVE  BeginningHolds' /\ OwedIsCopied' /\ GrantsNotLost'
<1>1. BeginningHolds'
  BY DEF GrantIInv, BeginningHolds
<1>2. OwedIsCopied'
  BY DEF GrantIInv, OwedIsCopied
<1>3. GrantsNotLost'
  <2> SUFFICES ASSUME NEW h \in Stop, NEW g \in owed[h] \ expired',
                      ~ (h \in InForce(row) /\ g \in row[h].revoked)
               PROVE  \E t \in Thread :
                        step'[t] \in {"restore", "save"} /\ about'[t] = h /\ g \in hand'[t]
    BY DEF GrantsNotLost, InForce
  <2>1. PICK t \in Thread : step[t] \in {"restore", "save"} /\ about[t] = h /\ g \in hand[t]
    BY DEF GrantIInv, GrantsNotLost
  <2> QED
    BY <2>1
<1> QED
  BY <1>1, <1>2, <1>3

(* A request that is answered leaves nothing behind.                       *)
LEMMA DoneGrants ==
  ASSUME TypeOK, NEW t \in Thread, Done(t)
  PROVE  /\ step'[t] = "idle"
         /\ \A u \in Thread \ {t} :
              /\ step'[u] = step[u] /\ about'[u] = about[u] /\ hand'[u] = hand[u]
              /\ read'[u] = read[u]
  BY DEF Done, Goto, TypeOK

LEMMA GotoOne ==
  ASSUME TypeOK, NEW t \in Thread, NEW s \in Steps, Goto(t, s)
  PROVE  step'[t] = s /\ \A u \in Thread \ {t} : step'[u] = step[u]
  BY DEF Goto, TypeOK

(* The steps of a request that touch neither rows nor copies.              *)
LEMMA PassingGrants ==
  ASSUME GrantIInv, NEW t \in Thread,
         \/ SkipReload(t) \/ QueryFails(t) \/ QueryHalts(t)
         \/ Match(t) \/ StartNothing(t) \/ NoStopLeft(t) \/ ResumeNothing(t) \/ RestoreDone(t)
         \/ RevokeGrants(t) \/ SaveGrant(t)
         \/ \E p \in Proc : Arrive(t, p)
  PROVE  BeginningHolds' /\ OwedIsCopied' /\ GrantsNotLost'
<1>0. TypeOK
  BY DEF GrantIInv, StopIInv
<1>1. CASE SkipReload(t) \/ QueryFails(t)
  <2>1. step[t] = "sync" /\ (step'[t] = "act" \/ step'[t] = "blind")
        /\ \A u \in Thread \ {t} : step'[u] = step[u]
    BY <1>0, <1>1 DEF SkipReload, QueryFails, Goto, TypeOK
  <2>2. UNCHANGED <<row, up, known, kept, lastSync, now, owed, expired, about, hand, read>>
    BY <1>1 DEF SkipReload, QueryFails, haltVars, grantVars
  <2> QED
    BY <2>1, <2>2, GrantsUndisturbed
<1>2. CASE QueryHalts(t)
  <2>1. step[t] = "sync" /\ step'[t] = "swap" /\ \A u \in Thread \ {t} : step'[u] = step[u]
    BY <1>0, <1>2 DEF QueryHalts, Goto, TypeOK
  <2>2. read'[t] = row /\ \A u \in Thread \ {t} : read'[u] = read[u]
    BY <1>0, <1>2 DEF QueryHalts, TypeOK
  <2>3. UNCHANGED <<row, up, known, kept, lastSync, now, owed, expired, about, hand>>
    BY <1>2 DEF QueryHalts, haltVars, grantVars
  <2> QED
    BY <2>1, <2>2, <2>3, GrantsUndisturbed
<1>3. CASE Match(t) \/ StartNothing(t) \/ NoStopLeft(t) \/ ResumeNothing(t) \/ RestoreDone(t)
  <2>1. Done(t) /\ (step[t] \in {"act", "blind"} \/ hand[t] = {})
    BY <1>3 DEF Match, StartNothing, NoStopLeft, ResumeNothing, RestoreDone, Acting
  <2>2. UNCHANGED <<row, up, known, kept, lastSync, now, owed, expired>>
    BY <1>3 DEF Match, StartNothing, NoStopLeft, ResumeNothing, RestoreDone, haltVars, grantVars
  <2> QED
    BY <1>0, <2>1, <2>2, DoneGrants, GrantsUndisturbed
<1>4. CASE RevokeGrants(t)
  <2>1. step[t] = "revoke" /\ UNCHANGED <<row, up, known, kept, lastSync, now, owed, expired>>
    BY <1>4 DEF RevokeGrants, haltVars
  <2>2. \/ Done(t)
        \/ /\ Goto(t, "record") /\ UNCHANGED <<about, read>>
           /\ \A u \in Thread \ {t} : hand'[u] = hand[u]
    BY <1>0, <1>4 DEF RevokeGrants, TypeOK
  <2>3. CASE Done(t)
    BY <1>0, <2>1, <2>3, DoneGrants, GrantsUndisturbed
  <2>4. CASE /\ Goto(t, "record") /\ UNCHANGED <<about, read>>
             /\ \A u \in Thread \ {t} : hand'[u] = hand[u]
    <3>1. step'[t] = "record" /\ \A u \in Thread \ {t} : step'[u] = step[u]
      BY <1>0, <2>4 DEF Goto, TypeOK
    <3> QED
      BY <2>1, <2>4, <3>1, GrantsUndisturbed
  <2> QED
    BY <2>2, <2>3, <2>4
<1>5. CASE SaveGrant(t)
  <2>1. step[t] = "save" /\ UNCHANGED <<row, up, known, kept, lastSync, now, owed, expired>>
    BY <1>5 DEF SaveGrant, haltVars
  <2>2. CASE hand[t] = {}
    <3>1. Done(t)
      BY <1>5, <2>2 DEF SaveGrant
    <3> QED
      BY <1>0, <2>1, <2>2, <3>1, DoneGrants, GrantsUndisturbed
  <2>3. CASE hand[t] # {}
    <3>1. Goto(t, "restore") /\ UNCHANGED <<about, read, hand>>
      BY <1>5, <2>3 DEF SaveGrant
    <3>2. step'[t] = "restore" /\ \A u \in Thread \ {t} : step'[u] = step[u]
      BY <1>0, <3>1 DEF Goto, TypeOK
    <3> QED
      BY <2>1, <3>1, <3>2, GrantsUndisturbed
  <2> QED
    BY <2>2, <2>3
<1>6. ASSUME NEW p \in Proc, Arrive(t, p)
      PROVE  BeginningHolds' /\ OwedIsCopied' /\ GrantsNotLost'
  <2>1. /\ step[t] = "idle" /\ UNCHANGED <<hand, read>>
        /\ UNCHANGED <<row, up, known, kept, lastSync, now, owed, expired>>
        /\ \E s \in {"sync", "save"} : Goto(t, s)
    BY <1>6 DEF Arrive, Request, AddGrant, haltVars, grantVars
  <2>2. step'[t] \in {"sync", "save"} /\ \A u \in Thread \ {t} : step'[u] = step[u]
    BY <1>0, <2>1 DEF Goto, TypeOK
  <2>3. \A u \in Thread \ {t} : about'[u] = about[u]
    BY <1>0, <1>6 DEF Arrive, Request, AddGrant, TypeOK
  <2> QED
    BY <2>1, <2>2, <2>3, GrantsUndisturbed
<1> QED
  BY <1>1, <1>2, <1>3, <1>4, <1>5, <1>6

(* A reload has what is owed.                                              *)
LEMMA SwapGrants ==
  ASSUME GrantIInv, NEW t \in Thread, SwapHalts(t)
  PROVE  BeginningHolds' /\ OwedIsCopied' /\ GrantsNotLost'
<1> DEFINE p == at[t]
<1>0. TypeOK /\ p \in Proc /\ p \in up
  BY DEF GrantIInv, StopIInv, TypeOK, ServedIsUp, SwapHalts
<1>1. step[t] = "swap" /\ step'[t] = "act" /\ \A u \in Thread \ {t} : step'[u] = step[u]
  BY <1>0 DEF SwapHalts, Goto, TypeOK
<1>2. UNCHANGED <<row, up, now, owed, expired, about, hand>>
  BY DEF SwapHalts, grantVars
<1>3. BeginningHolds'
  BY <1>1, <1>2 DEF GrantIInv, BeginningHolds
<1>4. OwedIsCopied'
  <2>1. \A h \in Stop : owed[h] \subseteq read[t][h].revoked
    BY <1>1 DEF GrantIInv, OwedIsCopied
  <2>2. \A h \in known'[p] : owed[h] \subseteq kept'[p][h]
    <3>1. known'[p] = InForce(read[t]) /\ kept'[p] = Lists(read[t])
      BY <1>0 DEF SwapHalts, TypeOK
    <3> QED
      BY <2>1, <3>1 DEF Lists, InForce
  <2>3. \A q \in Proc \ {p} : known'[q] = known[q] /\ kept'[q] = kept[q] /\ lastSync'[q] = lastSync[q]
    BY <1>0 DEF SwapHalts, TypeOK
  <2>4. \A u \in Thread \ {t} : read'[u] = read[u]
    BY <1>0 DEF SwapHalts, TypeOK
  <2>5. up \subseteq Proc
    BY <1>0 DEF TypeOK
  <2> QED
    BY <1>1, <1>2, <2>2, <2>3, <2>4, <2>5 DEF GrantIInv, OwedIsCopied
<1>5. GrantsNotLost'
  <2> SUFFICES ASSUME NEW h \in Stop, NEW g \in owed[h] \ expired,
                      ~ (h \in InForce(row) /\ g \in row[h].revoked)
               PROVE  \E u \in Thread :
                        step'[u] \in {"restore", "save"} /\ about'[u] = h /\ g \in hand'[u]
    BY <1>2 DEF GrantsNotLost, InForce
  <2>1. PICK u \in Thread : step[u] \in {"restore", "save"} /\ about[u] = h /\ g \in hand[u]
    BY DEF GrantIInv, GrantsNotLost
  <2> QED
    BY <1>1, <1>2, <2>1
<1> QED
  BY <1>3, <1>4, <1>5

(* A stop begins: nothing is owed on its account.                          *)
LEMMA StartGrants ==
  ASSUME GrantIInv, NEW t \in Thread, NEW h \in Stop, StartStop(t, h)
  PROVE  BeginningHolds' /\ OwedIsCopied' /\ GrantsNotLost'
<1> DEFINE p == at[t]
<1>0. TypeOK /\ p \in Proc
  BY DEF GrantIInv, StopIInv, TypeOK
<1>1. /\ step[t] \in {"act", "blind"} /\ step'[t] = "revoke"
      /\ \A u \in Thread \ {t} : step'[u] = step[u]
  BY <1>0 DEF StartStop, Acting, Goto, TypeOK
<1>2. about'[t] = h /\ \A u \in Thread \ {t} : about'[u] = about[u]
  BY <1>0 DEF StartStop, TypeOK
<1>3. UNCHANGED <<up, now, owed, expired, hand, read, lastSync>>
  BY DEF StartStop, grantVars
<1>4. /\ row[h].state = "none" /\ row'[h].state = "active" /\ row'[h].revoked = {}
      /\ \A k \in Stop \ {h} : row'[k] = row[k]
  BY <1>0 DEF StartStop, TypeOK
<1>5. owed[h] = {}
  BY <1>4 DEF GrantIInv, BeginningHolds, OwedIsCopied
<1>6. BeginningHolds'
  <2>1. \A u \in Thread \ {t} : step[u] \in {"revoke", "record"} => about[u] # h
    BY <1>4 DEF GrantIInv, BeginningHolds
  <2> QED
    BY <1>1, <1>2, <1>4, <2>1 DEF GrantIInv, BeginningHolds
<1>7. OwedIsCopied'
  <2>1. /\ \A q \in Proc, k \in Stop \ {h} : k \in known'[q] <=> k \in known[q]
        /\ \A q \in Proc, k \in Stop \ {h} : kept'[q][k] = kept[q][k]
        /\ \A q \in Proc : known'[q] \subseteq Stop
    BY <1>0 DEF StartStop, TypeOK
  <2>2. up \subseteq Proc
    BY <1>0 DEF TypeOK
  <2>3. \A k \in Stop : owed[k] \subseteq row'[k].revoked
    BY <1>4, <1>5 DEF GrantIInv, OwedIsCopied
  <2>4. \A u \in Thread : step'[u] = "swap" => step[u] = "swap"
    BY <1>1
  <2>5. ASSUME NEW q \in up, lastSync[q] = now, NEW k \in known'[q]
        PROVE  owed[k] \subseteq kept'[q][k]
    <3>1. q \in Proc /\ k \in Stop
      BY <2>1, <2>2
    <3>2. CASE k # h
      BY <2>1, <2>5, <3>1, <3>2 DEF GrantIInv, OwedIsCopied
    <3> QED
      BY <1>5, <3>2
  <2> QED
    BY <1>3, <2>3, <2>4, <2>5 DEF GrantIInv, OwedIsCopied
<1>8. GrantsNotLost'
  <2> SUFFICES ASSUME NEW k \in Stop, NEW g \in owed[k] \ expired,
                      ~ (k \in InForce(row') /\ g \in row'[k].revoked)
               PROVE  \E u \in Thread :
                        step'[u] \in {"restore", "save"} /\ about'[u] = k /\ g \in hand'[u]
    BY <1>3 DEF GrantsNotLost
  <2>1. k # h
    BY <1>5
  <2>2. ~ (k \in InForce(row) /\ g \in row[k].revoked)
    BY <1>4, <2>1 DEF InForce
  <2>3. PICK u \in Thread : step[u] \in {"restore", "save"} /\ about[u] = k /\ g \in hand[u]
    BY <2>2 DEF GrantIInv, GrantsNotLost
  <2> QED
    BY <1>1, <1>2, <1>3, <2>3
<1> QED
  BY <1>6, <1>7, <1>8

(* The grants taken are recorded with the stop, or their record fails, or  *)
(* the process no longer knows the stop: none was on record before.        *)
LEMMA RecordGrants ==
  ASSUME GrantIInv, NEW t \in Thread, RecordRevoked(t)
  PROVE  BeginningHolds' /\ OwedIsCopied' /\ GrantsNotLost'
<1> DEFINE p == at[t]
           h == about[t]
           taken == kept[p][h] \cup hand[t]
<1>0. TypeOK /\ p \in Proc /\ Done(t) /\ step[t] = "record"
  BY DEF GrantIInv, StopIInv, TypeOK, RecordRevoked
<1>1. /\ h \in Stop /\ row[h].state # "none" /\ row[h].revoked = {} /\ owed[h] = {}
      /\ \A u \in Thread \ {t} : step[u] \in {"revoke", "record"} => about[u] # h
  BY <1>0 DEF GrantIInv, BeginningHolds, OwedIsCopied
<1>2. UNCHANGED <<up, now, owed, expired, known, lastSync>>
  BY DEF RecordRevoked, grantVars
<1>3. /\ step'[t] = "idle"
      /\ \A u \in Thread \ {t} :
           /\ step'[u] = step[u] /\ about'[u] = about[u] /\ hand'[u] = hand[u]
           /\ read'[u] = read[u]
  BY <1>0, DoneGrants
<1>4. \A k \in Stop \ {h} : row'[k] = row[k]
  BY <1>0, <1>1 DEF RecordRevoked, TypeOK
<1>5. row'[h].state = row[h].state
  <2>1. taken \in SUBSET Grant
    BY <1>0, <1>1 DEF TypeOK
  <2>2. row'[h] = row[h] \/ row'[h] = [row[h] EXCEPT !.revoked = taken]
    BY <1>0, <1>1 DEF RecordRevoked, TypeOK
  <2>3. row[h] \in Row
    BY <1>0, <1>1 DEF TypeOK
  <2>4. [row[h] EXCEPT !.revoked = taken].state = row[h].state
    BY <2>1, <2>3, RowChanges
  <2> QED
    BY <2>2, <2>4
<1>6. \A q \in Proc, k \in Stop \ {h} : kept'[q][k] = kept[q][k]
  <2>1. kept' = kept \/ kept' = [kept EXCEPT ![p][h] = taken]
    BY DEF RecordRevoked
  <2>2. kept \in [Proc -> [Stop -> SUBSET Grant]]
    BY <1>0 DEF TypeOK
  <2> QED
    BY <1>0, <1>1, <2>1, <2>2
<1>7. BeginningHolds'
  <2>1. \A u \in Thread : step'[u] \in {"revoke", "record"} =>
          u # t /\ step[u] \in {"revoke", "record"} /\ about'[u] = about[u] /\ about[u] # h
    BY <1>1, <1>3
  <2>2. \A k \in Stop : row'[k].state = "none" => row'[k].revoked = {}
    BY <1>1, <1>4, <1>5 DEF GrantIInv, BeginningHolds
  <2> QED
    BY <1>4, <2>1, <2>2 DEF GrantIInv, BeginningHolds
<1>8. OwedIsCopied'
  <2>1. \A k \in Stop : owed[k] \subseteq row'[k].revoked
    BY <1>1, <1>4 DEF GrantIInv, OwedIsCopied
  <2>2. \A u \in Thread : step'[u] = "swap" => step[u] = "swap" /\ read'[u] = read[u]
    BY <1>3
  <2>3. ASSUME NEW q \in up, lastSync[q] = now, NEW k \in known[q]
        PROVE  owed[k] \subseteq kept'[q][k]
    <3>1. q \in Proc /\ k \in Stop
      BY <1>0 DEF TypeOK
    <3>2. CASE k # h
      BY <1>6, <2>3, <3>1, <3>2 DEF GrantIInv, OwedIsCopied
    <3> QED
      BY <1>1, <3>2
  <2> QED
    BY <1>2, <2>1, <2>2, <2>3 DEF GrantIInv, OwedIsCopied
<1>9. GrantsNotLost'
  <2> SUFFICES ASSUME NEW k \in Stop, NEW g \in owed[k] \ expired,
                      ~ (k \in InForce(row') /\ g \in row'[k].revoked)
               PROVE  \E u \in Thread :
                        step'[u] \in {"restore", "save"} /\ about'[u] = k /\ g \in hand'[u]
    BY <1>2 DEF GrantsNotLost
  <2>1. k # h
    BY <1>1
  <2>2. ~ (k \in InForce(row) /\ g \in row[k].revoked)
    BY <1>4, <2>1 DEF InForce
  <2>3. PICK u \in Thread : step[u] \in {"restore", "save"} /\ about[u] = k /\ g \in hand[u]
    BY <2>2 DEF GrantIInv, GrantsNotLost
  <2> QED
    BY <1>0, <1>3, <2>3
<1> QED
  BY <1>7, <1>8, <1>9

(* A resume has in hand what is owed on the stop's account.                *)
LEMMA ResumeGrants ==
  ASSUME GrantIInv, NEW t \in Thread, ResumeStop(t)
  PROVE  BeginningHolds' /\ OwedIsCopied' /\ GrantsNotLost'
<1> DEFINE p == at[t]
           h == about[t]
<1>0. TypeOK /\ p \in Proc /\ p \in up /\ h \in Stop /\ h \in known[p]
  BY DEF GrantIInv, StopIInv, TypeOK, ServedIsUp, ResumeStop, Acting
<1>1. /\ step[t] \in {"act", "blind"} /\ step'[t] = "restore" /\ hand'[t] = kept[p][h]
      /\ \A u \in Thread \ {t} : step'[u] = step[u] /\ hand'[u] = hand[u]
  BY <1>0 DEF ResumeStop, Acting, Goto, TypeOK
<1>2. UNCHANGED <<up, now, expired, about, read, lastSync>>
  BY DEF ResumeStop
<1>3. /\ row'[h].state = "resumed" /\ row'[h].revoked = row[h].revoked
      /\ \A k \in Stop \ {h} : row'[k] = row[k]
  BY <1>0 DEF ResumeStop, TypeOK, Row
<1>4. \A k \in Stop : owed'[k] \subseteq owed[k]
  BY <1>0 DEF ResumeStop, TypeOK
<1>5. owed'[h] \subseteq kept[p][h]
  <2>1. CASE step[t] = "blind"
    BY <1>0, <2>1 DEF ResumeStop, TypeOK
  <2>2. CASE step[t] = "act"
    <3>1. owed' = owed /\ lastSync[p] = now
      BY <2>2 DEF ResumeStop, GrantIInv, StopIInv, ReadIsRecent
    <3> QED
      BY <1>0, <3>1 DEF GrantIInv, OwedIsCopied
  <2> QED
    BY <1>1, <2>1, <2>2
<1>6. BeginningHolds'
  <2>1. \A k \in Stop : /\ row'[k].revoked = row[k].revoked
                       /\ (row'[k].state = "none" => row[k].state = "none")
    BY <1>3
  <2> QED
    BY <1>1, <1>2, <2>1 DEF GrantIInv, BeginningHolds
<1>7. OwedIsCopied'
  <2>1. \A k \in Stop : owed'[k] \subseteq row'[k].revoked
    BY <1>3, <1>4 DEF GrantIInv, OwedIsCopied
  <2>2. \A u \in Thread : step'[u] = "swap" => step[u] = "swap"
    BY <1>1
  <2>3. ASSUME NEW q \in up, lastSync[q] = now, NEW k \in known'[q]
        PROVE  owed'[k] \subseteq kept'[q][k]
    <3>1. q \in Proc /\ k \in Stop /\ k \in known[q]
      BY <1>0 DEF ResumeStop, TypeOK
    <3>2. kept'[q][k] = kept[q][k]
      <4>1. kept' = [kept EXCEPT ![p][h] = {}] /\ known' = [known EXCEPT ![p] = @ \ {h}]
        BY DEF ResumeStop
      <4>2. q # p \/ k # h
        BY <1>0, <4>1 DEF TypeOK
      <4>3. kept \in [Proc -> [Stop -> SUBSET Grant]]
        BY <1>0 DEF TypeOK
      <4> QED
        BY <1>0, <3>1, <4>1, <4>2, <4>3
    <3>3. owed[k] \subseteq kept[q][k]
      BY <2>3, <3>1 DEF GrantIInv, OwedIsCopied
    <3> QED
      BY <1>4, <3>1, <3>2, <3>3
  <2>4. \A u \in Thread : step'[u] = "swap" => \A k \in Stop : owed'[k] \subseteq read[u][k].revoked
    BY <1>4, <2>2 DEF GrantIInv, OwedIsCopied
  <2> QED
    BY <1>2, <2>1, <2>3, <2>4 DEF OwedIsCopied
<1>8. GrantsNotLost'
  <2> SUFFICES ASSUME NEW k \in Stop, NEW g \in owed'[k] \ expired,
                      ~ (k \in InForce(row') /\ g \in row'[k].revoked)
               PROVE  \E u \in Thread :
                        step'[u] \in {"restore", "save"} /\ about[u] = k /\ g \in hand'[u]
    BY <1>2 DEF GrantsNotLost
  <2>1. CASE k = h
    BY <1>1, <1>5, <2>1
  <2>2. CASE k # h
    <3>1. ~ (k \in InForce(row) /\ g \in row[k].revoked) /\ g \in owed[k]
      BY <1>3, <1>4, <2>2 DEF InForce
    <3>2. PICK u \in Thread : step[u] \in {"restore", "save"} /\ about[u] = k /\ g \in hand[u]
      BY <3>1 DEF GrantIInv, GrantsNotLost
    <3> QED
      BY <1>1, <3>2
  <2> QED
    BY <2>1, <2>2
<1> QED
  BY <1>6, <1>7, <1>8

(* A grant given back is no longer owed.                                   *)
LEMMA RestoreGrants ==
  ASSUME GrantIInv, NEW t \in Thread, NEW g \in Grant, RestoreGrant(t, g)
  PROVE  BeginningHolds' /\ OwedIsCopied' /\ GrantsNotLost'
<1>0. TypeOK
  BY DEF GrantIInv, StopIInv
<1>1. /\ step[t] = "restore" /\ step'[t] \in {"restore", "save"}
      /\ \A u \in Thread \ {t} : step'[u] = step[u]
  BY <1>0 DEF RestoreGrant, Goto, TypeOK
<1>2. hand'[t] = hand[t] \ {g} /\ \A u \in Thread \ {t} : hand'[u] = hand[u]
  BY <1>0 DEF RestoreGrant, TypeOK
<1>3. UNCHANGED <<row, up, now, known, kept, lastSync, expired, about, read>>
  BY DEF RestoreGrant, haltVars
<1>4. /\ \A k \in Stop : owed'[k] \subseteq owed[k]
      /\ about[t] \in Stop => g \notin owed'[about[t]]
  BY <1>0 DEF RestoreGrant, TypeOK
<1>5. BeginningHolds'
  BY <1>1, <1>3 DEF GrantIInv, BeginningHolds
<1>6. OwedIsCopied'
  <2>1. \A k \in Stop : owed'[k] \subseteq row[k].revoked
    BY <1>4 DEF GrantIInv, OwedIsCopied
  <2>2. \A u \in Thread : step'[u] = "swap" => \A k \in Stop : owed'[k] \subseteq read[u][k].revoked
    BY <1>1, <1>4 DEF GrantIInv, OwedIsCopied
  <2>3. \A q \in up : lastSync[q] = now => \A k \in known[q] : owed'[k] \subseteq kept[q][k]
    BY <1>0, <1>4 DEF GrantIInv, OwedIsCopied, TypeOK
  <2> QED
    BY <1>3, <2>1, <2>2, <2>3 DEF OwedIsCopied
<1>7. GrantsNotLost'
  <2> SUFFICES ASSUME NEW k \in Stop, NEW o \in owed'[k] \ expired,
                      ~ (k \in InForce(row) /\ o \in row[k].revoked)
               PROVE  \E u \in Thread :
                        step'[u] \in {"restore", "save"} /\ about[u] = k /\ o \in hand'[u]
    BY <1>3 DEF GrantsNotLost, InForce
  <2>1. PICK u \in Thread : step[u] \in {"restore", "save"} /\ about[u] = k /\ o \in hand[u]
    BY <1>4 DEF GrantIInv, GrantsNotLost
  <2>2. u = t => o # g
    BY <1>4, <2>1
  <2> QED
    BY <1>1, <1>2, <2>1, <2>2
<1> QED
  BY <1>5, <1>6, <1>7

(* Processes come and go; when the clock moves, what is on record then is  *)
(* what is owed from then on.                                              *)
LEMMA ProcessGrants ==
  ASSUME GrantIInv, NEW p \in Proc,
         Crash(p) \/ Restart(p) \/ Tick \/ \E g \in Grant : RevokeOne(p, g) \/ Expire(g)
  PROVE  BeginningHolds' /\ OwedIsCopied' /\ GrantsNotLost'
<1>0. TypeOK
  BY DEF GrantIInv, StopIInv
<1>1. CASE Crash(p)
  <2>1. /\ UNCHANGED <<row, now, expired, lastSync, at>> /\ up' = up \ {p}
        /\ \A q \in Proc \ {p} : known'[q] = known[q] /\ kept'[q] = kept[q]
    BY <1>0, <1>1 DEF Crash, TypeOK
  <2>2. \A u \in Thread :
          IF at[u] = p THEN step'[u] = "idle"
          ELSE /\ step'[u] = step[u] /\ about'[u] = about[u] /\ hand'[u] = hand[u]
               /\ read'[u] = read[u]
    BY <1>1 DEF Crash
  <2>3. /\ \A k \in Stop : owed'[k] \subseteq owed[k]
        /\ \A u \in Thread, k \in Stop : at[u] = p /\ about[u] = k => owed'[k] \cap hand[u] = {}
    BY <1>1 DEF Crash
  <2>4. BeginningHolds'
    <3>1. \A u \in Thread : step'[u] \in {"revoke", "record"} =>
            step[u] \in {"revoke", "record"} /\ about'[u] = about[u]
      BY <2>2
    <3> QED
      BY <2>1, <3>1 DEF GrantIInv, BeginningHolds
  <2>5. OwedIsCopied'
    <3>1. \A k \in Stop : owed'[k] \subseteq row[k].revoked
      BY <2>3 DEF GrantIInv, OwedIsCopied
    <3>2. \A u \in Thread : step'[u] = "swap" => \A k \in Stop : owed'[k] \subseteq read'[u][k].revoked
      BY <2>2, <2>3 DEF GrantIInv, OwedIsCopied
    <3>3. ASSUME NEW q \in up', lastSync[q] = now, NEW k \in known'[q]
          PROVE  owed'[k] \subseteq kept'[q][k]
      <4>1. q \in up /\ q \in Proc \ {p} /\ k \in known[q] /\ k \in Stop
        BY <1>0, <2>1, <3>3 DEF TypeOK
      <4>2. owed[k] \subseteq kept[q][k]
        BY <3>3, <4>1 DEF GrantIInv, OwedIsCopied
      <4> QED
        BY <2>1, <2>3, <4>1, <4>2
    <3> QED
      BY <2>1, <3>1, <3>2, <3>3 DEF OwedIsCopied
  <2>6. GrantsNotLost'
    <3> SUFFICES ASSUME NEW k \in Stop, NEW o \in owed'[k] \ expired,
                        ~ (k \in InForce(row) /\ o \in row[k].revoked)
                 PROVE  \E u \in Thread :
                          step'[u] \in {"restore", "save"} /\ about'[u] = k /\ o \in hand'[u]
      BY <2>1 DEF GrantsNotLost, InForce
    <3>1. PICK u \in Thread : step[u] \in {"restore", "save"} /\ about[u] = k /\ o \in hand[u]
      BY <2>3 DEF GrantIInv, GrantsNotLost
    <3>2. at[u] # p
      BY <2>3, <3>1
    <3> QED
      BY <2>2, <3>1, <3>2
  <2> QED
    BY <2>4, <2>5, <2>6
<1>2. CASE Restart(p)
  <2>1. /\ UNCHANGED <<row, now, expired, owed, step, about, hand, read>> /\ up' = up \cup {p}
        /\ \A q \in Proc \ {p} : known'[q] = known[q] /\ kept'[q] = kept[q] /\ lastSync'[q] = lastSync[q]
        /\ known'[p] = InForce(row) /\ kept'[p] = Lists(row)
    BY <1>0, <1>2 DEF Restart, TypeOK, threadVars
  <2>2. BeginningHolds' /\ GrantsNotLost'
    BY <2>1 DEF GrantIInv, BeginningHolds, GrantsNotLost
  <2>3. ASSUME NEW q \in up', lastSync'[q] = now, NEW k \in known'[q]
        PROVE  owed[k] \subseteq kept'[q][k]
    <3>1. CASE q = p
      BY <2>1, <2>3, <3>1 DEF GrantIInv, OwedIsCopied, Lists, InForce
    <3>2. CASE q # p
      <4>1. q \in up /\ q \in Proc \ {p}
        BY <1>0, <2>1, <2>3, <3>2 DEF TypeOK
      <4> QED
        BY <2>1, <2>3, <4>1 DEF GrantIInv, OwedIsCopied
    <3> QED
      BY <3>1, <3>2
  <2>4. OwedIsCopied'
    BY <2>1, <2>3 DEF GrantIInv, OwedIsCopied
  <2> QED
    BY <2>2, <2>4
<1>3. CASE Tick
  <2>1. UNCHANGED <<row, up, known, kept, lastSync, expired, step, about, hand, read>>
    BY <1>3 DEF Tick, haltVars, threadVars
  <2>2. \A k \in Stop : owed'[k] = IF k \in InForce(row) THEN row[k].revoked ELSE owed[k]
    BY <1>3 DEF Tick
  <2>3. \A t \in Thread : step[t] # "swap"
    BY <1>3 DEF Tick
  <2>4. \A q \in up : lastSync[q] # now'
    <3>1. \A q \in Proc : lastSync[q] \in Nat /\ lastSync[q] <= now
      BY <1>0 DEF GrantIInv, StopIInv, SyncedKnows, TypeOK
    <3>2. now \in Nat /\ now' = now + 1 /\ up \subseteq Proc
      BY <1>0, <1>3 DEF Tick, TypeOK
    <3> QED
      BY <3>1, <3>2
  <2>5. BeginningHolds'
    BY <2>1 DEF GrantIInv, BeginningHolds
  <2>6. OwedIsCopied'
    BY <2>1, <2>2, <2>3, <2>4 DEF GrantIInv, OwedIsCopied
  <2>7. GrantsNotLost'
    BY <2>1, <2>2 DEF GrantIInv, GrantsNotLost, InForce
  <2> QED
    BY <2>5, <2>6, <2>7
<1>4. ASSUME NEW g \in Grant, RevokeOne(p, g) \/ Expire(g)
      PROVE  BeginningHolds' /\ OwedIsCopied' /\ GrantsNotLost'
  <2>1. /\ UNCHANGED <<row, up, known, kept, lastSync, now, owed, step, about, hand, read>>
        /\ expired \subseteq expired'
    BY <1>4 DEF RevokeOne, Expire, haltVars, threadVars
  <2> QED
    BY <2>1, GrantsUndisturbed
<1> QED
  BY <1>1, <1>2, <1>3, <1>4

(* What was on a stop's record when the clock last moved is on it still,   *)
(* or on its way back: with any number of requests at a time on any number *)
(* of processes, failing statements, crashes and restarts, stops and       *)
(* resumes of other processes, grants that expire or are revoked.          *)
THEOREM GrantsAreKept == Spec => []GrantsNotLost
<1>1. Init => GrantIInv
  <2> SUFFICES ASSUME Init PROVE GrantIInv
    OBVIOUS
  <2>1. BeginningHolds /\ OwedIsCopied /\ GrantsNotLost
    BY Rows DEF Init, BeginningHolds, OwedIsCopied, GrantsNotLost
  <2> QED
    BY <2>1, InitStop DEF GrantIInv
<1>2. GrantIInv /\ [Next]_vars => GrantIInv'
  <2> SUFFICES ASSUME GrantIInv, [Next]_vars PROVE GrantIInv'
    OBVIOUS
  <2>1. StopIInv'
    BY StopStep DEF GrantIInv
  <2>2. CASE UNCHANGED vars
    <3>1. UNCHANGED <<row, up, known, kept, lastSync, now, owed, expired, step, about, hand, read>>
      BY <2>2 DEF vars, haltVars, grantVars, threadVars
    <3> QED
      BY <2>1, <3>1, GrantsUndisturbed DEF GrantIInv
  <2>3. CASE Next
    <3>1. ASSUME NEW t \in Thread, ThreadStep(t) \/ \E p \in Proc : Arrive(t, p)
          PROVE  BeginningHolds' /\ OwedIsCopied' /\ GrantsNotLost'
      <4>1. \/ \/ SkipReload(t) \/ QueryFails(t) \/ QueryHalts(t)
               \/ Match(t) \/ StartNothing(t) \/ NoStopLeft(t) \/ ResumeNothing(t) \/ RestoreDone(t)
               \/ RevokeGrants(t) \/ SaveGrant(t)
               \/ \E p \in Proc : Arrive(t, p)
            \/ SwapHalts(t) \/ RecordRevoked(t) \/ ResumeStop(t)
            \/ \E h \in Stop : StartStop(t, h)
            \/ \E g \in Grant : RestoreGrant(t, g)
        BY <3>1 DEF ThreadStep
      <4> QED
        BY <4>1, PassingGrants, SwapGrants, RecordGrants, ResumeGrants, StartGrants, RestoreGrants
    <3>2. \E p \in Proc : TRUE
      OBVIOUS
    <3> QED
      BY <2>1, <2>3, <3>1, <3>2, ProcessGrants DEF Next, GrantIInv
  <2> QED
    BY <2>2, <2>3
<1>3. GrantIInv => GrantsNotLost
  BY DEF GrantIInv
<1> QED
  BY <1>1, <1>2, <1>3, PTL DEF Spec
=============================================================================
