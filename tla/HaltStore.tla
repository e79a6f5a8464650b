------------------------------- MODULE HaltStore -------------------------------
(***************************************************************************)
(* Emergency stops (package halt, proxy/halts.go) and the temporal grants  *)
(* they take away and give back (package grant).  The stops live in one    *)
(* table that every mesh7 process copies into memory at most once per      *)
(* SyncEvery; the grants live in each process, with rows for its restart.  *)
(*                                                                         *)
(* A thread is one request: it synchronises (a query without the lock,     *)
(* then a swap under it), acts under the lock, and, for a stop or a        *)
(* resume, goes on to the grants, each call of a store being a step.       *)
(***************************************************************************)
EXTENDS Naturals, FiniteSets

CONSTANTS
  Proc,        \* the mesh7 processes sharing the database
  Thread,      \* the requests served at the same time
  Stop,        \* halt ids, always fresh
  Target,      \* what a stop may name: everything, an agent, a session
  Grant,       \* grant ids
  Covered,     \* Target -> the grants such a stop revokes
  MaxNow,      \* bound on the clock, in units of SyncEvery
  DbOutcomes,  \* FALSE in it: statements may fail
  MaxCrashes,  \* bound on the crashes
  NoGrant

ASSUME HaltConstants ==
  /\ Proc # {} /\ Target # {}
  /\ Covered \in [Target -> SUBSET Grant]
  /\ MaxNow \in Nat
  /\ DbOutcomes \in (SUBSET BOOLEAN) \ {{}}
  /\ MaxCrashes \in Nat
  /\ NoGrant \notin Grant

VARIABLES
  now,
  up,        \* the processes running
  row,       \* Stop -> its row: target, state, creation time, revoked grants
  known,     \* Proc -> the stops in its memory (Store.active)
  kept,      \* Proc -> Stop -> RevokedGrants of the copy in memory
  lastSync,  \* Proc -> when it last swapped its copy in
  grants,    \* Proc -> the grants in its memory
  grantRow,  \* the grants with a row
  issued,    \* the grants ever created
  expired,   \* the grants past their expiry
  owed,      \* Stop -> the grants on its record when the clock last moved, in
             \* force, that no resume has given back
  withdrawn, \* the grants revoked by hand
  step, at, op, about, read, hand, save, \* Thread -> the request it serves
  crashes

threadVars == <<step, at, op, about, read, hand, save>>
haltVars == <<row, known, kept, lastSync>>
grantVars == <<grants, grantRow, issued, expired, owed, withdrawn>>
vars == <<now, up, haltVars, grantVars, threadVars, crashes>>

SyncEvery == 1
Row == [target : Target, state : {"none", "active", "resumed"},
        created : 0 .. MaxNow, revoked : SUBSET Grant]
Steps == {"idle", "sync", "swap", "act", "blind", "revoke", "record", "restore", "save"}

TypeOK ==
  /\ now \in 0 .. MaxNow
  /\ up \in SUBSET Proc
  /\ row \in [Stop -> Row]
  /\ known \in [Proc -> SUBSET Stop]
  /\ kept \in [Proc -> [Stop -> SUBSET Grant]]
  /\ lastSync \in [Proc -> 0 .. MaxNow]
  /\ grants \in [Proc -> SUBSET Grant]
  /\ grantRow \in SUBSET Grant
  /\ issued \in SUBSET Grant
  /\ expired \in SUBSET issued
  /\ owed \in [Stop -> SUBSET Grant]
  /\ withdrawn \in SUBSET Grant
  /\ step \in [Thread -> Steps]
  /\ at \in [Thread -> Proc]
  /\ op \in [Thread -> {"start", "resume", "match"}]
  /\ about \in [Thread -> Target \cup Stop]
  /\ read \in [Thread -> [Stop -> Row]]
  /\ hand \in [Thread -> SUBSET Grant]
  /\ save \in [Thread -> Grant \cup {NoGrant}]
  /\ crashes \in 0 .. MaxCrashes

\* The part of S a batch of independent statements is carried out for.
Written(S) ==
  {W \in SUBSET S : /\ W # {} => TRUE \in DbOutcomes
                    /\ W # S => FALSE \in DbOutcomes}

InForce(r) == {h \in Stop : r[h].state = "active"}
Lists(r) == [h \in Stop |-> IF h \in InForce(r) THEN r[h].revoked ELSE {}]
AnyTarget == CHOOSE k \in Target : TRUE
NoRows == [h \in Stop |-> [target |-> AnyTarget, state |-> "none",
                           created |-> 0, revoked |-> {}]]

Init ==
  /\ now = 0
  /\ up = Proc
  /\ row = NoRows
  /\ known = [p \in Proc |-> {}]
  /\ kept = [p \in Proc |-> [h \in Stop |-> {}]]
  /\ lastSync = [p \in Proc |-> 0]
  /\ grants = [p \in Proc |-> {}]
  /\ grantRow = {}
  /\ issued = {}
  /\ expired = {}
  /\ owed = [h \in Stop |-> {}]
  /\ withdrawn = {}
  /\ step = [t \in Thread |-> "idle"]
  /\ at = [t \in Thread |-> CHOOSE p \in Proc : TRUE]
  /\ op = [t \in Thread |-> "match"]
  /\ about = [t \in Thread |-> AnyTarget]
  /\ read = [t \in Thread |-> NoRows]
  /\ hand = [t \in Thread |-> {}]
  /\ save = [t \in Thread |-> NoGrant]
  /\ crashes = 0

------------------------------------------------------------------------------
(* A request: synchronise, then act *)

Goto(t, s) == step' = [step EXCEPT ![t] = s]

\* The request is answered; nothing of it stays.
Done(t) ==
  /\ Goto(t, "idle")
  /\ op' = [op EXCEPT ![t] = "match"]
  /\ about' = [about EXCEPT ![t] = AnyTarget]
  /\ hand' = [hand EXCEPT ![t] = {}]
  /\ read' = [read EXCEPT ![t] = NoRows]
  /\ save' = [save EXCEPT ![t] = NoGrant]

\* Start (x a target), Resume (x a stop) or Match: all begin with syncIfStale.
Request(t, p, o, x) ==
  /\ step[t] = "idle"
  /\ p \in up
  /\ Goto(t, "sync")
  /\ at' = [at EXCEPT ![t] = p]
  /\ op' = [op EXCEPT ![t] = o]
  /\ about' = [about EXCEPT ![t] = x]
  /\ UNCHANGED <<now, up, haltVars, grantVars, read, hand, save, crashes>>

\* Variant: a copy kept one unit too long.
SkipReloadLate(t) ==
  /\ step[t] = "sync"
  /\ now - lastSync[at[t]] <= SyncEvery
  /\ Goto(t, "act")
  /\ UNCHANGED <<now, up, haltVars, grantVars, at, op, about, read, hand, save,
                 crashes>>
\* syncIfStale: the copy is fresh enough ...
SkipReload(t) ==
  /\ step[t] = "sync"
  /\ now - lastSync[at[t]] < SyncEvery
  /\ Goto(t, "act")
  /\ UNCHANGED <<now, up, haltVars, grantVars, at, op, about, read, hand, save,
                 crashes>>

\* Variant: a failed query read as no stops.
QueryFailsOpen(t) ==
  /\ step[t] = "sync"
  /\ now - lastSync[at[t]] >= SyncEvery
  /\ FALSE \in DbOutcomes
  /\ known' = [known EXCEPT ![at[t]] = {}]
  /\ Goto(t, "blind")
  /\ UNCHANGED <<now, up, row, kept, lastSync, grantVars, at, op, about, read,
                 hand, save, crashes>>

\* ... or stale, and the query fails: the stops known are kept.
QueryFails(t) ==
  /\ step[t] = "sync"
  /\ now - lastSync[at[t]] >= SyncEvery
  /\ FALSE \in DbOutcomes
  /\ Goto(t, "blind")
  /\ UNCHANGED <<now, up, haltVars, grantVars, at, op, about, read, hand, save,
                 crashes>>

\* reload: the rows are read without the lock ...
QueryHalts(t) ==
  /\ step[t] = "sync"
  /\ now - lastSync[at[t]] >= SyncEvery
  /\ TRUE \in DbOutcomes
  /\ read' = [read EXCEPT ![t] = row]
  /\ Goto(t, "swap")
  /\ UNCHANGED <<now, up, haltVars, grantVars, at, op, about, hand, save,
                 crashes>>

\* Variant: a reload that leaves the stops it knows as they are.
SwapNewHalts(t) ==
  LET p == at[t] IN
  /\ step[t] = "swap"
  /\ known' = [known EXCEPT ![p] = InForce(read[t])]
  /\ kept' = [kept EXCEPT ![p] =
                [h \in Stop |-> IF h \in known[p] THEN @[h] ELSE Lists(read[t])[h]]]
  /\ lastSync' = [lastSync EXCEPT ![p] = now]
  /\ read' = [read EXCEPT ![t] = NoRows]
  /\ Goto(t, "act")
  /\ UNCHANGED <<now, up, row, grantVars, at, op, about, hand, save, crashes>>

\* ... and replace the copy under it.
SwapHalts(t) ==
  LET p == at[t] IN
  /\ step[t] = "swap"
  /\ known' = [known EXCEPT ![p] = InForce(read[t])]
  /\ kept' = [kept EXCEPT ![p] = Lists(read[t])]
  /\ lastSync' = [lastSync EXCEPT ![p] = now]
  /\ read' = [read EXCEPT ![t] = NoRows]
  /\ Goto(t, "act")
  /\ UNCHANGED <<now, up, row, grantVars, at, op, about, hand, save, crashes>>

\* Past the check, with the copy it has.
Acting(t) == step[t] \in {"act", "blind"}

\* Match: the call is refused or goes on; nothing changes.
Match(t) ==
  /\ Acting(t) /\ op[t] = "match"
  /\ Done(t)
  /\ UNCHANGED <<now, up, haltVars, grantVars, at, crashes>>

\* Start finds the stop already there, or fails to insert it.
StartNothing(t) ==
  /\ Acting(t) /\ op[t] = "start"
  /\ \/ \E h \in known[at[t]] : row[h].target = about[t]
     \/ FALSE \in DbOutcomes
  /\ Done(t)
  /\ UNCHANGED <<now, up, haltVars, grantVars, at, crashes>>

\* Start inserts a row and remembers the stop; handleCreateHalt goes on.
StartStop(t, h) ==
  LET p == at[t] IN
  /\ Acting(t) /\ op[t] = "start"
  /\ \A other \in known[p] : row[other].target # about[t]
  /\ TRUE \in DbOutcomes
  /\ row[h].state = "none"
  /\ row' = [row EXCEPT ![h] = [target |-> about[t], state |-> "active",
                                created |-> now, revoked |-> {}]]
  /\ known' = [known EXCEPT ![p] = @ \cup {h}]
  /\ kept' = [kept EXCEPT ![p][h] = {}]
  /\ about' = [about EXCEPT ![t] = h]
  /\ Goto(t, "revoke")
  /\ UNCHANGED <<now, up, lastSync, grantVars, at, op, read, hand, save, crashes>>

\* Bound on Stop: no id left.
NoStopLeft(t) ==
  /\ Acting(t) /\ op[t] = "start"
  /\ \A h \in Stop : row[h].state # "none"
  /\ Done(t)
  /\ UNCHANGED <<now, up, haltVars, grantVars, at, crashes>>

\* RevokeWhere: the grants in scope leave the memory and the database (a
\* DELETE that fails is not noticed).
RevokeGrants(t) ==
  LET p == at[t]
      taken == (grants[p] \cap Covered[row[about[t]].target]) \ expired
  IN
  /\ step[t] = "revoke"
  /\ grants' = [grants EXCEPT ![p] = @ \ taken]
  /\ \E gone \in Written(taken) : grantRow' = grantRow \ gone
  /\ IF taken = {} THEN Done(t)
     ELSE /\ hand' = [hand EXCEPT ![t] = taken]
          /\ Goto(t, "record")
          /\ UNCHANGED <<op, about, read, save>>
  /\ UNCHANGED <<now, up, haltVars, issued, expired, owed, withdrawn, at, crashes>>

\* RecordRevoked: kept with the stop, if this process still knows it.
RecordRevoked(t) ==
  LET p == at[t]
      h == about[t]
      taken == kept[p][h] \cup hand[t]
  IN
  /\ step[t] = "record"
  /\ IF h \in known[p]
       THEN /\ kept' = [kept EXCEPT ![p][h] = taken]
            /\ \E ok \in DbOutcomes :
                 row' = IF ok THEN [row EXCEPT ![h].revoked = taken] ELSE row
       ELSE UNCHANGED <<kept, row>>
  /\ Done(t)
  /\ UNCHANGED <<now, up, known, lastSync, grantVars, at, crashes>>

\* Resume marks the row and forgets the stop, with the grants its own copy
\* has: when the query failed, an old one.
ResumeStop(t) ==
  LET p == at[t]
      h == about[t]
  IN
  /\ Acting(t) /\ op[t] = "resume"
  /\ h \in known[p]
  /\ TRUE \in DbOutcomes
  /\ row' = [row EXCEPT ![h].state = "resumed"]
  /\ known' = [known EXCEPT ![p] = @ \ {h}]
  /\ kept' = [kept EXCEPT ![p][h] = {}]
  /\ hand' = [hand EXCEPT ![t] = kept[p][h]]
  /\ Goto(t, "restore")
  /\ owed' = IF step[t] = "blind" THEN [owed EXCEPT ![h] = @ \cap kept[p][h]] ELSE owed
  /\ UNCHANGED <<now, up, lastSync, grants, grantRow, issued, expired, withdrawn,
                 at, op, about, read, save, crashes>>

\* No such stop here, or the UPDATE failed and it stays.
ResumeNothing(t) ==
  /\ Acting(t) /\ op[t] = "resume"
  /\ about[t] \notin known[at[t]] \/ FALSE \in DbOutcomes
  /\ Done(t)
  /\ UNCHANGED <<now, up, haltVars, grantVars, at, crashes>>

\* Restore, grant by grant: back in memory unless expired or still there ...
RestoreGrant(t, g) ==
  LET p == at[t] IN
  /\ step[t] = "restore"
  /\ g \in hand[t]
  /\ hand' = [hand EXCEPT ![t] = @ \ {g}]
  /\ owed' = [owed EXCEPT ![about[t]] = @ \ {g}]
  /\ IF g \in expired \cup grants[p]
       THEN UNCHANGED <<grants, save, step>>
       ELSE /\ grants' = [grants EXCEPT ![p] = @ \cup {g}]
            /\ save' = [save EXCEPT ![t] = g]
            /\ Goto(t, "save")
  /\ UNCHANGED <<now, up, haltVars, grantRow, issued, expired, withdrawn, at, op,
                 about, read, crashes>>

RestoreDone(t) ==
  /\ step[t] = "restore"
  /\ hand[t] = {}
  /\ Done(t)
  /\ UNCHANGED <<now, up, haltVars, grantVars, at, crashes>>

\* ... then dbSave, without the lock.
SaveGrant(t) ==
  /\ step[t] = "save"
  /\ \E saved \in Written({save[t]}) : grantRow' = grantRow \cup saved
  /\ IF hand[t] = {} THEN Done(t)
     ELSE /\ save' = [save EXCEPT ![t] = NoGrant]
          /\ Goto(t, "restore")
          /\ UNCHANGED <<op, about, read, hand>>
  /\ UNCHANGED <<now, up, haltVars, grants, issued, expired, owed, withdrawn, at,
                 crashes>>

------------------------------------------------------------------------------
(* Grants, time and crashes *)

\* AddWithOrigin: a new grant is in memory, then saved (by this thread).
AddGrant(t, p, g) ==
  /\ step[t] = "idle"
  /\ p \in up
  /\ g \notin issued
  /\ issued' = issued \cup {g}
  /\ grants' = [grants EXCEPT ![p] = @ \cup {g}]
  /\ at' = [at EXCEPT ![t] = p]
  /\ save' = [save EXCEPT ![t] = g]
  /\ Goto(t, "save")
  /\ UNCHANGED <<now, up, haltVars, grantRow, expired, owed, withdrawn, op,
                 about, read, hand, crashes>>

\* Revoke: memory and row together, under the lock.
RevokeOne(p, g) ==
  /\ p \in up
  /\ g \in grants[p]
  /\ grants' = [grants EXCEPT ![p] = @ \ {g}]
  /\ \E gone \in Written({g}) : grantRow' = grantRow \ gone
  /\ withdrawn' = withdrawn \cup {g}
  /\ UNCHANGED <<now, up, haltVars, issued, expired, owed, threadVars, crashes>>

Expire(g) ==
  /\ g \in issued \ expired
  /\ expired' = expired \cup {g}
  /\ UNCHANGED <<now, up, haltVars, grants, grantRow, issued, owed, withdrawn,
                 threadVars, crashes>>

\* Assumed of the scheduler: a request is past its check within SyncEvery.
Tick ==
  /\ now < MaxNow
  /\ \A t \in Thread : step[t] \in {"idle", "revoke", "record", "restore", "save"}
  /\ now' = now + 1
  /\ owed' = [h \in Stop |-> IF h \in InForce(row) THEN row[h].revoked ELSE owed[h]]
  /\ UNCHANGED <<up, haltVars, grants, grantRow, issued, expired, withdrawn,
                 threadVars, crashes>>

Crash(p) ==
  LET mine == {t \in Thread : at[t] = p}
      reset(f, v) == [t \in Thread |-> IF t \in mine THEN v ELSE f[t]]
  IN
  /\ p \in up
  /\ crashes < MaxCrashes
  /\ crashes' = crashes + 1
  /\ up' = up \ {p}
  /\ known' = [known EXCEPT ![p] = {}]
  /\ kept' = [kept EXCEPT ![p] = [h \in Stop |-> {}]]
  /\ grants' = [grants EXCEPT ![p] = {}]
  /\ step' = reset(step, "idle")
  /\ op' = reset(op, "match")
  /\ about' = reset(about, AnyTarget)
  /\ hand' = reset(hand, {})
  /\ read' = reset(read, NoRows)
  /\ save' = reset(save, NoGrant)
  /\ owed' = [h \in Stop |->
               owed[h] \ UNION {hand[t] : t \in {u \in mine : about[u] = h}}]
  /\ UNCHANGED <<now, row, lastSync, grantRow, issued, expired, withdrawn, at>>

\* grant.LoadAll drops the rows of expired grants and loads the others;
\* halt.NewStore reloads, or the process does not start.
Restart(p) ==
  /\ p \notin up
  /\ TRUE \in DbOutcomes
  /\ up' = up \cup {p}
  /\ known' = [known EXCEPT ![p] = InForce(row)]
  /\ kept' = [kept EXCEPT ![p] = Lists(row)]
  /\ lastSync' = [lastSync EXCEPT ![p] = now]
  /\ \E gone \in Written(expired) : grantRow' = grantRow \ gone
  /\ \E loaded \in Written(grantRow \ expired) :
       grants' = [grants EXCEPT ![p] = loaded]
  /\ UNCHANGED <<now, row, issued, expired, owed, withdrawn, threadVars, crashes>>

------------------------------------------------------------------------------
ThreadStep(t) ==
  \/ SkipReload(t) \/ QueryFails(t) \/ QueryHalts(t) \/ SwapHalts(t)
  \/ Match(t) \/ StartNothing(t) \/ NoStopLeft(t)
  \/ \E h \in Stop : StartStop(t, h)
  \/ RevokeGrants(t) \/ RecordRevoked(t)
  \/ ResumeStop(t) \/ ResumeNothing(t)
  \/ \E g \in Grant : RestoreGrant(t, g)
  \/ RestoreDone(t) \/ SaveGrant(t)

Arrive(t, p) ==
  \/ Request(t, p, "match", AnyTarget)
  \/ \E k \in Target : Request(t, p, "start", k)
  \/ \E h \in Stop : Request(t, p, "resume", h)
  \/ \E g \in Grant : AddGrant(t, p, g)

Next ==
  \/ \E t \in Thread : ThreadStep(t) \/ \E p \in Proc : Arrive(t, p)
  \/ \E p \in Proc : Crash(p) \/ Restart(p) \/ \E g \in Grant : RevokeOne(p, g)
  \/ \E g \in Grant : Expire(g)
  \/ Tick

Spec == Init /\ [][Next]_vars

------------------------------------------------------------------------------
(* Properties *)

\* docs/emergency-stop.md: "every mesh7 process reloads them within a second".
\* A request that has synchronised knows every stop started SyncEvery ago or
\* more and still in force, by whichever process, restarts included.
StopReachesEveryProcess ==
  \A t \in Thread, h \in InForce(row) :
    step[t] = "act" /\ row[h].created + SyncEvery <= now => h \in known[at[t]]

\* "blocks every tool call ..., at once, and lifts the block later", and "a
\* failure cannot lift a stop": a process that knows a stop knows it until it
\* is resumed, or the process dies.
KnownUntilResumed ==
  [][\A p \in up \cap up', h \in InForce(row') :
       h \in known[p] => h \in known'[p]]_vars

\* That much holds once the stop is SyncEvery old, however many requests read
\* the rows, fail to, or swap in what they read before: in its first SyncEvery
\* rows read before its INSERT can still be swapped in over it.
KnownOnceSettled ==
  [][\A p \in up \cap up', h \in InForce(row') :
       h \in known[p] /\ row[h].created + SyncEvery <= now => h \in known'[p]]_vars

\* "Resuming lifts the stop and puts back the grants it revoked": what was on
\* a stop's record when the clock last moved stays there while the stop is in
\* force, and is on its way back once it is not, whichever process resumes it,
\* with whatever copy, and whatever reloads and other requests do meanwhile.
\* (A process that dies on its way to restore them takes them with it, and so
\* does a resume whose query failed and whose copy had not got them.)
GrantsNotLost ==
  \A h \in Stop : \A g \in owed[h] \ expired :
    \/ h \in InForce(row) /\ g \in row[h].revoked
    \/ \E t \in Thread :
         step[t] \in {"restore", "save"} /\ about[t] = h /\ g \in hand[t]

\* "Resuming lifts the stop and puts back the grants it revoked": so a stop
\* that took grants away leaves them on its record.
TakenIsRecorded ==
  [][\A t \in Thread :
       step[t] = "record" /\ step'[t] # "record" => hand[t] \subseteq row'[about[t]].revoked]_vars

\* "pressing the button twice does not stack two stops": with two, resuming
\* the one that is shown lifts nothing.
NoStackedStops ==
  \A h1, h2 \in InForce(row) : row[h1].target = row[h2].target => h1 = h2

\* grant.Store.Revoke: "removes a grant by ID or prefix".  One revoked by hand
\* is gone from the process and does not come back at its next restart.
RevokedStaysRevoked ==
  \A p \in Proc : grants[p] \cap withdrawn = {}

------------------------------------------------------------------------------
(* The inductive invariants behind them (HaltStoreProofs) *)

\* A start names a target until it has a stop, a grant to save is there.
RequestTypes ==
  \A t \in Thread :
    /\ step[t] \in {"sync", "swap", "act", "blind"} /\ op[t] = "start" => about[t] \in Target
    /\ step[t] = "save" => save[t] \in Grant

\* The process of a request that is being served runs.
ServedIsUp == \A t \in Thread : step[t] # "idle" => at[t] \in up

\* A process has every stop begun before its last synchronisation.
SyncedKnows ==
  /\ \A p \in Proc : lastSync[p] <= now
  /\ \A p \in up, h \in InForce(row) : row[h].created < lastSync[p] => h \in known[p]

\* Rows that were read and not yet swapped in hold what was begun before now,
\* and a request past its check has a copy of now.
ReadIsRecent ==
  \A t \in Thread :
    /\ step[t] = "swap" =>
         \A h \in InForce(row) : row[h].created < now => h \in InForce(read[t])
    /\ step[t] = "act" => lastSync[at[t]] = now

StopIInv == TypeOK /\ RequestTypes /\ ServedIsUp /\ SyncedKnows /\ ReadIsRecent

\* A stop that is beginning has no grants on record, and one request begins
\* it; one that never began has none either.
BeginningHolds ==
  /\ \A t \in Thread : step[t] \in {"revoke", "record"} =>
       /\ about[t] \in Stop /\ row[about[t]].state # "none"
       /\ row[about[t]].revoked = {}
       /\ \A u \in Thread :
            step[u] \in {"revoke", "record"} /\ about[u] = about[t] => u = t
  /\ \A h \in Stop : row[h].state = "none" => row[h].revoked = {}

\* What is owed is on the record, in the rows that were read and not yet
\* swapped in, and in every copy of now.
OwedIsCopied ==
  /\ \A h \in Stop : owed[h] \subseteq row[h].revoked
  /\ \A t \in Thread : step[t] = "swap" =>
       \A h \in Stop : owed[h] \subseteq read[t][h].revoked
  /\ \A p \in up : lastSync[p] = now =>
       \A h \in known[p] : owed[h] \subseteq kept[p][h]

GrantIInv == StopIInv /\ BeginningHolds /\ OwedIsCopied /\ GrantsNotLost
================================================================================
