------------------------------- MODULE ToolCalls -------------------------------
(***************************************************************************)
(* The tool-call pipeline of one mesh7 process: an agent's call over HTTP  *)
(* (proxy.handleToolCall) or MCP (mcp.handleToolsCall) meets the emergency *)
(* stop, the decision of the policy, the approval store, and the backend.  *)
(* Beside the calls: people answering approvals, a supervisor that answers *)
(* and replays (approval.resolve), the operator who stops and resumes.     *)
(*                                                                         *)
(* The approval store is ApprovalStore, with Mesh its only process.  What  *)
(* the policy, the grants, the precedents of mem7 and the terminal prompt  *)
(* decide together is a choice: run at once, refuse, or ask.               *)
(***************************************************************************)
EXTENDS ApprovalStore

CONSTANTS
  Handler,     \* the goroutines serving calls: one for an agent that waits
               \* for each answer, more when it retries in parallel
  Paths,       \* how calls come in: "http", "mcp", "mcp-supervised"
  Supervisor,  \* whether a supervisor calls approval.resolve
  Scopes,      \* the stops the operator may start: "agent", "session"
  MaxCrashes,  \* bound on the crashes of the process
  NoId         \* a handler without an approval

ASSUME ToolCallConstants ==
  /\ Paths \subseteq {"http", "mcp", "mcp-supervised"}
  /\ Paths # {}
  /\ IsFiniteSet(Handler)
  /\ Supervisor \in BOOLEAN
  /\ Scopes \subseteq {"agent", "session"}
  /\ MaxCrashes \in Nat
  /\ NoId \notin Id
  /\ \E m \in Proc : Proc = {m}

VARIABLES
  pc,        \* Handler -> the next step of the call it serves
  path,      \* Handler -> how that call came in
  call,      \* Handler -> the call
  mine,      \* Handler -> the approval it works on
  replaying, \* the approvals approval.resolve has approved and not yet run
  traced,    \* the approvals whose trace entry is recorded
  inForce,   \* the stops in force
  pass,      \* Scope -> where handleCreateHalt stands
  inSession, \* Scope -> the approvals the traces showed to be in scope
  todo,      \* Scope -> the approvals listed and not denied yet
  waiting,   \* Scope -> the approvals that were pending when it started
  late,      \* approved although a stop had finished denying what waited
  runs,      \* Id -> how many times a tool ran on this approval
  crashes    \* how many crashes so far

callVars == <<pc, path, call, mine>>
haltVars == <<inForce, pass, inSession, todo, waiting>>
tcVars == <<callVars, haltVars, replaying, traced, late, runs, crashes>>
allVars == <<vars, tcVars>>

Mesh == CHOOSE m \in Proc : TRUE
Steps == {"idle", "claim", "refusal", "pending", "submit", "record", "wait",
          "own", "run"}

ToolTypeOK ==
  /\ TypeOK
  /\ pc \in [Handler -> Steps]
  /\ path \in [Handler -> {"http", "mcp", "mcp-supervised"}]
  /\ call \in [Handler -> Call]
  /\ mine \in [Handler -> Id \cup {NoId}]
  /\ \A h \in Handler : pc[h] \in {"record", "wait", "own"} => mine[h] # NoId
  /\ replaying \in SUBSET Id
  /\ traced \in SUBSET Id
  /\ inForce \in SUBSET Scopes
  /\ pass \in [Scopes -> {"none", "traces", "list", "deny", "over"}]
  /\ inSession \in [Scopes -> SUBSET Id]
  /\ todo \in [Scopes -> SUBSET Id]
  /\ waiting \in [Scopes -> SUBSET Id]
  /\ late \in SUBSET Id
  /\ runs \in [Id -> Nat]
  /\ crashes \in 0 .. MaxCrashes

Pending == {i \in Id : status[Mesh][i] = "pending"}

\* Where a call came in matters only while it lasts.
AnyPath == CHOOSE x \in Paths : TRUE

\* The call is answered: its handler is free for the next one.
Answered(h) ==
  /\ pc' = [pc EXCEPT ![h] = "idle"]
  /\ mine' = [mine EXCEPT ![h] = NoId]
  /\ path' = [path EXCEPT ![h] = AnyPath]
  /\ UNCHANGED call

Goto(h, step) ==
  /\ pc' = [pc EXCEPT ![h] = step]
  /\ UNCHANGED <<path, call, mine>>

\* A tool ran on approval i.
CountRun(i) == runs' = [runs EXCEPT ![i] = @ + 1]

ToolInit ==
  /\ Init
  /\ pc = [h \in Handler |-> "idle"]
  /\ path = [h \in Handler |-> AnyPath]
  /\ call = [h \in Handler |-> CHOOSE c \in Call : TRUE]
  /\ mine = [h \in Handler |-> NoId]
  /\ replaying = {}
  /\ traced = {}
  /\ inForce = {}
  /\ pass = [s \in Scopes |-> "none"]
  /\ inSession = [s \in Scopes |-> {}]
  /\ todo = [s \in Scopes |-> {}]
  /\ waiting = [s \in Scopes |-> {}]
  /\ late = {}
  /\ runs = [i \in Id |-> 0]
  /\ crashes = 0

------------------------------------------------------------------------------
(* A call *)

\* A call arrives.  A stop in force refuses it (nothing changes); so may the
\* policy, or the terminal prompt.  Otherwise it runs at once (allowed,
\* granted, precedent, approved at the terminal) and touches nothing here; or
\* it must ask.
Arrive(h, x, c) ==
  /\ Mesh \in up
  /\ pc[h] = "idle"
  /\ inForce = {}
  /\ pc' = [pc EXCEPT ![h] = IF x = "mcp" THEN "claim" ELSE "submit"]
  /\ path' = [path EXCEPT ![h] = x]
  /\ call' = [call EXCEPT ![h] = c]
  /\ UNCHANGED <<vars, haltVars, mine, replaying, traced, late, runs, crashes>>

\* ClaimApproved: a retry of an approved call runs, on that approval.
TryApproved(h) ==
  /\ pc[h] = "claim"
  /\ \/ \E i \in Id :
          /\ ClaimDecided(Mesh, i, call[h], "approved")
          /\ mine' = [mine EXCEPT ![h] = i]
          /\ pc' = [pc EXCEPT ![h] = "run"]
          /\ UNCHANGED <<path, call>>
     \/ /\ Claimable(Mesh, call[h], "approved") = {}
        /\ Goto(h, "refusal")
        /\ UNCHANGED vars
  /\ UNCHANGED <<haltVars, replaying, traced, late, runs, crashes>>

\* ClaimDenied: a retry of a refused call is told, once.
TryDenied(h) ==
  /\ pc[h] = "refusal"
  /\ \/ \E i \in Id : ClaimDecided(Mesh, i, call[h], "denied") /\ Answered(h)
     \/ /\ Claimable(Mesh, call[h], "denied") = {}
        /\ Goto(h, "pending")
        /\ UNCHANGED vars
  /\ UNCHANGED <<haltVars, replaying, traced, late, runs, crashes>>

\* Variant: every retry opens an approval.
TryPendingNever(h) ==
  /\ pc[h] = "pending"
  /\ Goto(h, "submit")
  /\ UNCHANGED <<vars, haltVars, replaying, traced, late, runs, crashes>>

\* FindPending: a retry of a waiting call is told to wait on.
TryPending(h) ==
  /\ pc[h] = "pending"
  /\ IF Waiting(Mesh, call[h]) # {} THEN Answered(h) ELSE Goto(h, "submit")
  /\ UNCHANGED <<vars, haltVars, replaying, traced, late, runs, crashes>>

\* An id is never reused, even when a crash takes every other memory of it.
NeverUsed(i) == Fresh(i) /\ runs[i] = 0

\* SubmitWithTrace.
OpenApproval(h) ==
  /\ pc[h] = "submit"
  /\ \E i \in Id : /\ NeverUsed(i)
                   /\ Submit(Mesh, i, call[h])
                   /\ mine' = [mine EXCEPT ![h] = i]
  /\ pc' = [pc EXCEPT ![h] = "record"]
  /\ UNCHANGED <<haltVars, path, call, replaying, traced, late, runs, crashes>>

\* Bound on the approvals: with none left the call goes away.
NoApprovalLeft(h) ==
  /\ pc[h] = "submit"
  /\ \A i \in Id : ~NeverUsed(i)
  /\ Answered(h)
  /\ UNCHANGED <<vars, haltVars, replaying, traced, late, runs, crashes>>

\* SubmitWithTrace has returned: Traces.Record, which ties the approval to the
\* session of the call.
RecordTrace(h) ==
  /\ pc[h] = "record"
  /\ saving[Mesh][mine[h]] = "done"
  /\ traced' = traced \cup {mine[h]}
  /\ Goto(h, "wait")
  /\ UNCHANGED <<vars, haltVars, replaying, late, runs, crashes>>

\* Variant: a timeout is no answer.
GetAnswerNoTimeout(h) ==
  /\ pc[h] = "wait"
  /\ result[Mesh][mine[h]] # "timeout"
  /\ Receive(Mesh, mine[h])
  /\ Answered(h)
  /\ UNCHANGED <<haltVars, replaying, traced, late, runs, crashes>>

\* The answer arrives: an MCP call that waited must claim its approval first;
\* the two paths that block run at once when it is a yes.
GetAnswer(h) ==
  /\ pc[h] = "wait"
  /\ Receive(Mesh, mine[h])
  /\ IF path[h] = "mcp" THEN Goto(h, "own")
     ELSE IF result[Mesh][mine[h]] = "approved" THEN Goto(h, "run")
     ELSE Answered(h)
  /\ UNCHANGED <<haltVars, replaying, traced, late, runs, crashes>>

\* Variant: the call runs on its answer whether a retry used it or not.
ClaimOwnAnyway(h) ==
  /\ pc[h] = "own"
  /\ IF status[Mesh][mine[h]] = "approved" THEN Goto(h, "run") ELSE Answered(h)
  /\ UNCHANGED <<vars, haltVars, replaying, traced, late, runs, crashes>>

\* Claim: unless a retry has used the approval meanwhile, the answer (which
\* the store keeps) is acted upon.
ClaimOwn(h) ==
  /\ pc[h] = "own"
  /\ \/ /\ Claim(Mesh, mine[h])
        /\ IF status[Mesh][mine[h]] = "approved" THEN Goto(h, "run")
           ELSE Answered(h)
     \/ /\ mine[h] \in claimed[Mesh]
        /\ Answered(h)
        /\ UNCHANGED vars
  /\ UNCHANGED <<haltVars, replaying, traced, late, runs, crashes>>

\* The short wait of an MCP call is over: its agent is told to retry.
StopWaiting(h) ==
  /\ pc[h] = "wait"
  /\ path[h] = "mcp"
  /\ Leave(Mesh, mine[h])
  /\ Answered(h)
  /\ UNCHANGED <<haltVars, replaying, traced, late, runs, crashes>>

\* ForwardAs, on approval mine[h].
Run(h) ==
  /\ pc[h] = "run"
  /\ CountRun(mine[h])
  /\ Answered(h)
  /\ UNCHANGED <<vars, haltVars, replaying, traced, late, crashes>>

------------------------------------------------------------------------------
(* People: those who answer, the supervisor, the operator *)

NoteLate(i, d) ==
  late' = IF d = "approved" /\ \E s \in inForce : pass[s] = "over"
            THEN late \cup {i} ELSE late

\* POST /approvals/{id}/approve or /deny.
Answer(i, d) ==
  /\ Resolve(Mesh, i, d)
  /\ NoteLate(i, d)
  /\ UNCHANGED <<callVars, haltVars, replaying, traced, runs, crashes>>

\* approval.resolve: Approve ...
ApproveAndReplay(i) ==
  /\ Supervisor
  /\ Resolve(Mesh, i, "approved")
  /\ NoteLate(i, "approved")
  /\ replaying' = replaying \cup {i}
  /\ UNCHANGED <<callVars, haltVars, traced, runs, crashes>>

\* ... then ForwardAs: the stop is not asked again, the approval not claimed.
Replay(i) ==
  /\ Mesh \in up
  /\ i \in replaying
  /\ replaying' = replaying \ {i}
  /\ CountRun(i)
  /\ UNCHANGED <<vars, callVars, haltVars, traced, late, crashes>>

\* handleCreateHalt: the stop is in force before anything is denied.  (Bound:
\* one stop at a time.)
StartHalt(s) ==
  /\ Mesh \in up
  /\ inForce = {}
  /\ \A t \in Scopes : pass[t] = "none"
  /\ inForce' = inForce \cup {s}
  /\ pass' = [pass EXCEPT ![s] = IF s = "session" THEN "traces" ELSE "list"]
  /\ waiting' = [waiting EXCEPT ![s] = Pending]
  /\ UNCHANGED <<vars, callVars, inSession, todo, replaying, traced, late,
                 runs, crashes>>

\* denyPendingFor a session: which approvals it had, by the recorded traces.
ReadTraces(s) ==
  /\ pass[s] = "traces"
  /\ inSession' = [inSession EXCEPT ![s] = traced]
  /\ pass' = [pass EXCEPT ![s] = "list"]
  /\ UNCHANGED <<vars, callVars, inForce, todo, waiting, replaying, traced,
                 late, runs, crashes>>

\* Variant: only the approvals a call still waits for are listed.
ListBlocked(s) ==
  /\ pass[s] = "list"
  /\ todo' = [todo EXCEPT ![s] = waiters[Mesh] \cap Pending
                 \cap (IF s = "session" THEN inSession[s] ELSE Id)]
  /\ pass' = [pass EXCEPT ![s] = "deny"]
  /\ UNCHANGED <<vars, callVars, inForce, inSession, waiting, replaying, traced,
                 late, runs, crashes>>

\* ListPending, kept to the scope.
ListWaiting(s) ==
  /\ pass[s] = "list"
  /\ todo' = [todo EXCEPT ![s] = IF s = "session" THEN Pending \cap inSession[s]
                                 ELSE Pending]
  /\ pass' = [pass EXCEPT ![s] = "deny"]
  /\ UNCHANGED <<vars, callVars, inForce, inSession, waiting, replaying, traced,
                 late, runs, crashes>>

\* The pass of a stop that is lifted and done leaves nothing behind.
PassForgotten(s) ==
  /\ pass' = [pass EXCEPT ![s] = "none"]
  /\ inSession' = [inSession EXCEPT ![s] = {}]
  /\ waiting' = [waiting EXCEPT ![s] = {}]

\* Deny, which fails when the approval was answered meanwhile.
DenyNext(s, i) ==
  /\ pass[s] = "deny"
  /\ i \in todo[s]
  /\ todo' = [todo EXCEPT ![s] = @ \ {i}]
  /\ Resolve(Mesh, i, "denied") \/ (i \notin Pending /\ UNCHANGED vars)
  /\ UNCHANGED <<callVars, inForce, pass, inSession, waiting, replaying, traced,
                 late, runs, crashes>>

DenyDone(s) ==
  /\ pass[s] = "deny"
  /\ todo[s] = {}
  /\ IF s \in inForce THEN pass' = [pass EXCEPT ![s] = "over"]
                           /\ UNCHANGED <<inSession, waiting>>
     ELSE PassForgotten(s)
  /\ UNCHANGED <<vars, callVars, inForce, todo, replaying, traced, late, runs,
                 crashes>>

\* handleResumeHalt.
ResumeHalt(s) ==
  /\ Mesh \in up
  /\ s \in inForce
  /\ inForce' = inForce \ {s}
  /\ late' = IF inForce' = {} THEN {} ELSE late
  /\ IF pass[s] = "over" THEN PassForgotten(s)
     ELSE UNCHANGED <<pass, inSession, waiting>>
  /\ UNCHANGED <<vars, callVars, todo, replaying, traced, runs, crashes>>

------------------------------------------------------------------------------
(* The process *)

\* The stops are in the database, and so are the trace ids of the approvals;
\* every call in progress, replay and deny pass is lost.
CrashAll ==
  /\ crashes < MaxCrashes
  /\ crashes' = crashes + 1
  /\ Crash(Mesh)
  /\ pc' = [h \in Handler |-> "idle"]
  /\ mine' = [h \in Handler |-> NoId]
  /\ replaying' = {}
  /\ pass' = [s \in Scopes |-> "none"]
  /\ todo' = [s \in Scopes |-> {}]
  /\ inSession' = [s \in Scopes |-> {}]
  /\ waiting' = [s \in Scopes |-> {}]
  /\ path' = [h \in Handler |-> AnyPath]
  /\ UNCHANGED <<call, inForce, traced, late, runs>>

\* The store's own steps: saving, timers, time, settings, restart.
StoreStep ==
  /\ \/ Tick
     \/ Restart(Mesh)
     \/ \E i \in Id : SaveRead(Mesh, i) \/ SaveRow(Mesh, i) \/ TimerFires(Mesh, i)
     \/ \E t \in Timeouts : Apply(Mesh, t)
  /\ UNCHANGED tcVars

CallStep(h) ==
  \/ TryApproved(h) \/ TryDenied(h) \/ TryPending(h)
  \/ OpenApproval(h) \/ NoApprovalLeft(h) \/ RecordTrace(h)
  \/ GetAnswer(h) \/ ClaimOwn(h) \/ StopWaiting(h) \/ Run(h)

HaltStep(s) ==
  \/ ReadTraces(s) \/ ListWaiting(s) \/ DenyDone(s)
  \/ \E i \in Id : DenyNext(s, i)

ToolNext ==
  \/ \E h \in Handler :
       (\E x \in Paths, c \in Call : Arrive(h, x, c)) \/ CallStep(h)
  \/ \E i \in Id : \/ \E d \in {"approved", "denied"} : Answer(i, d)
                   \/ ApproveAndReplay(i) \/ Replay(i)
  \/ \E s \in Scopes : StartHalt(s) \/ HaltStep(s) \/ ResumeHalt(s)
  \/ StoreStep
  \/ CrashAll

ToolSpec == ToolInit /\ [][ToolNext]_allVars

\* Go runs every handler; the store's goroutines are fair too.
FairToolSpec ==
  ToolSpec /\ StoreFairness /\ \A h \in Handler : WF_allVars(CallStep(h))

------------------------------------------------------------------------------
(* Properties *)

\* "The approval is used up, so a retry of the same call does not run it
\* again" (docs/approval-flow.md): a yes is good for one run.
OneRunPerApproval == \A i \in Id : runs[i] <= 1

\* How often a tool may run on one approval, at most: once for the caller that
\* blocked on it, and in each life of the process, whose claims die with it,
\* once for a claim and once for a supervisor who replays it.  A yes given
\* again, because a crash or a failed UPDATE took the first, adds nothing.
PerBlock == IF Paths = {"mcp"} THEN 0 ELSE 1
PerLife == IF Supervisor THEN 2 ELSE 1
RunsAreAccounted == \A i \in Id : runs[i] <= PerBlock + PerLife * (1 + crashes)

\* The pipeline implements the ledger: each approval is opened once, answered
\* once for good, and a tool runs on it at most once, after a yes.
LedgerAnswer ==
  [i \in Id |-> CASE status[Mesh][i] = "none" -> "none"
                  [] status[Mesh][i] = "pending" -> "open"
                  [] status[Mesh][i] = "approved" -> "granted"
                  [] OTHER -> "refused"]
L == INSTANCE Ledger WITH answer <- LedgerAnswer
ImplementsLedger == L!Spec

\* A stop that has finished its work left no call waiting that waited when it
\* began: handleCreateHalt denies under the store's lock whatever it listed,
\* and what it did not list was answered.  A stop of a session knows the
\* approvals of the session by their traces only.
StillWaiting(s) ==
  waiting[s] \cap Pending \cap (IF s = "session" THEN inSession[s] ELSE Id)
HaltAnswersWaiting ==
  \A s \in inForce : pass[s] = "over" => StillWaiting(s) = {}

\* Retries do not pile approvals up (FindPending): no more of them wait for a
\* call, or are about to be opened for it, than it has callers retrying at the
\* same time, however the retries, the answers and the timers interleave.
PendingPerCaller ==
  \A c \in Call :
    Cardinality(Waiting(Mesh, c)) +
      Cardinality({h \in Handler : pc[h] = "submit" /\ call[h] = c})
      <= Cardinality(Handler)

\* No call hangs: whatever people do, its agent gets an answer, at the timeout
\* of its approval at the latest.
EveryCallIsAnswered == \A h \in Handler : pc[h] # "idle" ~> pc[h] = "idle"

\* docs/emergency-stop.md: a stop denies the pending approvals of its session.
SessionHaltAnswersWaiting ==
  "session" \in inForce /\ pass["session"] = "over"
    => waiting["session"] \cap Pending = {}

\* halt.Message: "No tool call goes through until the halt is lifted".  Not
\* even one approved after the stop had done all it does.
LateApprovalDoesNotRun == [][\A i \in late : runs'[i] = runs[i]]_allVars

\* mcp/server.go, on the tools a stop leaves reachable (approval.resolve among
\* them): "none of them runs a tool".
VirtualToolsRunNothing ==
  [][inForce # {} /\ replaying' # replaying => runs' = runs]_allVars

\* FindPending: a retry "must meet the same approval each time, not open a new
\* one per retry".  None is opened while a yes for the same call is unused.
RetryMeetsItsApproval ==
  [][\A i \in Id :
       status[Mesh][i] = "none" /\ status'[Mesh][i] = "pending"
         => Claimable(Mesh, req'[i].call, "approved") = {}]_allVars

------------------------------------------------------------------------------
(* The inductive invariants behind these properties (ToolCallsProofs) *)

\* What a call has established when it gets to a step: its path, an approval
\* that is in the map, a yes to run on.
CallKnows(h) ==
  /\ path[h] \in Paths
  /\ pc[h] \in {"claim", "refusal", "pending", "own"} => path[h] = "mcp"
  /\ pc[h] \in {"record", "wait", "own", "run"}
       => mine[h] \in Id /\ status[Mesh][mine[h]] # "none"
  /\ pc[h] = "run" => status[Mesh][mine[h]] = "approved"
CallHolds == \A h \in Handler : CallKnows(h)

\* Only a supervisor replays, and only what was approved.
ReplayHolds == \A i \in replaying : Supervisor /\ status[Mesh][i] = "approved"

\* What waited when a stop began and waits still has yet to be denied.
PassHolds ==
  \A s \in Scopes :
    /\ \A i \in waiting[s] : status[Mesh][i] # "none"
    /\ pass[s] = "deny" => StillWaiting(s) \subseteq todo[s]
    /\ pass[s] = "over" => StillWaiting(s) = {}

\* Every run, done or about to be, was earned: in an earlier life of the
\* process, by a claim or a replay of this one, or by the call that blocked.
RunningOn(i) == {h \in Handler : pc[h] = "run" /\ mine[h] = i}
Spent(i) ==
  runs[i] + Cardinality(RunningOn(i)) + (IF i \in replaying THEN 1 ELSE 0)
Earned(i) ==
  PerLife * crashes + (IF i \in claimed[Mesh] THEN 1 ELSE 0)
    + (IF Supervisor /\ status[Mesh][i] \in Decision THEN 1 ELSE 0)
    + (IF i \in waiters[Mesh] THEN 0 ELSE PerBlock)
RunsAreEarned == \A i \in Id : Spent(i) <= Earned(i)

ToolIInv ==
  /\ IInv
  /\ ToolTypeOK
  /\ CallHolds
  /\ ReplayHolds
  /\ PassHolds
  /\ RunsAreEarned

\* All calls block on their answers, or none does; and nothing else lets an
\* approval be used twice.
OneWay == Paths = {"mcp"} \/ "mcp" \notin Paths
OneUse == OneWay /\ ~Supervisor /\ MaxCrashes = 0

\* Nothing claims what a blocked call runs on.
ClaimsAreMcp == "mcp" \notin Paths => claimed[Mesh] = {}

\* While nothing crashes: a pending approval has its call waiting, if calls
\* block; and if none does PendingPerCaller carries itself.
BlockedHolds ==
  "mcp" \notin Paths =>
    \A i \in Pending : \E h \in Handler :
      pc[h] \in {"record", "wait"} /\ mine[h] = i
RetryIInv ==
  /\ up = Proc
  /\ IsFiniteSet(Pending)
  /\ BlockedHolds
  /\ Paths = {"mcp"} => PendingPerCaller
================================================================================
