---------------------------- MODULE ApprovalStore ----------------------------
(***************************************************************************)
(* The approval store (package approval): the calls waiting for a human,   *)
(* the timer that expires each of them, the claims that use an answer up,  *)
(* and the rows that carry them across a restart.  Several processes may   *)
(* share one database, each with a map of its own.                         *)
(*                                                                         *)
(* What sync.RWMutex makes atomic is one action.  What runs outside it is  *)
(* an action of its own: SubmitWithTrace inserts under the lock, then      *)
(* encodes the row, then writes it and starts the timer.                   *)
(***************************************************************************)
EXTENDS Naturals, FiniteSets

CONSTANTS
  Proc,        \* the mesh7 processes sharing the database
  Id,          \* approval ids (newID: 8 random bytes, so always fresh)
  Call,        \* what an approval is for: agent, tool and arguments
  Timeouts,    \* values the operator may give timeout_seconds
  MaxNow,      \* bound on the clock
  DbOutcomes   \* {TRUE}: every statement succeeds; FALSE in it: some fail

ASSUME ApprovalConstants ==
  /\ Timeouts \subseteq Nat \ {0}
  /\ Timeouts # {}
  /\ MaxNow \in Nat \ {0}
  /\ DbOutcomes \subseteq BOOLEAN
  /\ DbOutcomes # {}
  /\ Call # {}

VARIABLES
  now,        \* the wall clock
  up,         \* the processes running
  req,        \* Id -> the call and the creation time, fixed by Submit
  status,     \* Proc -> Id -> the status in the map, "none" when not in it
  resolvedAt, \* Proc -> Id -> when it was decided, 0 for the zero time
  result,     \* Proc -> Id -> the content of the Result channel
  waiters,    \* Proc -> the ids whose submitting call still holds the channel
  timer,      \* Proc -> Id -> when the timeoutAfter goroutine wakes, 0 for none
  claimed,    \* Proc -> the ids already used
  saving,     \* Proc -> Id -> progress of SubmitWithTrace after the insert
  timeout,    \* Proc -> the timeout in force
  row         \* Id -> the row of table approvals

memVars == <<status, resolvedAt, result, waiters, timer, claimed, saving>>
vars == <<now, up, req, status, resolvedAt, result, waiters, timer, claimed,
          saving, timeout, row>>

Decision == {"approved", "denied", "timeout"}
Status == {"pending"} \cup Decision
Time == 0 .. MaxNow
ZeroTime == 0          \* time.Time{}: an approval never decided
NoTimer == 0
Request == [call : Call, created : Time]
Row == [status : Status \cup {"none"}, resolved : Time]
NoRow == [status |-> "none", resolved |-> ZeroTime]

TypeOK ==
  /\ now \in Time \ {0}
  /\ up \in SUBSET Proc
  /\ req \in [Id -> Request]
  /\ status \in [Proc -> [Id -> Status \cup {"none"}]]
  /\ resolvedAt \in [Proc -> [Id -> Time]]
  /\ result \in [Proc -> [Id -> {"nil", "empty"} \cup Decision]]
  /\ waiters \in [Proc -> SUBSET Id]
  /\ timer \in [Proc -> [Id -> Nat]]
  /\ claimed \in [Proc -> SUBSET Id]
  /\ saving \in [Proc -> [Id -> {"done", "inserted"} \cup Status]]
  /\ timeout \in [Proc -> Timeouts]
  /\ row \in [Id -> Row]

\* An id nobody has heard of.  (One lost with its process before it was saved
\* is free again: the bound on Id then stands for a longer supply.)
Fresh(i) ==
  /\ row[i] = NoRow
  /\ \A p \in Proc : status[p][i] = "none"

\* The rows of S a batch of independent statements manages to write.
Written(S) ==
  {W \in SUBSET S : /\ W # {} => TRUE \in DbOutcomes
                    /\ W # S => FALSE \in DbOutcomes}

Init ==
  /\ now = 1
  /\ up = Proc
  /\ req = [i \in Id |-> [call |-> CHOOSE c \in Call : TRUE, created |-> 0]]
  /\ status = [p \in Proc |-> [i \in Id |-> "none"]]
  /\ resolvedAt = [p \in Proc |-> [i \in Id |-> ZeroTime]]
  /\ result = [p \in Proc |-> [i \in Id |-> "nil"]]
  /\ waiters = [p \in Proc |-> {}]
  /\ timer = [p \in Proc |-> [i \in Id |-> NoTimer]]
  /\ claimed = [p \in Proc |-> {}]
  /\ saving = [p \in Proc |-> [i \in Id |-> "done"]]
  /\ timeout \in [Proc -> Timeouts]
  /\ row = [i \in Id |-> NoRow]

\* At MaxNow, the bound on the clock, time goes on uncounted: any timer may
\* ring.
Due(t) == t <= now \/ now = MaxNow

------------------------------------------------------------------------------
(* Operations *)

\* SubmitWithTrace, under the lock: the approval appears in the map.
Submit(p, i, c) ==
  /\ p \in up
  /\ Fresh(i)
  /\ req' = [req EXCEPT ![i] = [call |-> c, created |-> now]]
  /\ status' = [status EXCEPT ![p][i] = "pending"]
  /\ resolvedAt' = [resolvedAt EXCEPT ![p][i] = ZeroTime]
  /\ result' = [result EXCEPT ![p][i] = "empty"]
  /\ waiters' = [waiters EXCEPT ![p] = @ \cup {i}]
  /\ saving' = [saving EXCEPT ![p][i] = "inserted"]
  /\ UNCHANGED <<now, up, timer, claimed, timeout, row>>

\* dbSave reads the approval's fields, without the lock.
SaveRead(p, i) ==
  /\ p \in up
  /\ saving[p][i] = "inserted"
  /\ saving' = [saving EXCEPT ![p][i] = status[p][i]]
  /\ UNCHANGED <<now, up, req, status, resolvedAt, result, waiters, timer,
                 claimed, timeout, row>>

\* Variant: the timeout goroutine is not started.
SaveRowNoTimer(p, i) ==
  /\ p \in up
  /\ saving[p][i] \in Status
  /\ row' = [row EXCEPT ![i] = [status |-> saving[p][i], resolved |-> ZeroTime]]
  /\ saving' = [saving EXCEPT ![p][i] = "done"]
  /\ UNCHANGED <<now, up, req, status, resolvedAt, result, waiters, timer,
                 claimed, timeout>>

\* ... and inserts or replaces the row; then the timeout goroutine starts.
SaveRow(p, i) ==
  /\ p \in up
  /\ saving[p][i] \in Status
  /\ \E w \in Written({i}) :
       row' = IF i \in w
                THEN [row EXCEPT ![i] = [status |-> saving[p][i],
                                         resolved |-> ZeroTime]]
                ELSE row
  /\ timer' = [timer EXCEPT ![p][i] = now + timeout[p]]
  /\ saving' = [saving EXCEPT ![p][i] = "done"]
  /\ UNCHANGED <<now, up, req, status, resolvedAt, result, waiters, claimed,
                 timeout>>

\* What Resolve and timeoutAfter share, under the lock: the status, the one
\* value of the Result channel, and the UPDATE, which finds no row when the
\* INSERT has not happened yet.
Decide(p, i, d) ==
  /\ status' = [status EXCEPT ![p][i] = d]
  /\ resolvedAt' = [resolvedAt EXCEPT ![p][i] = now]
  /\ result' = [result EXCEPT ![p][i] = d]
  /\ \E w \in Written({i}) :
       row' = IF i \in w /\ row[i] # NoRow
                THEN [row EXCEPT ![i] = [status |-> d, resolved |-> now]]
                ELSE row

\* Variant: an approval already answered is answered again.
ResolveAny(p, i, d) ==
  /\ p \in up
  /\ status[p][i] # "none"
  /\ Decide(p, i, d)
  /\ UNCHANGED <<now, up, req, waiters, timer, claimed, saving, timeout>>

\* Resolve: a human, a supervisor or a halt answers.  Anything but a pending
\* approval is ErrNotFound or ErrAlreadyResolved, which changes nothing.
Resolve(p, i, d) ==
  /\ p \in up
  /\ status[p][i] = "pending"
  /\ Decide(p, i, d)
  /\ UNCHANGED <<now, up, req, waiters, timer, claimed, saving, timeout>>

\* Variant: a row written without asking the map.
TimerWritesRow(p, i) ==
  /\ p \in up
  /\ timer[p][i] # NoTimer
  /\ Due(timer[p][i])
  /\ timer' = [timer EXCEPT ![p][i] = NoTimer]
  /\ row' = [row EXCEPT ![i] = [status |-> "timeout", resolved |-> now]]
  /\ UNCHANGED <<now, up, req, status, resolvedAt, result, waiters, claimed,
                 saving, timeout>>

\* timeoutAfter wakes: it expires the approval, or finds it answered.
TimerFires(p, i) ==
  /\ p \in up
  /\ timer[p][i] # NoTimer
  /\ Due(timer[p][i])
  /\ timer' = [timer EXCEPT ![p][i] = NoTimer]
  /\ IF status[p][i] = "pending"
       THEN Decide(p, i, "timeout")
       ELSE UNCHANGED <<status, resolvedAt, result, row>>
  /\ UNCHANGED <<now, up, req, waiters, claimed, saving, timeout>>

\* The submitting call reads its answer from the channel.
Receive(p, i) ==
  /\ p \in up
  /\ i \in waiters[p]
  /\ saving[p][i] = "done"
  /\ result[p][i] \in Decision
  /\ result' = [result EXCEPT ![p][i] = "empty"]
  /\ waiters' = [waiters EXCEPT ![p] = @ \ {i}]
  /\ UNCHANGED <<now, up, req, status, resolvedAt, timer, claimed, saving,
                 timeout, row>>

\* A non-blocking call gives its agent the id and lets go of the channel.
Leave(p, i) ==
  /\ p \in up
  /\ i \in waiters[p]
  /\ saving[p][i] = "done"
  /\ waiters' = [waiters EXCEPT ![p] = @ \ {i}]
  /\ UNCHANGED <<now, up, req, status, resolvedAt, result, timer, claimed,
                 saving, timeout, row>>

\* The approvals ClaimApproved (d = "approved") or ClaimDenied (d = "denied")
\* may answer a call with: same call, decided so, unused, recent enough.  Map
\* order is random, so any of them may be taken.
Claimable(p, c, d) ==
  {i \in Id : /\ status[p][i] = d
              /\ req[i].call = c
              /\ i \notin claimed[p]
              /\ resolvedAt[p][i] # ZeroTime
              /\ now <= resolvedAt[p][i] + timeout[p]}

\* Variant: what a retry used stays claimable.
ClaimDecidedKept(p, i, c, d) ==
  /\ p \in up
  /\ i \in Claimable(p, c, d)
  /\ UNCHANGED vars

\* ClaimApproved and ClaimDenied, when they find one.
ClaimDecided(p, i, c, d) ==
  /\ p \in up
  /\ i \in Claimable(p, c, d)
  /\ claimed' = [claimed EXCEPT ![p] = @ \cup {i}]
  /\ UNCHANGED <<now, up, req, status, resolvedAt, result, waiters, timer,
                 saving, timeout, row>>

\* Claim(id): the call that received its own answer uses it up, or finds that
\* a retry already has.
Claim(p, i) ==
  /\ p \in up
  /\ status[p][i] \in Decision
  /\ i \notin claimed[p]
  /\ claimed' = [claimed EXCEPT ![p] = @ \cup {i}]
  /\ UNCHANGED <<now, up, req, status, resolvedAt, result, waiters, timer,
                 saving, timeout, row>>

\* FindPending: the approvals a retry of the same call would meet.
Waiting(p, c) == {i \in Id : status[p][i] = "pending" /\ req[i].call = c}

\* Apply: a new timeout, for the next timers and the next claims.
Apply(p, t) ==
  /\ p \in up
  /\ timeout' = [timeout EXCEPT ![p] = t]
  /\ UNCHANGED <<now, up, req, memVars, row>>

------------------------------------------------------------------------------
(* Time, crash and restart *)

Tick ==
  /\ now < MaxNow
  /\ now' = now + 1
  /\ UNCHANGED <<up, req, memVars, timeout, row>>

\* Everything but the rows and the configured timeout is lost.
Crash(p) ==
  /\ p \in up
  /\ up' = up \ {p}
  /\ status' = [status EXCEPT ![p] = [i \in Id |-> "none"]]
  /\ resolvedAt' = [resolvedAt EXCEPT ![p] = [i \in Id |-> ZeroTime]]
  /\ result' = [result EXCEPT ![p] = [i \in Id |-> "nil"]]
  /\ waiters' = [waiters EXCEPT ![p] = {}]
  /\ timer' = [timer EXCEPT ![p] = [i \in Id |-> NoTimer]]
  /\ claimed' = [claimed EXCEPT ![p] = {}]
  /\ saving' = [saving EXCEPT ![p] = [i \in Id |-> "done"]]
  /\ UNCHANGED <<now, req, timeout, row>>

\* The pending rows of S whose time ran out, and those that have some left.
Expired(p, S) ==
  {i \in S : row[i].status = "pending" /\ now >= req[i].created + timeout[p]}
StillOpen(p, S) ==
  {i \in S : row[i].status = "pending" /\ now < req[i].created + timeout[p]}

\* Variant: pending rows come back without channel and timer.
ReloadBare(p, loaded) ==
  /\ status' = [status EXCEPT ![p] = [i \in Id |->
        IF i \in loaded THEN row[i].status ELSE "none"]]
  /\ resolvedAt' = [resolvedAt EXCEPT ![p] = [i \in Id |->
        IF i \in loaded THEN row[i].resolved ELSE ZeroTime]]
  /\ UNCHANGED <<result, timer, row>>

\* What LoadAll makes of the rows it manages to read: a pending one gets a
\* channel and a timer for the time it has left, or expires on the spot.
Reload(p, loaded) ==
  /\ status' = [status EXCEPT ![p] = [i \in Id |->
        IF i \in Expired(p, loaded) THEN "timeout"
        ELSE IF i \in loaded THEN row[i].status ELSE "none"]]
  /\ resolvedAt' = [resolvedAt EXCEPT ![p] = [i \in Id |->
        IF i \in Expired(p, loaded) THEN now
        ELSE IF i \in loaded THEN row[i].resolved ELSE ZeroTime]]
  /\ result' = [result EXCEPT ![p] = [i \in Id |->
        IF i \in StillOpen(p, loaded) THEN "empty" ELSE "nil"]]
  /\ timer' = [timer EXCEPT ![p] = [i \in Id |->
        IF i \in StillOpen(p, loaded) THEN req[i].created + timeout[p]
        ELSE NoTimer]]
  /\ \E w \in Written(Expired(p, loaded)) :
       row' = [i \in Id |->
                 IF i \in w THEN [status |-> "timeout", resolved |-> now]
                 ELSE row[i]]

\* LoadAll, before the process serves anything.  A failing query or scan
\* leaves rows behind.
Restart(p) ==
  /\ p \notin up
  /\ up' = up \cup {p}
  /\ \E loaded \in Written({i \in Id : row[i] # NoRow}) : Reload(p, loaded)
  /\ UNCHANGED <<now, req, waiters, claimed, saving, timeout>>

------------------------------------------------------------------------------
Operate(p) ==
  \/ \E i \in Id :
       \/ \E c \in Call : Submit(p, i, c)
       \/ SaveRead(p, i)
       \/ SaveRow(p, i)
       \/ \E d \in {"approved", "denied"} : Resolve(p, i, d)
       \/ TimerFires(p, i)
       \/ Receive(p, i)
       \/ Leave(p, i)
       \/ \E c \in Call, d \in {"approved", "denied"} : ClaimDecided(p, i, c, d)
       \/ Claim(p, i)
  \/ \E t \in Timeouts : Apply(p, t)

Next == Tick \/ \E p \in Proc : Operate(p) \/ Crash(p) \/ Restart(p)

Spec == Init /\ [][Next]_vars

\* The goroutines run: a submission that started finishes, a due timer wakes.
\* The clock advances.
StoreFairness ==
  /\ WF_vars(Tick)
  /\ \A p \in Proc, i \in Id :
       /\ WF_vars(SaveRead(p, i))
       /\ WF_vars(SaveRow(p, i))
       /\ WF_vars(TimerFires(p, i))

\* A blocked call reads the answer waiting for it.
Fairness ==
  /\ StoreFairness
  /\ \A p \in Proc, i \in Id : WF_vars(Receive(p, i))

FairSpec == Spec /\ Fairness

------------------------------------------------------------------------------
(* Properties *)

\* Resolve and timeoutAfter send on a channel of capacity one while they hold
\* the lock: a pending approval's channel is always there and empty, or the
\* whole store would block.  And the answer a submitting call waits for is in
\* its channel from the decision on, and is the one the store recorded.
ChannelCarriesDecision ==
  \A p \in Proc, i \in Id :
    /\ status[p][i] = "pending" => result[p][i] = "empty"
    /\ i \in waiters[p] /\ status[p][i] \in Decision
         => result[p][i] = status[p][i]

\* Nothing stays pending without an alarm: once SubmitWithTrace has returned,
\* and after any restart, a pending approval has a timeoutAfter goroutine.
PendingIsTimed ==
  \A p \in Proc, i \in Id :
    status[p][i] = "pending" /\ saving[p][i] = "done"
      => timer[p][i] # NoTimer

\* The timer and the people who answer race for every approval; whoever comes
\* first, the answer is never changed while the process runs.
DecisionFinal ==
  [][\A p \in up \cap up', i \in Id :
       status[p][i] \in Decision => status'[p][i] = status[p][i]]_vars

\* The row never runs ahead of the map that wrote it, nor contradicts it: an
\* approval the database knows as decided is decided that way in the process,
\* across crashes, failed writes and answers that overtake the INSERT.
RowNotAhead ==
  \A p \in Proc, i \in Id :
    status[p][i] # "none" /\ row[i].status \in Decision
      => status[p][i] = row[i].status

\* What the database records as decided stays decided that way, whatever
\* crashes, reloads and late timers do.
RowDecisionFinal ==
  [][\A i \in Id : row[i].status \in Decision
                     => row'[i].status = row[i].status]_vars

\* What was decided is on disk once the submission is over: a restart then
\* finds the answer.
DecisionSaved ==
  \A p \in Proc, i \in Id :
    status[p][i] \in Decision /\ saving[p][i] = "done"
      => row[i].status = status[p][i]

\* Every approval gets an answer, a timeout at the latest (or its process
\* dies).  That the call blocked on it gets it too is EveryCallIsAnswered of
\* ToolCalls.
EveryApprovalIsDecided ==
  \A p \in Proc, i \in Id : status[p][i] = "pending" ~> status[p][i] # "pending"

------------------------------------------------------------------------------
(* The inductive invariants behind these properties (ToolCallsProofs) *)

\* A process that is down holds nothing.
DownIsEmpty ==
  \A p \in Proc \ up :
    /\ waiters[p] = {}
    /\ \A i \in Id : status[p][i] = "none" /\ saving[p][i] = "done"

\* A submission under way is about an approval of the map.
SavingIsHeld ==
  \A p \in Proc, i \in Id :
    saving[p][i] # "done" => status[p][i] # "none"

IInv ==
  /\ TypeOK
  /\ DownIsEmpty
  /\ SavingIsHeld
  /\ ChannelCarriesDecision
  /\ PendingIsTimed

\* Until the INSERT there is no row, and what it will write is what the map
\* says or said: pending, or the decision itself.
SavingMatches ==
  \A p \in Proc, i \in Id :
    saving[p][i] # "done" =>
      /\ row[i] = NoRow
      /\ saving[p][i] \in Decision => status[p][i] = saving[p][i]

\* One process on the database: a daemon that nothing else shares state with.
OneProcess == \A p, q \in Proc : p = q

\* What then holds of the rows.
RowIInv ==
  /\ IInv
  /\ SavingMatches
  /\ RowNotAhead
==============================================================================
