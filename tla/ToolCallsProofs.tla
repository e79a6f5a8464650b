---------------------------- MODULE ToolCallsProofs ----------------------------
(***************************************************************************)
(* What TLC finds on small instances of the approval store and of the      *)
(* pipeline built on it, proved for any processes, approvals, calls,       *)
(* goroutines, paths, timeouts and scopes of a stop, with failing          *)
(* statements and crashes.  The store comes first: its theorems are about  *)
(* Spec, those of the pipeline about ToolSpec, and PipelineUsesStore says  *)
(* that the first hold of the second.                                      *)
(***************************************************************************)
EXTENDS ToolCalls, FiniteSetTheorems, TLAPS

\* A batch of statements writes some of its rows and no others.
LEMMA WrittenIsSubset ==
  ASSUME NEW S, NEW W \in Written(S)
  PROVE  W \subseteq S
BY DEF Written

\* A timer set at t for d rings at a real time: never the mark of no timer.
LEMMA DeadlineIsSet ==
  ASSUME NEW t \in Time, NEW d \in Timeouts
  PROVE  t + d \in Nat /\ t + d # NoTimer
<1>1. t \in Nat
  BY ApprovalConstants DEF ApprovalConstants, Time
<1>2. d \in Nat /\ d > 0
  BY ApprovalConstants DEF ApprovalConstants
<1>3. QED
  BY <1>1, <1>2 DEF NoTimer

\* What the two ways of deciding an approval leave behind is well typed.
LEMMA DecideTypes ==
  ASSUME TypeOK, NEW p \in Proc, NEW i \in Id, NEW d \in Decision,
         Decide(p, i, d)
  PROVE  /\ status' \in [Proc -> [Id -> Status \cup {"none"}]]
         /\ resolvedAt' \in [Proc -> [Id -> Time]]
         /\ result' \in [Proc -> [Id -> {"nil", "empty"} \cup Decision]]
         /\ row' \in [Id -> Row]
<1> USE DEF TypeOK, Decision, Status, Row, Decide
<1>1. status' \in [Proc -> [Id -> Status \cup {"none"}]]
  OBVIOUS
<1>2. resolvedAt' \in [Proc -> [Id -> Time]]
  OBVIOUS
<1>3. result' \in [Proc -> [Id -> {"nil", "empty"} \cup Decision]]
  OBVIOUS
<1>4. row' \in [Id -> Row]
  OBVIOUS
<1>5. QED
  BY <1>1, <1>2, <1>3, <1>4

\* The type invariant is not inductive by itself: SaveRead copies the status
\* of an approval into the row to write, which must then be a status.
LEMMA TypeStep ==
  ASSUME TypeOK, SavingIsHeld, [Next]_vars
  PROVE  TypeOK'
<1> USE DEF TypeOK, Decision, Status, NoTimer, Request, Row, NoRow
<1>0. ZeroTime \in Time
  BY ApprovalConstants DEF ApprovalConstants, Time, ZeroTime
<1>1. ASSUME Tick PROVE TypeOK'
  BY <1>1, ApprovalConstants DEF Tick, memVars, Time, ApprovalConstants
<1>2. ASSUME NEW p \in Proc, NEW i \in Id, NEW c \in Call, Submit(p, i, c)
      PROVE  TypeOK'
  BY <1>0, <1>2 DEF Submit, Fresh
<1>3. ASSUME NEW p \in Proc, NEW i \in Id, SaveRead(p, i)
      PROVE  TypeOK'
  <2>1. status[p][i] \in Status
    BY <1>3, SavingIsHeld DEF SavingIsHeld, SaveRead
  <2>2. saving' \in [Proc -> [Id -> {"done", "inserted"} \cup Status]]
    BY <1>3, <2>1 DEF SaveRead
  <2>3. QED
    BY <1>3, <2>2 DEF SaveRead
<1>4. ASSUME NEW p \in Proc, NEW i \in Id, SaveRow(p, i)
      PROVE  TypeOK'
  <2>1. row' \in [Id -> Row]
    <3>1. [status |-> saving[p][i], resolved |-> ZeroTime] \in Row
      BY <1>0, <1>4 DEF SaveRow
    <3>2. \/ row' = row
          \/ row' = [row EXCEPT ![i] = [status |-> saving[p][i],
                                        resolved |-> ZeroTime]]
      BY <1>4 DEF SaveRow
    <3>3. QED
      BY <3>1, <3>2 DEF TypeOK
  <2>2. now + timeout[p] \in Nat
    BY DeadlineIsSet
  <2>3. timer' \in [Proc -> [Id -> Nat]]
    BY <1>4, <2>2 DEF SaveRow
  <2>4. QED
    BY <1>4, <2>1, <2>3 DEF SaveRow
<1>5. ASSUME NEW p \in Proc, NEW i \in Id, NEW d \in {"approved", "denied"}, Resolve(p, i, d)
      PROVE  TypeOK'
  BY <1>5, DecideTypes DEF Resolve
<1>6. ASSUME NEW p \in Proc, NEW i \in Id, TimerFires(p, i)
      PROVE  TypeOK'
  <2>1. CASE status[p][i] = "pending"
    <3>1. Decide(p, i, "timeout")
      BY <1>6, <2>1 DEF TimerFires
    <3>2. QED
      BY <1>6, <3>1, DecideTypes DEF TimerFires
  <2>2. CASE status[p][i] # "pending"
    BY <1>6, <2>2 DEF TimerFires
  <2>3. QED
    BY <2>1, <2>2
<1>7. ASSUME NEW p \in Proc, NEW i \in Id, Receive(p, i)
      PROVE  TypeOK'
  BY <1>7 DEF Receive
<1>8. ASSUME NEW p \in Proc, NEW i \in Id, Leave(p, i)
      PROVE  TypeOK'
  BY <1>8 DEF Leave
<1>9. ASSUME NEW p \in Proc, NEW i \in Id, NEW c \in Call, NEW d \in {"approved", "denied"}, ClaimDecided(p, i, c, d)
      PROVE  TypeOK'
  BY <1>9 DEF ClaimDecided
<1>10. ASSUME NEW p \in Proc, NEW i \in Id, Claim(p, i)
      PROVE  TypeOK'
  BY <1>10 DEF Claim
<1>11. ASSUME NEW p \in Proc, NEW t \in Timeouts, Apply(p, t)
      PROVE  TypeOK'
  BY <1>11 DEF Apply, memVars
<1>12. ASSUME NEW p \in Proc, Crash(p)
      PROVE  TypeOK'
  BY <1>0, <1>12 DEF Crash
<1>13. ASSUME NEW p \in Proc, Restart(p)
      PROVE  TypeOK'
  <2>1. PICK loaded \in Written({i \in Id : row[i] # NoRow}) :
          Reload(p, loaded)
    BY <1>13 DEF Restart
  <2>2. loaded \subseteq Id /\ p \in Proc
    BY <2>1, WrittenIsSubset
  <2>3. resolvedAt' \in [Proc -> [Id -> Time]]
    BY <1>0, <2>1, <2>2 DEF Reload
  <2>4. status' \in [Proc -> [Id -> Status \cup {"none"}]]
    BY <2>1, <2>2 DEF Reload
  <2>5. result' \in [Proc -> [Id -> {"nil", "empty"} \cup Decision]]
    BY <2>1, <2>2 DEF Reload
  <2>. DEFINE left == [i \in Id |->
                 IF i \in StillOpen(p, loaded) THEN req[i].created + timeout[p]
                 ELSE NoTimer]
  <2>a. left \in [Id -> Nat]
    BY DeadlineIsSet
  <2>b. timer' = [timer EXCEPT ![p] = left]
    BY <2>1 DEF Reload
  <2>6. timer' \in [Proc -> [Id -> Nat]]
    BY <2>a, <2>b, <2>2
  <2>7. row' \in [Id -> Row]
    BY <2>1, <2>2 DEF Reload
  <2>8. QED
    BY <1>13, <2>3, <2>4, <2>5, <2>6, <2>7 DEF Restart
<1>14. CASE UNCHANGED vars
  BY <1>14 DEF vars
<1> HIDE DEF TypeOK
<1>15. QED
  BY <1>1, <1>2, <1>3, <1>4, <1>5, <1>6, <1>7, <1>8, <1>9, <1>10, <1>11, <1>12, <1>13, <1>14 DEF Next, Operate

\* Only a running process acts, and a crash takes everything from it.
LEMMA DownIsEmptyStep ==
  ASSUME IInv, [Next]_vars
  PROVE  DownIsEmpty'
<1> USE DEF IInv, TypeOK, DownIsEmpty
<1>1. ASSUME NEW p \in Proc, NEW i \in Id, NEW c \in Call, Submit(p, i, c)
      PROVE  DownIsEmpty'
  BY <1>1 DEF Submit, Fresh
<1>2. ASSUME NEW p \in Proc, NEW i \in Id, SaveRead(p, i)
      PROVE  DownIsEmpty'
  BY <1>2 DEF SaveRead
<1>3. ASSUME NEW p \in Proc, NEW i \in Id, SaveRow(p, i)
      PROVE  DownIsEmpty'
  BY <1>3 DEF SaveRow
<1>4. ASSUME NEW p \in Proc, NEW i \in Id, NEW d \in {"approved", "denied"},
             Resolve(p, i, d)
      PROVE  DownIsEmpty'
  BY <1>4 DEF Resolve, Decide
<1>5. ASSUME NEW p \in Proc, NEW i \in Id, TimerFires(p, i)
      PROVE  DownIsEmpty'
  <2>1. CASE status[p][i] = "pending"
    <3>1. Decide(p, i, "timeout") /\ UNCHANGED <<up, waiters, saving>>
      BY <1>5, <2>1 DEF TimerFires
    <3>2. p \in up
      BY <1>5 DEF TimerFires
    <3>3. status' = [status EXCEPT ![p][i] = "timeout"]
      BY <3>1 DEF Decide
    <3>4. QED
      BY <3>1, <3>2, <3>3
  <2>2. CASE status[p][i] # "pending"
    BY <1>5, <2>2 DEF TimerFires
  <2>3. QED
    BY <2>1, <2>2
<1>6. ASSUME NEW p \in Proc, NEW i \in Id, Receive(p, i)
      PROVE  DownIsEmpty'
  BY <1>6 DEF Receive
<1>7. ASSUME NEW p \in Proc, NEW i \in Id, Leave(p, i)
      PROVE  DownIsEmpty'
  BY <1>7 DEF Leave
<1>8. ASSUME NEW p \in Proc, Crash(p)
      PROVE  DownIsEmpty'
  BY <1>8 DEF Crash
<1>9. ASSUME NEW p \in Proc, Restart(p)
      PROVE  DownIsEmpty'
  <2>1. ASSUME NEW q \in Proc \ up', NEW i \in Id
        PROVE  /\ waiters'[q] = {}
               /\ status'[q][i] = "none" /\ saving'[q][i] = "done"
    <3>1. q # p /\ q \in Proc \ up
      BY <1>9, <2>1 DEF Restart
    <3>2. status'[q] = status[q]
      BY <1>9, <3>1 DEF Restart, Reload
    <3>3. QED
      BY <1>9, <3>1, <3>2 DEF Restart
  <2>2. \A q \in Proc \ up' : waiters'[q] = {}
    BY <1>9 DEF Restart
  <2>3. QED
    BY <2>1, <2>2
<1>q. ASSUME NEW p \in Proc,
             \/ \E i \in Id : Claim(p, i)
             \/ \E i \in Id, c \in Call, d \in {"approved", "denied"} :
                  ClaimDecided(p, i, c, d)
             \/ \E t \in Timeouts : Apply(p, t)
      PROVE  DownIsEmpty'
  BY <1>q DEF Claim, ClaimDecided, Apply, memVars
<1>t. CASE Tick \/ UNCHANGED vars
  BY <1>t DEF Tick, memVars, vars
<1> HIDE DEF IInv, TypeOK
<1>z. QED
  BY <1>1, <1>2, <1>3, <1>4, <1>5, <1>6, <1>7, <1>8, <1>9, <1>q, <1>t
  DEF Next, Operate

\* An approval never leaves the map of a running process.
LEMMA SavingIsHeldStep ==
  ASSUME IInv, [Next]_vars
  PROVE  SavingIsHeld'
<1> USE DEF IInv, TypeOK, SavingIsHeld, DownIsEmpty, Decision, Status
<1>1. ASSUME NEW p \in Proc, NEW i \in Id, NEW c \in Call, Submit(p, i, c)
      PROVE  SavingIsHeld'
  BY <1>1 DEF Submit, Fresh
<1>2. ASSUME NEW p \in Proc, NEW i \in Id, SaveRead(p, i)
      PROVE  SavingIsHeld'
  BY <1>2 DEF SaveRead
<1>3. ASSUME NEW p \in Proc, NEW i \in Id, SaveRow(p, i)
      PROVE  SavingIsHeld'
  BY <1>3 DEF SaveRow
<1>4. ASSUME NEW p \in Proc, NEW i \in Id, NEW d \in {"approved", "denied"},
             Resolve(p, i, d)
      PROVE  SavingIsHeld'
  BY <1>4 DEF Resolve, Decide
<1>5. ASSUME NEW p \in Proc, NEW i \in Id, TimerFires(p, i)
      PROVE  SavingIsHeld'
  <2>1. CASE status[p][i] = "pending"
    <3>1. Decide(p, i, "timeout") /\ UNCHANGED <<up, waiters, saving>>
      BY <1>5, <2>1 DEF TimerFires
    <3>2. p \in up
      BY <1>5 DEF TimerFires
    <3>3. status' = [status EXCEPT ![p][i] = "timeout"]
      BY <3>1 DEF Decide
    <3>4. QED
      BY <3>1, <3>2, <3>3
  <2>2. CASE status[p][i] # "pending"
    BY <1>5, <2>2 DEF TimerFires
  <2>3. QED
    BY <2>1, <2>2
<1>6. ASSUME NEW p \in Proc, NEW i \in Id, Receive(p, i)
      PROVE  SavingIsHeld'
  BY <1>6 DEF Receive
<1>7. ASSUME NEW p \in Proc, NEW i \in Id, Leave(p, i)
      PROVE  SavingIsHeld'
  BY <1>7 DEF Leave
<1>8. ASSUME NEW p \in Proc, Crash(p)
      PROVE  SavingIsHeld'
  BY <1>8 DEF Crash
<1>9. ASSUME NEW p \in Proc, Restart(p)
      PROVE  SavingIsHeld'
  <2>1. ASSUME NEW q \in Proc, NEW i \in Id, saving'[q][i] # "done"
        PROVE  status'[q][i] # "none"
    <3>1. saving[q][i] # "done" /\ q # p
      BY <1>9, <2>1 DEF Restart
    <3>2. status'[q] = status[q]
      BY <1>9, <3>1 DEF Restart, Reload
    <3>3. QED
      BY <3>1, <3>2
  <2>2. QED
    BY <2>1
<1>q. ASSUME NEW p \in Proc,
             \/ \E i \in Id : Claim(p, i)
             \/ \E i \in Id, c \in Call, d \in {"approved", "denied"} :
                  ClaimDecided(p, i, c, d)
             \/ \E t \in Timeouts : Apply(p, t)
      PROVE  SavingIsHeld'
  BY <1>q DEF Claim, ClaimDecided, Apply, memVars
<1>t. CASE Tick \/ UNCHANGED vars
  BY <1>t DEF Tick, memVars, vars
<1> HIDE DEF IInv, TypeOK
<1>z. QED
  BY <1>1, <1>2, <1>3, <1>4, <1>5, <1>6, <1>7, <1>8, <1>9, <1>q, <1>t
  DEF Next, Operate

\* What a reload leaves pending has time left.
LEMMA PendingIsOpen ==
  ASSUME TypeOK, NEW p \in Proc, NEW loaded \in SUBSET Id, Reload(p, loaded),
         NEW i \in Id, status'[p][i] = "pending"
  PROVE  i \in StillOpen(p, loaded)
<1>1. status'[p][i] = IF i \in Expired(p, loaded) THEN "timeout"
                      ELSE IF i \in loaded THEN row[i].status ELSE "none"
  BY DEF Reload, TypeOK
<1>2. i \in loaded /\ row[i].status = "pending" /\ i \notin Expired(p, loaded)
  BY <1>1
<1>3. now \in Nat /\ req[i].created + timeout[p] \in Nat
  <2>1. now \in Nat
    BY ApprovalConstants DEF TypeOK, Time, ApprovalConstants
  <2>2. req[i].created \in Time /\ timeout[p] \in Timeouts
    BY DEF TypeOK, Request
  <2>3. QED
    BY <2>1, <2>2, DeadlineIsSet
<1>4. QED
  BY <1>2, <1>3 DEF Expired, StillOpen

\* One send per approval, under the lock, and the receiver is the only one to
\* empty the channel.
LEMMA ChannelStep ==
  ASSUME IInv, [Next]_vars
  PROVE  ChannelCarriesDecision'
<1> USE DEF IInv, TypeOK, ChannelCarriesDecision, DownIsEmpty, Decision
<1>1. ASSUME NEW p \in Proc, NEW i \in Id, NEW c \in Call, Submit(p, i, c)
      PROVE  ChannelCarriesDecision'
  BY <1>1 DEF Submit, Fresh
<1>2. ASSUME NEW p \in Proc, NEW i \in Id, SaveRead(p, i)
      PROVE  ChannelCarriesDecision'
  BY <1>2 DEF SaveRead
<1>3. ASSUME NEW p \in Proc, NEW i \in Id, SaveRow(p, i)
      PROVE  ChannelCarriesDecision'
  BY <1>3 DEF SaveRow
<1>4. ASSUME NEW p \in Proc, NEW i \in Id, NEW d \in {"approved", "denied"},
             Resolve(p, i, d)
      PROVE  ChannelCarriesDecision'
  BY <1>4 DEF Resolve, Decide
<1>5. ASSUME NEW p \in Proc, NEW i \in Id, TimerFires(p, i)
      PROVE  ChannelCarriesDecision'
  <2>1. CASE status[p][i] = "pending"
    <3>1. Decide(p, i, "timeout") /\ UNCHANGED waiters
      BY <1>5, <2>1 DEF TimerFires
    <3>2. /\ status' = [status EXCEPT ![p][i] = "timeout"]
          /\ result' = [result EXCEPT ![p][i] = "timeout"]
      BY <3>1 DEF Decide
    <3>3. QED
      BY <3>1, <3>2
  <2>2. CASE status[p][i] # "pending"
    BY <1>5, <2>2 DEF TimerFires
  <2>3. QED
    BY <2>1, <2>2
<1>6. ASSUME NEW p \in Proc, NEW i \in Id, Receive(p, i)
      PROVE  ChannelCarriesDecision'
  BY <1>6 DEF Receive
<1>7. ASSUME NEW p \in Proc, NEW i \in Id, Leave(p, i)
      PROVE  ChannelCarriesDecision'
  BY <1>7 DEF Leave
<1>8. ASSUME NEW p \in Proc, Crash(p)
      PROVE  ChannelCarriesDecision'
  BY <1>8 DEF Crash
<1>9. ASSUME NEW p \in Proc, Restart(p)
      PROVE  ChannelCarriesDecision'
  <2>1. PICK loaded \in Written({i \in Id : row[i] # NoRow}) :
          Reload(p, loaded)
    BY <1>9 DEF Restart
  <2>2. ASSUME NEW i \in Id, status'[p][i] = "pending"
        PROVE  result'[p][i] = "empty"
    <3>1. i \in StillOpen(p, loaded)
      BY <2>1, <2>2, PendingIsOpen, WrittenIsSubset
    <3>2. QED
      BY <2>1, <3>1 DEF Reload
  <2>3. ASSUME NEW q \in Proc, q # p
        PROVE  status'[q] = status[q] /\ result'[q] = result[q]
    BY <2>1, <2>3 DEF Reload
  <2>4. waiters' = waiters /\ waiters[p] = {}
    BY <1>9 DEF Restart
  <2>5. ASSUME NEW q \in Proc, NEW i \in Id
        PROVE  /\ status'[q][i] = "pending" => result'[q][i] = "empty"
               /\ i \in waiters'[q] /\ status'[q][i] \in Decision
                    => result'[q][i] = status'[q][i]
    <3>1. CASE q = p
      BY <2>2, <2>4, <3>1
    <3>2. CASE q # p
      BY <2>3, <2>4, <3>2
    <3>3. QED
      BY <3>1, <3>2
  <2>6. QED
    BY <2>5
<1>q. ASSUME NEW p \in Proc,
             \/ \E i \in Id : Claim(p, i)
             \/ \E i \in Id, c \in Call, d \in {"approved", "denied"} :
                  ClaimDecided(p, i, c, d)
             \/ \E t \in Timeouts : Apply(p, t)
      PROVE  ChannelCarriesDecision'
  BY <1>q DEF Claim, ClaimDecided, Apply, memVars
<1>t. CASE Tick \/ UNCHANGED vars
  BY <1>t DEF Tick, memVars, vars
<1> HIDE DEF IInv, TypeOK
<1>z. QED
  BY <1>1, <1>2, <1>3, <1>4, <1>5, <1>6, <1>7, <1>8, <1>9, <1>q, <1>t
  DEF Next, Operate

\* A submission ends by starting its timer, a reload starts one for whatever it
\* leaves pending, and a timer that rings decides.
LEMMA TimedStep ==
  ASSUME IInv, [Next]_vars
  PROVE  PendingIsTimed'
<1> USE DEF IInv, TypeOK, PendingIsTimed, DownIsEmpty, Decision
<1>1. ASSUME NEW p \in Proc, NEW i \in Id, NEW c \in Call, Submit(p, i, c)
      PROVE  PendingIsTimed'
  BY <1>1 DEF Submit, Fresh
<1>2. ASSUME NEW p \in Proc, NEW i \in Id, SaveRead(p, i)
      PROVE  PendingIsTimed'
  BY <1>2 DEF SaveRead
<1>3. ASSUME NEW p \in Proc, NEW i \in Id, SaveRow(p, i)
      PROVE  PendingIsTimed'
  <2>1. now + timeout[p] # NoTimer
    BY DeadlineIsSet
  <2>2. QED
    BY <1>3, <2>1 DEF SaveRow
<1>4. ASSUME NEW p \in Proc, NEW i \in Id, NEW d \in {"approved", "denied"},
             Resolve(p, i, d)
      PROVE  PendingIsTimed'
  BY <1>4 DEF Resolve, Decide
<1>5. ASSUME NEW p \in Proc, NEW i \in Id, TimerFires(p, i)
      PROVE  PendingIsTimed'
  <2>1. CASE status[p][i] = "pending"
    <3>1. Decide(p, i, "timeout") /\ UNCHANGED saving
      BY <1>5, <2>1 DEF TimerFires
    <3>2. /\ status' = [status EXCEPT ![p][i] = "timeout"]
          /\ timer' = [timer EXCEPT ![p][i] = NoTimer]
      BY <1>5, <3>1 DEF Decide, TimerFires
    <3>3. QED
      BY <3>1, <3>2
  <2>2. CASE status[p][i] # "pending"
    BY <1>5, <2>2 DEF TimerFires
  <2>3. QED
    BY <2>1, <2>2
<1>6. ASSUME NEW p \in Proc, NEW i \in Id, Receive(p, i)
      PROVE  PendingIsTimed'
  BY <1>6 DEF Receive
<1>7. ASSUME NEW p \in Proc, NEW i \in Id, Leave(p, i)
      PROVE  PendingIsTimed'
  BY <1>7 DEF Leave
<1>8. ASSUME NEW p \in Proc, Crash(p)
      PROVE  PendingIsTimed'
  BY <1>8 DEF Crash
<1>9. ASSUME NEW p \in Proc, Restart(p)
      PROVE  PendingIsTimed'
  <2>1. PICK loaded \in Written({i \in Id : row[i] # NoRow}) :
          Reload(p, loaded)
    BY <1>9 DEF Restart
  <2>2. ASSUME NEW i \in Id, status'[p][i] = "pending"
        PROVE  timer'[p][i] # NoTimer
    <3>1. req[i].created + timeout[p] # NoTimer
      BY DeadlineIsSet DEF Request
    <3>2. timer'[p][i] = req[i].created + timeout[p]
      BY <2>1, <2>2, PendingIsOpen, WrittenIsSubset DEF Reload
    <3>3. QED
      BY <3>1, <3>2
  <2>3. ASSUME NEW q \in Proc, q # p
        PROVE  status'[q] = status[q] /\ timer'[q] = timer[q]
    BY <2>1, <2>3 DEF Reload
  <2>4. saving' = saving
    BY <1>9 DEF Restart
  <2>5. ASSUME NEW q \in Proc, NEW i \in Id,
               status'[q][i] = "pending", saving'[q][i] = "done"
        PROVE  timer'[q][i] # NoTimer
    <3>1. CASE q = p
      BY <2>2, <2>5, <3>1
    <3>2. CASE q # p
      BY <2>3, <2>4, <2>5, <3>2
    <3>3. QED
      BY <3>1, <3>2
  <2>6. QED
    BY <2>5
<1>q. ASSUME NEW p \in Proc,
             \/ \E i \in Id : Claim(p, i)
             \/ \E i \in Id, c \in Call, d \in {"approved", "denied"} :
                  ClaimDecided(p, i, c, d)
             \/ \E t \in Timeouts : Apply(p, t)
      PROVE  PendingIsTimed'
  BY <1>q DEF Claim, ClaimDecided, Apply, memVars
<1>t. CASE Tick \/ UNCHANGED vars
  BY <1>t DEF Tick, memVars, vars
<1> HIDE DEF IInv, TypeOK
<1>z. QED
  BY <1>1, <1>2, <1>3, <1>4, <1>5, <1>6, <1>7, <1>8, <1>9, <1>q, <1>t
  DEF Next, Operate

------------------------------------------------------------------------------
(* Theorems about the store *)

\* The store starts with nothing pending, saved or waited for.
LEMMA InitHolds ==
  ASSUME Init
  PROVE  IInv
BY ApprovalConstants DEF Init, ApprovalConstants, IInv, TypeOK, DownIsEmpty, SavingIsHeld,
       ChannelCarriesDecision, PendingIsTimed, Decision, Status, Time,
       ZeroTime, NoTimer, Request, Row, NoRow

\* Every step of the store keeps its invariant.
LEMMA StoreInvariantStep ==
  ASSUME IInv, [Next]_vars
  PROVE  IInv'
<1>1. TypeOK'
  BY TypeStep DEF IInv
<1>2. QED
  BY <1>1, DownIsEmptyStep, SavingIsHeldStep, ChannelStep, TimedStep DEF IInv

\* The invariant of every reachable state, on which the others rest.
THEOREM Inductive == Spec => []IInv
<1>1. Init => IInv
  BY InitHolds
<1>2. IInv /\ [Next]_vars => IInv'
  BY StoreInvariantStep
<1>3. QED
  BY <1>1, <1>2, PTL DEF Spec

\* Every variable keeps its type (ApprovalStore's structs and channels).
THEOREM TypeCorrect == Spec => []TypeOK
BY Inductive, PTL DEF IInv

\* Resolve and timeoutAfter never block on the channel they send on, and the
\* answer a call waits for is there, unaltered, from the decision on.
THEOREM AnswerIsCarried == Spec => []ChannelCarriesDecision
BY Inductive, PTL DEF IInv

\* No approval outlives its alarm, restarts included.
THEOREM AlarmIsSet == Spec => []PendingIsTimed
BY Inductive, PTL DEF IInv

\* The timer, the people who answer and the halts cannot overturn each other.
THEOREM DecisionsAreFinal == Spec => DecisionFinal
<1>1. ASSUME TypeOK, [Next]_vars,
             NEW q \in up \cap up', NEW j \in Id, status[q][j] \in Decision
      PROVE  status'[q][j] = status[q][j]
  <2> USE DEF TypeOK, Decision, Status
  <2>1. ASSUME NEW p \in Proc, NEW i \in Id, NEW c \in Call, Submit(p, i, c)
        PROVE  status'[q][j] = status[q][j]
    BY <1>1, <2>1 DEF Submit, Fresh
  <2>2. ASSUME NEW p \in Proc, NEW i \in Id,
               NEW d \in {"approved", "denied"}, Resolve(p, i, d)
        PROVE  status'[q][j] = status[q][j]
    BY <1>1, <2>2 DEF Resolve, Decide
  <2>3. ASSUME NEW p \in Proc, NEW i \in Id, TimerFires(p, i)
        PROVE  status'[q][j] = status[q][j]
    <3>1. \/ UNCHANGED status
          \/ /\ status[p][i] = "pending"
             /\ status' = [status EXCEPT ![p][i] = "timeout"]
      BY <2>3 DEF TimerFires, Decide
    <3>2. CASE p = q /\ i = j
      BY <1>1, <3>1, <3>2
    <3>3. CASE p # q \/ i # j
      BY <1>1, <3>1, <3>3
    <3>4. QED
      BY <3>2, <3>3
  <2>4. ASSUME NEW p \in Proc, Crash(p) \/ Restart(p)
        PROVE  status'[q][j] = status[q][j]
    <3>1. p # q
      BY <1>1, <2>4 DEF Crash, Restart
    <3>2. CASE Crash(p)
      BY <1>1, <3>1, <3>2 DEF Crash
    <3>3. CASE Restart(p)
      <4>1. PICK loaded \in Written({i \in Id : row[i] # NoRow}) :
              Reload(p, loaded)
        BY <3>3 DEF Restart
      <4>2. QED
        BY <1>1, <3>1, <4>1 DEF Reload
    <3>4. QED
      BY <2>4, <3>2, <3>3
  <2>5. ASSUME NEW p \in Proc,
               \/ \E i \in Id : \/ SaveRead(p, i) \/ SaveRow(p, i)
                                \/ Receive(p, i) \/ Leave(p, i)
                                \/ Claim(p, i)
                                \/ \E c \in Call, d \in {"approved", "denied"} :
                                     ClaimDecided(p, i, c, d)
               \/ \E t \in Timeouts : Apply(p, t)
        PROVE  status'[q][j] = status[q][j]
    BY <2>5 DEF SaveRead, SaveRow, Receive, Leave, Claim, ClaimDecided, Apply,
                memVars
  <2>6. CASE Tick \/ UNCHANGED vars
    BY <2>6 DEF Tick, memVars, vars
  <2> HIDE DEF TypeOK
  <2>7. QED
    BY <1>1, <2>1, <2>2, <2>3, <2>4, <2>5, <2>6 DEF Next, Operate
<1>2. TypeOK /\ [Next]_vars
        => [\A p \in up \cap up', i \in Id :
              status[p][i] \in Decision => status'[p][i] = status[p][i]]_vars
  BY <1>1
<1>3. QED
  BY <1>2, TypeCorrect, PTL DEF Spec, DecisionFinal

------------------------------------------------------------------------------
(* One process on the database *)

\* Until the row of an approval is inserted nothing else can write it; what
\* is written is what the map said, and later updates are made with the map.
LEMMA RowStep ==
  ASSUME OneProcess, RowIInv, IInv', [Next]_vars
  PROVE  SavingMatches' /\ RowNotAhead'
<1> USE DEF RowIInv, IInv, TypeOK, SavingMatches, RowNotAhead, Decision, Status
<1>1. ASSUME NEW p \in Proc, NEW i \in Id, NEW c \in Call, Submit(p, i, c)
      PROVE  SavingMatches' /\ RowNotAhead'
  BY <1>1 DEF Submit, Fresh, NoRow
<1>2. ASSUME NEW p \in Proc, NEW i \in Id, SaveRead(p, i)
      PROVE  SavingMatches' /\ RowNotAhead'
  BY <1>2 DEF SaveRead
<1>3. ASSUME NEW p \in Proc, NEW i \in Id, SaveRow(p, i)
      PROVE  SavingMatches' /\ RowNotAhead'
  <2>1. \/ row' = row
        \/ row' = [row EXCEPT ![i] = [status |-> saving[p][i],
                                      resolved |-> ZeroTime]]
    BY <1>3 DEF SaveRow
  <2>2. /\ saving' = [saving EXCEPT ![p][i] = "done"]
        /\ status' = status
        /\ saving[p][i] # "done"
    BY <1>3 DEF SaveRow
  <2>3. SavingMatches'
    BY <2>1, <2>2, OneProcess DEF OneProcess
  <2>4. RowNotAhead'
    <3>1. ASSUME NEW q \in Proc, NEW j \in Id,
                 status'[q][j] # "none", row'[j].status \in Decision
          PROVE  status'[q][j] = row'[j].status
      <4>1. q = p
        BY OneProcess DEF OneProcess
      <4>2. CASE row' = row
        BY <2>2, <3>1, <4>2
      <4>3. CASE row' # row /\ j = i
        <5>1. row'[i].status = saving[p][i]
          BY <2>1, <4>3
        <5>2. QED
          BY <2>2, <3>1, <4>1, <4>3, <5>1
      <4>4. CASE row' # row /\ j # i
        BY <2>1, <2>2, <3>1, <4>4
      <4>5. QED
        BY <4>2, <4>3, <4>4
    <3>2. QED
      BY <3>1
  <2>5. QED
    BY <2>3, <2>4
<1>4. ASSUME NEW p \in Proc, NEW i \in Id, NEW d \in Decision,
             status[p][i] = "pending", Decide(p, i, d), saving' = saving
      PROVE  SavingMatches' /\ RowNotAhead'
  <2>1. \/ row' = row
        \/ /\ row[i] # NoRow
           /\ row' = [row EXCEPT ![i] = [status |-> d, resolved |-> now]]
    BY <1>4 DEF Decide
  <2>2. status' = [status EXCEPT ![p][i] = d]
    BY <1>4 DEF Decide
  <2>3. SavingMatches'
    BY <1>4, <2>1, <2>2
  <2>4. RowNotAhead'
    <3>1. ASSUME NEW q \in Proc, NEW j \in Id,
                 status'[q][j] # "none", row'[j].status \in Decision
          PROVE  status'[q][j] = row'[j].status
      <4>1. q = p
        BY OneProcess DEF OneProcess
      <4>2. CASE j = i
        <5>1. row[i].status \notin Decision
          BY <1>4
        <5>2. row' # row
          BY <3>1, <4>2, <5>1
        <5>3. row'[i].status = d
          BY <2>1, <5>2
        <5>4. QED
          BY <2>2, <4>1, <4>2, <5>3
      <4>3. CASE j # i
        BY <2>1, <2>2, <3>1, <4>1, <4>3
      <4>4. QED
        BY <4>2, <4>3
    <3>2. QED
      BY <3>1
  <2>5. QED
    BY <2>3, <2>4
<1>5. ASSUME NEW p \in Proc, NEW i \in Id, NEW d \in {"approved", "denied"},
             Resolve(p, i, d)
      PROVE  SavingMatches' /\ RowNotAhead'
  BY <1>4, <1>5 DEF Resolve
<1>6. ASSUME NEW p \in Proc, NEW i \in Id, TimerFires(p, i)
      PROVE  SavingMatches' /\ RowNotAhead'
  <2>1. CASE status[p][i] = "pending"
    BY <1>4, <1>6, <2>1 DEF TimerFires
  <2>2. CASE status[p][i] # "pending"
    BY <1>6, <2>2 DEF TimerFires
  <2>3. QED
    BY <2>1, <2>2
<1>7. ASSUME NEW p \in Proc, Crash(p)
      PROVE  SavingMatches' /\ RowNotAhead'
  BY <1>7 DEF Crash
<1>8. ASSUME NEW p \in Proc, Restart(p)
      PROVE  SavingMatches' /\ RowNotAhead'
  <2>1. PICK loaded \in Written({i \in Id : row[i] # NoRow}) :
          Reload(p, loaded)
    BY <1>8 DEF Restart
  <2> DEFINE expired == Expired(p, loaded)
  <2>2. PICK w \in SUBSET expired :
          row' = [i \in Id |->
                    IF i \in w THEN [status |-> "timeout", resolved |-> now]
                    ELSE row[i]]
    <3>1. PICK w \in Written(expired) :
            row' = [i \in Id |->
                      IF i \in w THEN [status |-> "timeout", resolved |-> now]
                      ELSE row[i]]
      BY <2>1 DEF Reload
    <3>2. w \in SUBSET expired
      BY WrittenIsSubset
    <3>3. QED
      BY <3>1, <3>2
  <2>3. ASSUME NEW i \in Id
        PROVE  status'[p][i] = IF i \in expired THEN "timeout"
                               ELSE IF i \in loaded THEN row[i].status
                               ELSE "none"
    BY <2>1 DEF Reload
  <2>4. \A q \in Proc, i \in Id : saving'[q][i] = "done"
    BY <1>8, OneProcess DEF Restart, OneProcess, DownIsEmpty
  <2>5. RowNotAhead'
    BY <2>2, <2>3, OneProcess DEF OneProcess, Expired
  <2>6. QED
    BY <2>4, <2>5
<1>9. ASSUME NEW p \in Proc,
             \/ \E i \in Id : \/ Receive(p, i) \/ Leave(p, i) \/ Claim(p, i)
                              \/ \E c \in Call, d \in {"approved", "denied"} :
                                   ClaimDecided(p, i, c, d)
             \/ \E t \in Timeouts : Apply(p, t)
      PROVE  SavingMatches' /\ RowNotAhead'
  BY <1>9 DEF Receive, Leave, Claim, ClaimDecided, Apply, memVars
<1>t. CASE Tick \/ UNCHANGED vars
  BY <1>t DEF Tick, memVars, vars
<1> HIDE DEF RowIInv, IInv, TypeOK, SavingMatches, RowNotAhead
<1>z. QED
  BY <1>1, <1>2, <1>3, <1>5, <1>6, <1>7, <1>8, <1>9, <1>t DEF Next, Operate

\* With one process, the rows and the map stay together.
LEMMA RowInductive ==
  ASSUME OneProcess
  PROVE  Spec => []RowIInv
<1>1. Init => RowIInv
  <2>1. SUFFICES ASSUME Init PROVE RowIInv
    OBVIOUS
  <2>2. SavingMatches /\ RowNotAhead
    BY <2>1 DEF Init, SavingMatches, RowNotAhead
  <2>3. QED
    BY <2>1, <2>2, InitHolds DEF RowIInv
<1>2. RowIInv /\ IInv' /\ [Next]_vars => RowIInv'
  BY RowStep DEF RowIInv
<1>3. QED
  BY <1>1, <1>2, Inductive, PTL DEF Spec

\* The database never contradicts the only process that writes it.
THEOREM RowsFollowTheMap ==
  ASSUME OneProcess
  PROVE  Spec => []RowNotAhead
BY RowInductive, PTL DEF RowIInv

\* A recorded answer is never overwritten: an INSERT finds no row, an UPDATE
\* follows the map, and a reload expires only rows still pending.
THEOREM RowDecisionsAreFinal ==
  ASSUME OneProcess
  PROVE  Spec => RowDecisionFinal
<1>1. ASSUME RowIInv, [Next]_vars,
             NEW j \in Id, row[j].status \in Decision
      PROVE  row'[j].status = row[j].status
  <2> USE DEF TypeOK, Decision, Status
  <2>0. TypeOK /\ SavingMatches /\ RowNotAhead
    BY <1>1 DEF RowIInv, IInv
  <2>1. ASSUME NEW p \in Proc, NEW i \in Id, SaveRow(p, i)
        PROVE  row'[j].status = row[j].status
    <3>1. saving[p][i] # "done"
      BY <2>1 DEF SaveRow
    <3>2. row[i].status = "none"
      BY <2>0, <3>1 DEF SavingMatches, NoRow
    <3>3. i # j
      BY <1>1, <3>2
    <3>4. \/ row' = row
          \/ row' = [row EXCEPT ![i] = [status |-> saving[p][i],
                                        resolved |-> ZeroTime]]
      BY <2>1 DEF SaveRow
    <3>5. QED
      BY <2>0, <3>3, <3>4
  <2>2. ASSUME NEW p \in Proc, NEW i \in Id, NEW d \in Decision,
               status[p][i] = "pending", Decide(p, i, d)
        PROVE  row'[j].status = row[j].status
    <3>1. i # j
      BY <1>1, <2>0, <2>2 DEF RowNotAhead
    <3>2. \/ row' = row
          \/ row' = [row EXCEPT ![i] = [status |-> d, resolved |-> now]]
      BY <2>2 DEF Decide
    <3>3. QED
      BY <2>0, <3>1, <3>2
  <2>3. ASSUME NEW p \in Proc, NEW i \in Id,
               NEW d \in {"approved", "denied"}, Resolve(p, i, d)
        PROVE  row'[j].status = row[j].status
    BY <2>2, <2>3 DEF Resolve
  <2>4. ASSUME NEW p \in Proc, NEW i \in Id, TimerFires(p, i)
        PROVE  row'[j].status = row[j].status
    BY <2>2, <2>4 DEF TimerFires
  <2>5. ASSUME NEW p \in Proc, Restart(p)
        PROVE  row'[j].status = row[j].status
    <3>1. PICK loaded \in Written({i \in Id : row[i] # NoRow}) :
            Reload(p, loaded)
      BY <2>5 DEF Restart
    <3>2. PICK w \in Written(Expired(p, loaded)) :
            row' = [i \in Id |->
                      IF i \in w THEN [status |-> "timeout", resolved |-> now]
                      ELSE row[i]]
      BY <3>1 DEF Reload
    <3>3. j \notin w
      BY <1>1, WrittenIsSubset DEF Expired
    <3>4. QED
      BY <3>2, <3>3
  <2>6. ASSUME NEW p \in Proc,
               \/ Crash(p)
               \/ \E i \in Id : \/ SaveRead(p, i) \/ Receive(p, i)
                                \/ Leave(p, i) \/ Claim(p, i)
                                \/ \E c \in Call :
                                     \/ Submit(p, i, c)
                                     \/ \E d \in {"approved", "denied"} :
                                          ClaimDecided(p, i, c, d)
               \/ \E t \in Timeouts : Apply(p, t)
        PROVE  row'[j].status = row[j].status
    BY <2>6 DEF Crash, SaveRead, Receive, Leave, Claim, Submit, ClaimDecided,
                Apply
  <2>7. CASE Tick \/ UNCHANGED vars
    BY <2>7 DEF Tick, vars
  <2> HIDE DEF TypeOK
  <2>8. QED
    BY <1>1, <2>1, <2>3, <2>4, <2>5, <2>6, <2>7 DEF Next, Operate
<1>2. RowIInv /\ [Next]_vars
        => [\A i \in Id : row[i].status \in Decision
                            => row'[i].status = row[i].status]_vars
  BY <1>1
<1>3. QED
  BY <1>2, RowInductive, PTL DEF Spec, RowDecisionFinal

------------------------------------------------------------------------------
(* The pipeline and the store *)

\* The pipeline is one process.
LEMMA MeshOnly == Mesh \in Proc /\ OneProcess
<1>1. PICK m : Proc = {m}
  BY ToolCallConstants
<1>2. QED
  BY <1>1 DEF Mesh, OneProcess

\* A call comes in by one of the paths there are.
LEMMA PathTypes ==
  AnyPath \in Paths /\ Paths \subseteq {"http", "mcp", "mcp-supervised"}
BY ToolCallConstants DEF AnyPath

\* A step of a call that the store does not see.
PrivateStep(h) ==
  \/ \E x \in Paths, c \in Call : Arrive(h, x, c)
  \/ TryPending(h) \/ NoApprovalLeft(h) \/ RecordTrace(h) \/ Run(h)

\* A step of a stop, or of its pass over the approvals, that it does not see.
PrivatePass(s) ==
  StartHalt(s) \/ ReadTraces(s) \/ ListWaiting(s) \/ DenyDone(s) \/ ResumeHalt(s)

\* What the store does not see leaves it alone.
LEMMA StoreAlone ==
  ASSUME \/ \E h \in Handler : PrivateStep(h)
         \/ \E s \in Scopes : PrivatePass(s)
         \/ \E i \in Id : Replay(i)
  PROVE  UNCHANGED vars
BY DEF PrivateStep, PrivatePass, Arrive, TryPending, NoApprovalLeft, RecordTrace, Run,
       StartHalt, ReadTraces, ListWaiting, DenyDone, ResumeHalt, Replay

\* Every step of the pipeline is one of the store, or none.
LEMMA StoreSteps ==
  ASSUME ToolTypeOK, [ToolNext]_allVars
  PROVE  [Next]_vars
<1> USE MeshOnly DEF Next, Operate
<1>1. ASSUME NEW h \in Handler, PrivateStep(h) PROVE [Next]_vars
  BY <1>1, StoreAlone
<1>2. ASSUME NEW h \in Handler, TryApproved(h) \/ TryDenied(h) PROVE [Next]_vars
  <2>1. call[h] \in Call
    BY DEF ToolTypeOK
  <2> QED
    BY <1>2, <2>1 DEF TryApproved, TryDenied
<1>3. ASSUME NEW h \in Handler, OpenApproval(h) PROVE [Next]_vars
  <2>1. call[h] \in Call
    BY DEF ToolTypeOK
  <2> QED
    BY <1>3, <2>1 DEF OpenApproval
<1>4. ASSUME NEW h \in Handler, GetAnswer(h) \/ StopWaiting(h) PROVE [Next]_vars
  <2>1. mine[h] \in Id
    BY <1>4 DEF ToolTypeOK, GetAnswer, StopWaiting
  <2> QED
    BY <1>4, <2>1 DEF GetAnswer, StopWaiting
<1>5. ASSUME NEW h \in Handler, ClaimOwn(h) PROVE [Next]_vars
  <2>1. mine[h] \in Id
    BY <1>5 DEF ToolTypeOK, ClaimOwn
  <2> QED
    BY <1>5, <2>1 DEF ClaimOwn
<1>6. ASSUME NEW i \in Id, ApproveAndReplay(i) \/ \E d \in {"approved", "denied"} : Answer(i, d)
      PROVE  [Next]_vars
  BY <1>6 DEF ApproveAndReplay, Answer
<1>7. ASSUME NEW s \in Scopes, NEW i \in Id, DenyNext(s, i) PROVE [Next]_vars
  BY <1>7 DEF DenyNext
<1>8. CASE StoreStep \/ CrashAll
  BY <1>8 DEF StoreStep, CrashAll
<1>9. CASE UNCHANGED allVars
  BY <1>9 DEF allVars
<1>10. ASSUME NEW s \in Scopes, PrivatePass(s) PROVE [Next]_vars
  BY <1>10, StoreAlone
<1>11. ASSUME NEW i \in Id, Replay(i) PROVE [Next]_vars
  BY <1>11, StoreAlone
<1> QED
  <2> HIDE DEF Next
  <2> QED
    BY <1>1, <1>2, <1>3, <1>4, <1>5, <1>6, <1>7, <1>8, <1>9, <1>10, <1>11
    DEF ToolNext, CallStep, HaltStep, PrivateStep, PrivatePass

\* What a step of the store keeps of an approval while the process runs: it
\* stays in the map, its decision stays, and only a new one is pending.
LEMMA StoreKeeps ==
  ASSUME TypeOK, [Next]_vars, NEW p \in up \cap up', NEW j \in Id
  PROVE  /\ status[p][j] \in Decision => status'[p][j] = status[p][j]
         /\ status[p][j] # "none" => status'[p][j] # "none"
         /\ status[p][j] # "none" /\ status'[p][j] = "pending" => status[p][j] = "pending"
<1> USE DEF TypeOK, Decision, Status
<1> DEFINE Kept == /\ status[p][j] \in Decision => status'[p][j] = status[p][j]
                   /\ status[p][j] # "none" => status'[p][j] # "none"
                   /\ status[p][j] # "none" /\ status'[p][j] = "pending"
                        => status[p][j] = "pending"
<1>1. ASSUME NEW q \in Proc, NEW i \in Id, NEW c \in Call, Submit(q, i, c)
      PROVE  Kept
  BY <1>1 DEF Submit, Fresh
<1>2. ASSUME NEW q \in Proc, NEW i \in Id, NEW d \in Decision,
             status[q][i] = "pending", status' = [status EXCEPT ![q][i] = d]
      PROVE  Kept
  BY <1>2
<1>3. ASSUME NEW q \in Proc, Crash(q) \/ Restart(q)
      PROVE  status'[p] = status[p]
  <2>1. p # q
    BY <1>3 DEF Crash, Restart
  <2>2. CASE Crash(q)
    BY <2>1, <2>2 DEF Crash
  <2>3. CASE Restart(q)
    <3>1. PICK loaded \in Written({i \in Id : row[i] # NoRow}) : Reload(q, loaded)
      BY <2>3 DEF Restart
    <3>2. QED
      BY <2>1, <3>1 DEF Reload
  <2> QED
    BY <1>3, <2>2, <2>3
<1>4. ASSUME NEW q \in Proc, NEW i \in Id,
             TimerFires(q, i) \/ \E d \in {"approved", "denied"} : Resolve(q, i, d)
      PROVE  Kept
  <2>1. \/ UNCHANGED status
        \/ \E d \in Decision : status[q][i] = "pending" /\ status' = [status EXCEPT ![q][i] = d]
    BY <1>4 DEF TimerFires, Resolve, Decide
  <2> QED
    BY <1>2, <2>1
<1>5. ASSUME NEW q \in Proc,
             \/ \E i \in Id : \/ SaveRead(q, i) \/ SaveRow(q, i)
                              \/ Receive(q, i) \/ Leave(q, i) \/ Claim(q, i)
                              \/ \E c \in Call, d \in {"approved", "denied"} :
                                   ClaimDecided(q, i, c, d)
             \/ \E t \in Timeouts : Apply(q, t)
      PROVE  UNCHANGED status
  BY <1>5 DEF SaveRead, SaveRow, Receive, Leave, Claim, ClaimDecided, Apply, memVars
<1>6. CASE Tick \/ UNCHANGED vars
  BY <1>6 DEF Tick, memVars, vars
<1> HIDE DEF TypeOK
<1>7. QED
  BY <1>1, <1>3, <1>4, <1>5, <1>6 DEF Next, Operate

------------------------------------------------------------------------------
(* Types *)

\* The pipeline starts idle, with nothing earned and nothing spent.
LEMMA ToolInitHolds == ToolInit => ToolIInv
<1> SUFFICES ASSUME ToolInit PROVE ToolIInv
  OBVIOUS
<1>1. Init /\ IInv
  BY InitHolds DEF ToolInit
<1>2. ToolTypeOK
  BY <1>1, PathTypes, ToolCallConstants, ApprovalConstants DEF ToolInit, ToolTypeOK, IInv, Steps
<1>3. CallHolds /\ ReplayHolds /\ PassHolds
  BY PathTypes DEF ToolInit, CallHolds, CallKnows, ReplayHolds, PassHolds, StillWaiting
<1>4. RunsAreEarned
  <2> SUFFICES ASSUME NEW i \in Id PROVE Spent(i) <= Earned(i)
    BY DEF RunsAreEarned
  <2>1. RunningOn(i) = {}
    BY DEF ToolInit, RunningOn
  <2>2. Spent(i) = 0
    BY <2>1, FS_EmptySet DEF ToolInit, Spent
  <2>3. Earned(i) = PerBlock
    BY <1>1, MeshOnly DEF ToolInit, Init, Earned, PerLife, PerBlock, Decision
  <2> QED
    BY <2>2, <2>3 DEF PerBlock
<1> QED
  BY <1>1, <1>2, <1>3, <1>4 DEF ToolIInv

\* The variables of the calls keep their types.
LEMMA ToolTypeStep ==
  ASSUME ToolIInv, IInv', [ToolNext]_allVars
  PROVE  ToolTypeOK'
<1> USE PathTypes, ToolCallConstants
    DEF ToolTypeOK, callVars, haltVars, tcVars, Steps, Answered, Goto, CountRun, PassForgotten
<1>0. ToolTypeOK /\ TypeOK'
  BY DEF ToolIInv, IInv
<1>1. ASSUME NEW h \in Handler, NEW x \in Paths, NEW c \in Call, Arrive(h, x, c)
      PROVE  ToolTypeOK'
  BY <1>0, <1>1 DEF Arrive
<1>2. ASSUME NEW h \in Handler, TryApproved(h) PROVE ToolTypeOK'
  BY <1>0, <1>2 DEF TryApproved
<1>3. ASSUME NEW h \in Handler, TryDenied(h) \/ TryPending(h) \/ NoApprovalLeft(h) PROVE ToolTypeOK'
  <2>1. CASE TryDenied(h)
    BY <1>0, <2>1 DEF TryDenied
  <2>2. CASE TryPending(h)
    BY <1>0, <2>2 DEF TryPending
  <2>3. CASE NoApprovalLeft(h)
    BY <1>0, <2>3 DEF NoApprovalLeft
  <2> QED
    BY <1>3, <2>1, <2>2, <2>3
<1>4. ASSUME NEW h \in Handler, OpenApproval(h) PROVE ToolTypeOK'
  BY <1>0, <1>4 DEF OpenApproval
<1>5. ASSUME NEW h \in Handler, RecordTrace(h) PROVE ToolTypeOK'
  BY <1>0, <1>5 DEF RecordTrace
<1>6. ASSUME NEW h \in Handler, GetAnswer(h) \/ ClaimOwn(h) \/ StopWaiting(h) PROVE ToolTypeOK'
  <2>1. CASE GetAnswer(h)
    BY <1>0, <2>1 DEF GetAnswer
  <2>2. CASE ClaimOwn(h)
    BY <1>0, <2>2 DEF ClaimOwn
  <2>3. CASE StopWaiting(h)
    BY <1>0, <2>3 DEF StopWaiting
  <2> QED
    BY <1>6, <2>1, <2>2, <2>3
<1>7. ASSUME NEW h \in Handler, Run(h) PROVE ToolTypeOK'
  <2>1. mine[h] \in Id
    BY <1>7 DEF ToolIInv, CallHolds, CallKnows, Run
  <2>2. runs[mine[h]] + 1 \in Nat
    BY <1>0, <2>1
  <2>3. runs' \in [Id -> Nat]
    BY <1>0, <1>7, <2>1, <2>2 DEF Run
  <2> QED
    BY <1>0, <1>7, <2>3 DEF Run
<1>8. ASSUME NEW i \in Id, NEW d \in {"approved", "denied"}, Answer(i, d) PROVE ToolTypeOK'
  BY <1>0, <1>8 DEF Answer, NoteLate
<1>9. ASSUME NEW i \in Id, ApproveAndReplay(i) PROVE ToolTypeOK'
  BY <1>0, <1>9 DEF ApproveAndReplay, NoteLate
<1>10. ASSUME NEW i \in Id, Replay(i) PROVE ToolTypeOK'
  BY <1>0, <1>10 DEF Replay
<1>11. ASSUME NEW s \in Scopes, StartHalt(s) PROVE ToolTypeOK'
  <2>1. Pending \in SUBSET Id
    BY DEF Pending
  <2> QED
    BY <1>0, <1>11, <2>1 DEF StartHalt
<1>12. ASSUME NEW s \in Scopes, ReadTraces(s) \/ ListWaiting(s) \/ DenyDone(s) PROVE ToolTypeOK'
  <2>1. Pending \in SUBSET Id
    BY DEF Pending
  <2>2. CASE ReadTraces(s)
    BY <1>0, <2>2 DEF ReadTraces
  <2>3. CASE ListWaiting(s)
    BY <1>0, <2>1, <2>3 DEF ListWaiting
  <2>4. CASE DenyDone(s)
    BY <1>0, <2>4 DEF DenyDone
  <2> QED
    BY <1>12, <2>2, <2>3, <2>4
<1>13. ASSUME NEW s \in Scopes, NEW i \in Id, DenyNext(s, i) PROVE ToolTypeOK'
  BY <1>0, <1>13 DEF DenyNext
<1>14. ASSUME NEW s \in Scopes, ResumeHalt(s) PROVE ToolTypeOK'
  BY <1>0, <1>14 DEF ResumeHalt
<1>15. CASE StoreStep
  BY <1>0, <1>15 DEF StoreStep
<1>16. CASE CrashAll
  BY <1>0, <1>16 DEF CrashAll
<1>17. CASE UNCHANGED allVars
  BY <1>0, <1>17 DEF allVars
<1> HIDE DEF ToolTypeOK
<1> QED
  BY <1>1, <1>2, <1>3, <1>4, <1>5, <1>6, <1>7, <1>8, <1>9, <1>10, <1>11, <1>12, <1>13, <1>14,
     <1>15, <1>16, <1>17 DEF ToolNext, CallStep, HaltStep

------------------------------------------------------------------------------
(* What a call knows *)

\* A call that a step of the store leaves where it is knows what it knew.
LEMMA OthersKnow ==
  ASSUME TypeOK, DownIsEmpty, [Next]_vars, NEW h \in Handler, CallKnows(h),
         Mesh \in up => Mesh \in up',
         pc'[h] = pc[h], mine'[h] = mine[h], path'[h] = path[h]
  PROVE  CallKnows(h)'
<1>1. CASE Mesh \in up
  <2>1. Mesh \in up \cap up'
    BY <1>1
  <2> QED
    BY <2>1, StoreKeeps DEF CallKnows, Decision
<1>2. CASE Mesh \notin up
  BY <1>2, MeshOnly DEF CallKnows, DownIsEmpty
<1> QED
  BY <1>1, <1>2

\* A call knows at every step what the next ones rest on.
LEMMA CallHoldsStep ==
  ASSUME ToolIInv, [ToolNext]_allVars
  PROVE  CallHolds'
<1> USE PathTypes DEF callVars, haltVars, tcVars, Goto, Answered
<1>0. TypeOK /\ DownIsEmpty /\ ToolTypeOK /\ CallHolds /\ [Next]_vars
  BY StoreSteps DEF ToolIInv, IInv
<1>m. Mesh \in Proc
  BY MeshOnly
<1>o. ASSUME NEW h \in Handler, \A k \in Handler \ {h} :
                pc'[k] = pc[k] /\ mine'[k] = mine[k] /\ path'[k] = path[k],
             Mesh \in up => Mesh \in up', CallKnows(h)'
      PROVE  CallHolds'
  BY <1>0, <1>o, OthersKnow DEF CallHolds
<1>a. ASSUME UNCHANGED callVars, Mesh \in up => Mesh \in up' PROVE CallHolds'
  BY <1>0, <1>a, OthersKnow DEF CallHolds
<1>k. ASSUME NEW h \in Handler PROVE CallKnows(h) /\ pc[h] \in Steps /\ h \in Handler
  BY <1>0 DEF CallHolds, ToolTypeOK
<1>i. ASSUME NEW h \in Handler, pc'[h] \in {"idle", "submit"}, path'[h] \in Paths
      PROVE  CallKnows(h)'
  BY <1>i DEF CallKnows
<1>1. ASSUME NEW h \in Handler, NEW x \in Paths, NEW c \in Call, Arrive(h, x, c)
      PROVE  CallHolds'
  <2>1. CallKnows(h)'
    BY <1>0, <1>1 DEF Arrive, ToolTypeOK, CallKnows
  <2> QED
    BY <1>0, <1>1, <1>o, <2>1 DEF Arrive, ToolTypeOK, vars
<1>2. ASSUME NEW h \in Handler, TryApproved(h) PROVE CallHolds'
  <2>1. CallKnows(h)'
    BY <1>0, <1>2, <1>k DEF TryApproved, ToolTypeOK, CallKnows, ClaimDecided, Claimable, vars
  <2> QED
    BY <1>0, <1>2, <1>o, <2>1 DEF TryApproved, ToolTypeOK, ClaimDecided, vars
<1>3. ASSUME NEW h \in Handler, TryDenied(h) \/ TryPending(h) \/ NoApprovalLeft(h)
      PROVE  CallHolds'
  <2>1. CallKnows(h)'
    BY <1>0, <1>3, <1>k DEF TryDenied, TryPending, NoApprovalLeft, ToolTypeOK, CallKnows
  <2> QED
    BY <1>0, <1>3, <1>o, <2>1
    DEF TryDenied, TryPending, NoApprovalLeft, ToolTypeOK, ClaimDecided, vars
<1>4. ASSUME NEW h \in Handler, OpenApproval(h) PROVE CallHolds'
  <2>1. CallKnows(h)'
    BY <1>0, <1>m, <1>4, <1>k DEF OpenApproval, ToolTypeOK, TypeOK, CallKnows, Submit
  <2> QED
    BY <1>0, <1>4, <1>o, <2>1 DEF OpenApproval, ToolTypeOK, Submit
<1>5. ASSUME NEW h \in Handler, RecordTrace(h) PROVE CallHolds'
  <2>1. CallKnows(h)'
    BY <1>0, <1>5, <1>k DEF RecordTrace, ToolTypeOK, CallKnows, vars
  <2> QED
    BY <1>0, <1>5, <1>o, <2>1 DEF RecordTrace, ToolTypeOK, vars
<1>6. ASSUME NEW h \in Handler, GetAnswer(h) PROVE CallHolds'
  <2>1. ChannelCarriesDecision
    BY DEF ToolIInv, IInv
  <2>2. mine[h] \in Id /\ status[Mesh][mine[h]] # "none"
    BY <1>6, <1>k DEF GetAnswer, CallKnows
  <2>3. status[Mesh][mine[h]] = result[Mesh][mine[h]]
    <3>1. mine[h] \in waiters[Mesh] /\ result[Mesh][mine[h]] \in Decision
      BY <1>6 DEF GetAnswer, Receive
    <3>2. status[Mesh][mine[h]] \in Decision
      <4>1. status[Mesh][mine[h]] \in Status
        BY <1>0, <1>m, <2>2 DEF TypeOK
      <4>2. status[Mesh][mine[h]] # "pending"
        BY <1>m, <2>1, <2>2, <3>1 DEF ChannelCarriesDecision, Decision
      <4> QED
        BY <4>1, <4>2 DEF Status
    <3> QED
      BY <1>m, <2>1, <2>2, <3>1, <3>2 DEF ChannelCarriesDecision
  <2>4. CallKnows(h)'
    BY <1>0, <1>6, <1>k, <2>2, <2>3 DEF GetAnswer, Receive, ToolTypeOK, CallKnows
  <2> QED
    BY <1>0, <1>6, <1>o, <2>4 DEF GetAnswer, ToolTypeOK, Receive
<1>7. ASSUME NEW h \in Handler, ClaimOwn(h) PROVE CallHolds'
  <2>1. CallKnows(h)'
    BY <1>0, <1>7, <1>k DEF ClaimOwn, Claim, ToolTypeOK, CallKnows, vars
  <2> QED
    BY <1>0, <1>7, <1>o, <2>1 DEF ClaimOwn, ToolTypeOK, Claim, vars
<1>8. ASSUME NEW h \in Handler, StopWaiting(h) \/ Run(h) PROVE CallHolds'
  <2>1. CallKnows(h)'
    BY <1>0, <1>8, <1>i DEF StopWaiting, Run, ToolTypeOK
  <2> QED
    BY <1>0, <1>8, <1>o, <2>1 DEF StopWaiting, Run, ToolTypeOK, Leave, vars
<1>9. ASSUME NEW i \in Id, \/ \E d \in {"approved", "denied"} : Answer(i, d)
                           \/ ApproveAndReplay(i) \/ Replay(i)
      PROVE  CallHolds'
  BY <1>9, <1>a DEF Answer, ApproveAndReplay, Replay, Resolve, vars
<1>10. ASSUME NEW s \in Scopes, PrivatePass(s) \/ \E i \in Id : DenyNext(s, i)
       PROVE  CallHolds'
  <2>1. CASE PrivatePass(s)
    BY <1>a, <2>1, StoreAlone
    DEF PrivatePass, StartHalt, ReadTraces, ListWaiting, DenyDone, ResumeHalt, vars
  <2>2. CASE \E i \in Id : DenyNext(s, i)
    BY <1>a, <2>2 DEF DenyNext, Resolve, vars
  <2> QED
    BY <1>10, <2>1, <2>2
<1>11. CASE StoreStep
  BY <1>11, <1>a
  DEF StoreStep, Tick, Restart, SaveRead, SaveRow, TimerFires, Apply
<1>12. CASE CrashAll
  BY <1>12 DEF CrashAll, CallHolds, CallKnows
<1>13. CASE UNCHANGED allVars
  BY <1>13, <1>a DEF allVars, vars
<1> QED
  BY <1>1, <1>2, <1>3, <1>4, <1>5, <1>6, <1>7, <1>8, <1>9, <1>10, <1>11, <1>12, <1>13
  DEF ToolNext, CallStep, HaltStep, PrivatePass

------------------------------------------------------------------------------
(* Replays and stops *)

\* A supervisor replays what it approved; no crash leaves a replay behind.
LEMMA ReplayHoldsStep ==
  ASSUME ToolIInv, [ToolNext]_allVars
  PROVE  ReplayHolds'
<1> USE DEF callVars, haltVars, tcVars
<1>0. TypeOK /\ DownIsEmpty /\ ToolTypeOK /\ ReplayHolds /\ [Next]_vars
  BY StoreSteps DEF ToolIInv, IInv
<1>m. Mesh \in Proc
  BY MeshOnly
<1>a. ASSUME replaying' \subseteq replaying, Mesh \in up => Mesh \in up' PROVE ReplayHolds'
  <2> SUFFICES ASSUME NEW i \in replaying' PROVE Supervisor /\ status'[Mesh][i] = "approved"
    BY DEF ReplayHolds
  <2>1. i \in Id /\ Supervisor /\ status[Mesh][i] = "approved"
    BY <1>0, <1>a DEF ReplayHolds, ToolTypeOK
  <2>2. Mesh \in up \cap up'
    BY <1>0, <1>m, <1>a, <2>1 DEF DownIsEmpty
  <2> QED
    BY <1>0, <2>1, <2>2, StoreKeeps DEF Decision
<1>1. ASSUME NEW h \in Handler,
             \/ PrivateStep(h)
             \/ TryApproved(h) \/ TryDenied(h) \/ OpenApproval(h)
             \/ GetAnswer(h) \/ ClaimOwn(h) \/ StopWaiting(h)
      PROVE  ReplayHolds'
  <2>1. CASE PrivateStep(h)
    BY <1>a, <2>1, StoreAlone
    DEF PrivateStep, Arrive, TryPending, NoApprovalLeft, RecordTrace, Run, vars
  <2>2. CASE TryApproved(h) \/ TryDenied(h) \/ OpenApproval(h)
    BY <1>a, <2>2 DEF TryApproved, TryDenied, OpenApproval, ClaimDecided, Submit, vars
  <2>3. CASE GetAnswer(h) \/ ClaimOwn(h) \/ StopWaiting(h)
    BY <1>a, <2>3 DEF GetAnswer, ClaimOwn, StopWaiting, Receive, Claim, Leave, vars
  <2> QED
    BY <1>1, <2>1, <2>2, <2>3
<1>2. ASSUME NEW i \in Id, Replay(i) \/ \E d \in {"approved", "denied"} : Answer(i, d)
      PROVE  ReplayHolds'
  BY <1>2, <1>a DEF Answer, Replay, Resolve, vars
<1>3. ASSUME NEW i \in Id, ApproveAndReplay(i) PROVE ReplayHolds'
  BY <1>0, <1>m, <1>3
  DEF ApproveAndReplay, Resolve, Decide, ReplayHolds, ToolTypeOK, TypeOK
<1>4. ASSUME NEW s \in Scopes, PrivatePass(s) \/ \E i \in Id : DenyNext(s, i)
      PROVE  ReplayHolds'
  <2>1. CASE PrivatePass(s)
    BY <1>a, <2>1, StoreAlone
    DEF PrivatePass, StartHalt, ReadTraces, ListWaiting, DenyDone, ResumeHalt, vars
  <2>2. CASE \E i \in Id : DenyNext(s, i)
    BY <1>a, <2>2 DEF DenyNext, Resolve, vars
  <2> QED
    BY <1>4, <2>1, <2>2
<1>5. CASE StoreStep
  BY <1>5, <1>a DEF StoreStep, Tick, Restart, SaveRead, SaveRow, TimerFires, Apply
<1>6. CASE CrashAll
  BY <1>6 DEF CrashAll, ReplayHolds
<1>7. CASE UNCHANGED allVars
  BY <1>7, <1>a DEF allVars, vars
<1> QED
  BY <1>1, <1>2, <1>3, <1>4, <1>5, <1>6, <1>7
  DEF ToolNext, CallStep, HaltStep, PrivateStep, PrivatePass

\* Once the stop has listed what waits, only its own denials shorten the list,
\* and nothing that waited when it began can start to wait.
LEMMA PassHoldsStep ==
  ASSUME ToolIInv, [ToolNext]_allVars
  PROVE  PassHolds'
<1> USE DEF callVars, haltVars, tcVars
<1>0. TypeOK /\ DownIsEmpty /\ ToolTypeOK /\ PassHolds /\ [Next]_vars
  BY StoreSteps DEF ToolIInv, IInv
<1>m. Mesh \in Proc
  BY MeshOnly
<1>w. ASSUME NEW s \in Scopes, waiting'[s] = waiting[s], Mesh \in up => Mesh \in up'
      PROVE  /\ \A i \in waiting'[s] : status'[Mesh][i] # "none"
             /\ waiting'[s] \cap Pending' \subseteq waiting[s] \cap Pending
  <2>1. ASSUME NEW i \in waiting[s]
        PROVE  /\ status'[Mesh][i] # "none"
               /\ status'[Mesh][i] = "pending" => status[Mesh][i] = "pending"
    <3>1. i \in Id /\ status[Mesh][i] # "none"
      BY <1>0 DEF PassHolds, ToolTypeOK
    <3>2. Mesh \in up \cap up'
      BY <1>0, <1>m, <1>w, <3>1 DEF DownIsEmpty
    <3> QED
      BY <1>0, <3>1, <3>2, StoreKeeps
  <2> QED
    BY <1>w, <2>1 DEF Pending
<1>a. ASSUME UNCHANGED <<pass, waiting, inSession, todo>>, Mesh \in up => Mesh \in up'
      PROVE  PassHolds'
  BY <1>0, <1>a, <1>w DEF PassHolds, StillWaiting
<1>1. ASSUME NEW h \in Handler,
             \/ PrivateStep(h)
             \/ TryApproved(h) \/ TryDenied(h) \/ OpenApproval(h)
             \/ GetAnswer(h) \/ ClaimOwn(h) \/ StopWaiting(h)
      PROVE  PassHolds'
  <2>1. CASE PrivateStep(h)
    BY <1>a, <2>1, StoreAlone
    DEF PrivateStep, Arrive, TryPending, NoApprovalLeft, RecordTrace, Run, vars
  <2>2. CASE TryApproved(h) \/ TryDenied(h) \/ OpenApproval(h)
    BY <1>a, <2>2 DEF TryApproved, TryDenied, OpenApproval, ClaimDecided, Submit, vars
  <2>3. CASE GetAnswer(h) \/ ClaimOwn(h) \/ StopWaiting(h)
    BY <1>a, <2>3 DEF GetAnswer, ClaimOwn, StopWaiting, Receive, Claim, Leave, vars
  <2> QED
    BY <1>1, <2>1, <2>2, <2>3
<1>2. ASSUME NEW i \in Id, \/ Replay(i) \/ ApproveAndReplay(i)
                           \/ \E d \in {"approved", "denied"} : Answer(i, d)
      PROVE  PassHolds'
  BY <1>2, <1>a DEF Answer, ApproveAndReplay, Replay, Resolve, vars
<1>3. ASSUME NEW s \in Scopes, StartHalt(s) PROVE PassHolds'
  <2>1. Pending' = Pending /\ \A i \in Pending : i \in Id /\ status[Mesh][i] # "none"
    BY <1>3 DEF StartHalt, vars, Pending
  <2>2. ASSUME NEW t \in Scopes
        PROVE  /\ \A i \in waiting'[t] : status'[Mesh][i] # "none"
               /\ pass'[t] \notin {"deny", "over"}
    BY <1>0, <1>3, <2>1 DEF StartHalt, vars, ToolTypeOK, PassHolds
  <2> QED
    BY <2>2 DEF PassHolds
<1>4. ASSUME NEW s \in Scopes, ReadTraces(s) PROVE PassHolds'
  BY <1>0, <1>4 DEF ReadTraces, vars, ToolTypeOK, PassHolds, StillWaiting, Pending
<1>5. ASSUME NEW s \in Scopes, ListWaiting(s) PROVE PassHolds'
  BY <1>0, <1>5 DEF ListWaiting, vars, ToolTypeOK, PassHolds, StillWaiting, Pending
<1>6. ASSUME NEW s \in Scopes, NEW i \in Id, DenyNext(s, i) PROVE PassHolds'
  <2>1. /\ UNCHANGED <<pass, waiting, inSession>>
        /\ Mesh \in up => Mesh \in up'
        /\ todo' = [todo EXCEPT ![s] = @ \ {i}]
        /\ i \notin Pending'
    BY <1>0, <1>m, <1>6
    DEF DenyNext, Resolve, Decide, vars, Pending, TypeOK
  <2>2. ASSUME NEW t \in Scopes
        PROVE  /\ \A j \in waiting'[t] : status'[Mesh][j] # "none"
               /\ pass'[t] = "deny" => StillWaiting(t)' \subseteq todo'[t]
               /\ pass'[t] = "over" => StillWaiting(t)' = {}
    <3>1. StillWaiting(t)' \subseteq StillWaiting(t) \ {i}
      BY <2>1, <1>w DEF StillWaiting
    <3>2. todo[t] \ {i} \subseteq todo'[t]
      BY <1>0, <2>1 DEF ToolTypeOK
    <3> QED
      BY <1>0, <1>w, <2>1, <3>1, <3>2 DEF PassHolds
  <2> QED
    BY <2>2 DEF PassHolds
<1>7. ASSUME NEW s \in Scopes, DenyDone(s) PROVE PassHolds'
  BY <1>0, <1>7
  DEF DenyDone, PassForgotten, vars, ToolTypeOK, PassHolds, StillWaiting, Pending
<1>8. ASSUME NEW s \in Scopes, ResumeHalt(s) PROVE PassHolds'
  BY <1>0, <1>8
  DEF ResumeHalt, PassForgotten, vars, ToolTypeOK, PassHolds, StillWaiting, Pending
<1>9. CASE StoreStep
  BY <1>9, <1>a DEF StoreStep, Tick, Restart, SaveRead, SaveRow, TimerFires, Apply
<1>10. CASE CrashAll
  BY <1>10 DEF CrashAll, PassHolds
<1>11. CASE UNCHANGED allVars
  BY <1>11, <1>a DEF allVars, vars
<1> QED
  BY <1>1, <1>2, <1>3, <1>4, <1>5, <1>6, <1>7, <1>8, <1>9, <1>10, <1>11
  DEF ToolNext, CallStep, HaltStep, PrivateStep

------------------------------------------------------------------------------
(* Every run is earned *)

\* The shares of a crash and of a blocked call are small; the calls that run
\* on an approval can be counted.
LEMMA Shares ==
  /\ PerBlock \in {0, 1} /\ PerLife \in {1, 2}
  /\ \A i : IsFiniteSet(RunningOn(i)) /\ Cardinality(RunningOn(i)) \in Nat
<1>1. ASSUME NEW i PROVE IsFiniteSet(RunningOn(i)) /\ Cardinality(RunningOn(i)) \in Nat
  <2>1. RunningOn(i) \subseteq Handler
    BY DEF RunningOn
  <2> QED
    BY <2>1, ToolCallConstants, FS_Subset, FS_CardinalityType
<1> QED
  BY <1>1 DEF PerBlock, PerLife

\* Every life adds its share.
LEMMA EarlierLives ==
  ASSUME NEW n \in Nat
  PROVE  PerLife * n \in Nat /\ PerLife * (n + 1) = PerLife * n + PerLife
<1>1. CASE PerLife = 1
  BY <1>1
<1>2. CASE PerLife = 2
  BY <1>2
<1> QED
  BY <1>1, <1>2, Shares

\* However much is earned, it is never more than a share of every life and that
\* of one blocked call.
LEMMA EarnedIsBounded ==
  ASSUME crashes \in Nat, NEW i
  PROVE  Earned(i) \in Nat /\ Earned(i) <= PerLife * crashes + PerLife + PerBlock
<1> DEFINE P == PerLife * crashes
           C == IF i \in claimed[Mesh] THEN 1 ELSE 0
           S == IF Supervisor /\ status[Mesh][i] \in Decision THEN 1 ELSE 0
           W == IF i \in waiters[Mesh] THEN 0 ELSE PerBlock
<1>1. P \in Nat /\ C \in Nat /\ S \in Nat /\ W \in Nat
  BY EarlierLives, Shares
<1>2. C + S <= PerLife
  BY DEF PerLife
<1>3. W <= PerBlock
  BY Shares
<1>4. Earned(i) = P + C + S + W
  BY DEF Earned
<1> SUFFICES Earned(i) \in Nat /\ Earned(i) <= P + PerLife + PerBlock
  OBVIOUS
<1> HIDE DEF P, C, S, W
<1> QED
  BY <1>1, <1>2, <1>3, <1>4, Shares

\* What is earned on an approval shrinks only with the process: its decision
\* stays, nothing claimed comes back, no call starts to wait for it again.
LEMMA EarningsStay ==
  ASSUME ToolIInv, [Next]_vars, crashes' = crashes, NEW i \in Id,
         Mesh \in up => Mesh \in up',
         i \in claimed[Mesh] => i \in claimed'[Mesh],
         i \in waiters'[Mesh] => i \in waiters[Mesh]
  PROVE  /\ Earned(i) \in Nat /\ Earned(i)' \in Nat /\ Earned(i) <= Earned(i)'
         /\ i \in claimed'[Mesh] /\ i \notin claimed[Mesh] => Earned(i) + 1 <= Earned(i)'
         /\ i \in waiters[Mesh] /\ i \notin waiters'[Mesh]
              => Earned(i) + PerBlock <= Earned(i)'
         /\ Supervisor /\ status[Mesh][i] = "pending" /\ status'[Mesh][i] \in Decision
              => Earned(i) + 1 <= Earned(i)'
<1>0. TypeOK /\ DownIsEmpty /\ ToolTypeOK /\ Mesh \in Proc
  BY MeshOnly DEF ToolIInv, IInv
<1>1. status[Mesh][i] \in Decision => status'[Mesh][i] \in Decision
  <2>1. CASE Mesh \in up
    <3>1. Mesh \in up \cap up'
      BY <2>1
    <3> QED
      BY <1>0, <3>1, StoreKeeps
  <2>2. CASE Mesh \notin up
    BY <1>0, <2>2 DEF DownIsEmpty, Decision
  <2> QED
    BY <2>1, <2>2
<1> DEFINE P == PerLife * crashes
           C(b) == IF b THEN 1 ELSE 0
<1>2. P \in Nat
  BY <1>0, EarlierLives DEF ToolTypeOK
<1>3. Earned(i) = P + C(i \in claimed[Mesh]) + C(Supervisor /\ status[Mesh][i] \in Decision)
                    + (IF i \in waiters[Mesh] THEN 0 ELSE PerBlock)
  BY DEF Earned
<1>4. Earned(i)' = P + C(i \in claimed'[Mesh]) + C(Supervisor /\ status'[Mesh][i] \in Decision)
                    + (IF i \in waiters'[Mesh] THEN 0 ELSE PerBlock)
  BY DEF Earned
<1>5. "pending" \notin Decision
  BY DEF Decision
<1> HIDE DEF P
<1> QED
  BY <1>1, <1>2, <1>3, <1>4, <1>5, Shares

\* No run without a share that pays for it, and each share pays once: a claim,
\* a supervisor's answer, the answer of a blocked call; a crash settles the
\* accounts of a life.
LEMMA RunsStep ==
  ASSUME ToolIInv, CallHolds', ReplayHolds', [ToolNext]_allVars
  PROVE  RunsAreEarned'
<1> USE DEF callVars, haltVars, tcVars
<1>0. TypeOK /\ DownIsEmpty /\ ToolTypeOK /\ CallHolds /\ ReplayHolds /\ [Next]_vars
  BY StoreSteps DEF ToolIInv, IInv
<1>m. Mesh \in Proc
  BY MeshOnly
<1>s. ASSUME NEW i \in Id
      PROVE  /\ Spent(i) <= Earned(i)
             /\ runs[i] \in Nat /\ Cardinality(RunningOn(i)) \in Nat
             /\ IsFiniteSet(RunningOn(i))
  BY <1>0, Shares DEF ToolIInv, RunsAreEarned, ToolTypeOK
<1>p. ASSUME NEW i \in Id, status[Mesh][i] \notin Decision PROVE i \notin replaying
  BY <1>0, <1>p DEF ReplayHolds, Decision
\* (nothing starts to run, nothing is forgotten)
<1>a. ASSUME UNCHANGED <<runs, crashes>>, replaying' \subseteq replaying,
             \A i \in Id : RunningOn(i)' = RunningOn(i),
             Mesh \in up => Mesh \in up',
             claimed[Mesh] \subseteq claimed'[Mesh], waiters'[Mesh] \subseteq waiters[Mesh]
      PROVE  RunsAreEarned'
  <2> SUFFICES ASSUME NEW i \in Id PROVE Spent(i)' <= Earned(i)'
    BY DEF RunsAreEarned
  <2>1. Earned(i) \in Nat /\ Earned(i)' \in Nat /\ Earned(i) <= Earned(i)'
    BY <1>0, <1>a, EarningsStay
  <2> QED
    BY <1>a, <1>s, <2>1 DEF Spent
<1>n. ASSUME NEW h \in Handler, pc[h] # "run", pc'[h] # "run",
             \A k \in Handler \ {h} : pc'[k] = pc[k] /\ mine'[k] = mine[k]
      PROVE  \A i \in Id : RunningOn(i)' = RunningOn(i)
  BY <1>n DEF RunningOn
<1>c. ASSUME UNCHANGED <<pc, mine>> PROVE \A i \in Id : RunningOn(i)' = RunningOn(i)
  BY <1>c DEF RunningOn
\* (a call starts to run: what it runs on pays for it)
<1>r. ASSUME NEW h \in Handler, pc[h] # "run", pc'[h] = "run", mine'[h] \in Id,
             \A k \in Handler \ {h} : pc'[k] = pc[k] /\ mine'[k] = mine[k],
             UNCHANGED <<runs, crashes, replaying>>, Mesh \in up => Mesh \in up',
             claimed[Mesh] \subseteq claimed'[Mesh], waiters'[Mesh] \subseteq waiters[Mesh],
             \/ mine'[h] \in claimed'[Mesh] \ claimed[Mesh]
             \/ mine'[h] \in waiters[Mesh] \ waiters'[Mesh] /\ PerBlock = 1
      PROVE  RunsAreEarned'
  <2> SUFFICES ASSUME NEW i \in Id PROVE Spent(i)' <= Earned(i)'
    BY DEF RunsAreEarned
  <2>1. CASE i = mine'[h]
    <3>1. Earned(i) \in Nat /\ Earned(i)' \in Nat /\ Earned(i) + 1 <= Earned(i)'
      BY <1>0, <1>r, <2>1, EarningsStay
    <3>2. RunningOn(i)' = RunningOn(i) \cup {h} /\ h \notin RunningOn(i)
      BY <1>r, <2>1 DEF RunningOn
    <3>3. Cardinality(RunningOn(i)') = Cardinality(RunningOn(i)) + 1
      BY <1>s, <3>2, FS_AddElement
    <3> QED
      BY <1>r, <1>s, <3>1, <3>3 DEF Spent
  <2>2. CASE i # mine'[h]
    <3>1. Earned(i) \in Nat /\ Earned(i)' \in Nat /\ Earned(i) <= Earned(i)'
      BY <1>0, <1>r, EarningsStay
    <3>2. RunningOn(i)' = RunningOn(i)
      BY <1>r, <2>2 DEF RunningOn
    <3> QED
      BY <1>r, <1>s, <3>1, <3>2 DEF Spent
  <2> QED
    BY <2>1, <2>2
<1>1. ASSUME NEW h \in Handler,
             \/ \E x \in Paths, c \in Call : Arrive(h, x, c)
             \/ TryPending(h) \/ NoApprovalLeft(h) \/ RecordTrace(h)
      PROVE  RunsAreEarned'
  <2>1. UNCHANGED vars /\ UNCHANGED <<runs, crashes, replaying>>
    BY <1>1 DEF Arrive, TryPending, NoApprovalLeft, RecordTrace
  <2>2. /\ pc[h] # "run" /\ pc'[h] # "run"
        /\ \A k \in Handler \ {h} : pc'[k] = pc[k] /\ mine'[k] = mine[k]
    BY <1>0, <1>1
    DEF Arrive, TryPending, NoApprovalLeft, RecordTrace, Goto, Answered, ToolTypeOK
  <2> QED
    BY <1>a, <1>n, <2>1, <2>2 DEF vars
<1>2. ASSUME NEW h \in Handler, TryApproved(h) PROVE RunsAreEarned'
  <2>1. CASE pc'[h] # "run"
    <3>1. /\ UNCHANGED vars /\ UNCHANGED <<runs, crashes, replaying>>
          /\ pc[h] # "run"
          /\ \A k \in Handler \ {h} : pc'[k] = pc[k] /\ mine'[k] = mine[k]
      BY <1>0, <1>2, <2>1 DEF TryApproved, Goto, ToolTypeOK
    <3> QED
      BY <1>a, <1>n, <2>1, <3>1 DEF vars
  <2>2. CASE pc'[h] = "run"
    <3>1. PICK i \in Id : /\ ClaimDecided(Mesh, i, call[h], "approved")
                          /\ mine' = [mine EXCEPT ![h] = i]
                          /\ pc' = [pc EXCEPT ![h] = "run"]
                          /\ UNCHANGED <<runs, crashes, replaying>>
      BY <1>0, <1>2, <2>2 DEF TryApproved, Goto, ToolTypeOK
    <3>2. i \in claimed'[Mesh] \ claimed[Mesh] /\ UNCHANGED <<up, waiters>>
      BY <1>0, <1>m, <3>1 DEF ClaimDecided, Claimable, TypeOK
    <3>3. claimed[Mesh] \subseteq claimed'[Mesh]
      BY <1>0, <1>m, <3>1 DEF ClaimDecided, TypeOK
    <3>4. /\ mine'[h] = i /\ pc[h] # "run"
          /\ \A k \in Handler \ {h} : pc'[k] = pc[k] /\ mine'[k] = mine[k]
      BY <1>0, <1>2, <3>1 DEF TryApproved, ToolTypeOK
    <3> QED
      BY <1>r, <2>2, <3>1, <3>2, <3>3, <3>4
  <2> QED
    BY <2>1, <2>2
<1>3. ASSUME NEW h \in Handler, TryDenied(h) PROVE RunsAreEarned'
  <2>1. /\ UNCHANGED <<runs, crashes, replaying, up, waiters>>
        /\ claimed[Mesh] \subseteq claimed'[Mesh]
    BY <1>0, <1>m, <1>3 DEF TryDenied, ClaimDecided, vars, TypeOK
  <2>2. /\ pc[h] # "run" /\ pc'[h] # "run"
        /\ \A k \in Handler \ {h} : pc'[k] = pc[k] /\ mine'[k] = mine[k]
    BY <1>0, <1>3 DEF TryDenied, Goto, Answered, ToolTypeOK
  <2> QED
    BY <1>a, <1>n, <2>1, <2>2
<1>4. ASSUME NEW h \in Handler, OpenApproval(h) PROVE RunsAreEarned'
  <2>1. PICK i \in Id : /\ NeverUsed(i) /\ Submit(Mesh, i, call[h])
                        /\ mine' = [mine EXCEPT ![h] = i]
    BY <1>4 DEF OpenApproval
  <2>2. /\ UNCHANGED <<runs, crashes, replaying, up, claimed>>
        /\ pc[h] # "run" /\ pc'[h] # "run"
        /\ \A k \in Handler \ {h} : pc'[k] = pc[k] /\ mine'[k] = mine[k]
    BY <1>0, <1>4, <2>1 DEF OpenApproval, Submit, ToolTypeOK
  <2>3. \A j \in Id : RunningOn(j)' = RunningOn(j)
    BY <1>n, <2>2
  <2> SUFFICES ASSUME NEW j \in Id PROVE Spent(j)' <= Earned(j)'
    BY DEF RunsAreEarned
  <2>4. CASE j = i
    <3>1. runs[j] = 0 /\ status[Mesh][j] = "none"
      BY <1>m, <2>1, <2>4 DEF NeverUsed, Fresh
    <3>2. RunningOn(j) = {}
      BY <1>0, <3>1 DEF RunningOn, CallHolds, CallKnows
    <3>3. j \notin replaying
      BY <1>p, <3>1 DEF Decision
    <3>4. Spent(j)' = 0
      BY <2>2, <2>3, <3>1, <3>2, <3>3, FS_EmptySet DEF Spent
    <3>5. PerLife * crashes \in Nat
      BY <1>0, EarlierLives DEF ToolTypeOK
    <3>6. Earned(j)' >= 0
      BY <2>2, <3>5, Shares DEF Earned
    <3> QED
      BY <3>4, <3>6
  <2>5. CASE j # i
    <3>1. j \in waiters'[Mesh] => j \in waiters[Mesh]
      BY <1>0, <1>m, <2>1, <2>5 DEF Submit, TypeOK
    <3>2. Earned(j) \in Nat /\ Earned(j)' \in Nat /\ Earned(j) <= Earned(j)'
      BY <1>0, <2>2, <3>1, EarningsStay
    <3> QED
      BY <1>s, <2>2, <2>3, <3>2 DEF Spent
  <2> QED
    BY <2>4, <2>5
<1>5. ASSUME NEW h \in Handler, GetAnswer(h) \/ StopWaiting(h) PROVE RunsAreEarned'
  <2>1. /\ UNCHANGED <<runs, crashes, replaying, up, claimed>>
        /\ waiters' = [waiters EXCEPT ![Mesh] = @ \ {mine[h]}]
        /\ mine[h] \in waiters[Mesh]
    BY <1>5 DEF GetAnswer, StopWaiting, Receive, Leave
  <2>2. waiters'[Mesh] = waiters[Mesh] \ {mine[h]}
    BY <1>0, <1>m, <2>1 DEF TypeOK
  <2>3. /\ pc[h] = "wait" /\ h \in Handler
        /\ \A k \in Handler \ {h} : pc'[k] = pc[k] /\ mine'[k] = mine[k]
    BY <1>0, <1>5 DEF GetAnswer, StopWaiting, Goto, Answered, ToolTypeOK
  <2>4. CASE pc'[h] = "run"
    <3>1. path[h] # "mcp" /\ mine'[h] = mine[h]
      BY <1>0, <1>5, <2>4 DEF GetAnswer, StopWaiting, Goto, Answered, ToolTypeOK
    <3>2. mine[h] \in Id /\ path[h] \in Paths
      BY <1>0, <2>3 DEF CallHolds, CallKnows
    <3>3. PerBlock = 1
      BY <3>1, <3>2 DEF PerBlock
    <3> QED
      BY <1>r, <2>1, <2>2, <2>3, <2>4, <3>1, <3>2, <3>3
  <2>5. CASE pc'[h] # "run"
    BY <1>a, <1>n, <2>1, <2>2, <2>3, <2>5
  <2> QED
    BY <2>4, <2>5
<1>6. ASSUME NEW h \in Handler, ClaimOwn(h) PROVE RunsAreEarned'
  <2>1. /\ UNCHANGED <<runs, crashes, replaying, up, waiters>>
        /\ claimed[Mesh] \subseteq claimed'[Mesh]
    BY <1>0, <1>m, <1>6 DEF ClaimOwn, Claim, vars, TypeOK
  <2>2. /\ pc[h] # "run"
        /\ \A k \in Handler \ {h} : pc'[k] = pc[k] /\ mine'[k] = mine[k]
    BY <1>0, <1>6 DEF ClaimOwn, Goto, Answered, ToolTypeOK
  <2>3. CASE pc'[h] = "run"
    <3>1. Claim(Mesh, mine[h]) /\ mine'[h] = mine[h]
      BY <1>0, <1>6, <2>3 DEF ClaimOwn, Goto, Answered, ToolTypeOK
    <3>2. mine[h] \in Id
      BY <1>0, <1>6 DEF ClaimOwn, CallHolds, CallKnows
    <3>3. mine[h] \in claimed'[Mesh] \ claimed[Mesh]
      BY <1>0, <1>m, <3>1 DEF Claim, TypeOK
    <3> QED
      BY <1>r, <2>1, <2>2, <2>3, <3>1, <3>2, <3>3
  <2>4. CASE pc'[h] # "run"
    BY <1>a, <1>n, <2>1, <2>2, <2>4
  <2> QED
    BY <2>3, <2>4
<1>7. ASSUME NEW h \in Handler, Run(h) PROVE RunsAreEarned'
  <2> DEFINE j == mine[h]
  <2>1. j \in Id /\ pc[h] = "run"
    BY <1>0, <1>7 DEF Run, CallHolds, CallKnows
  <2>2. /\ UNCHANGED vars /\ UNCHANGED <<crashes, replaying>>
        /\ runs' = [runs EXCEPT ![j] = @ + 1]
        /\ pc'[h] = "idle"
        /\ \A k \in Handler \ {h} : pc'[k] = pc[k] /\ mine'[k] = mine[k]
    BY <1>0, <1>7 DEF Run, CountRun, Answered, ToolTypeOK
  <2> SUFFICES ASSUME NEW i \in Id PROVE Spent(i)' <= Earned(i)'
    BY DEF RunsAreEarned
  <2>3. Earned(i) \in Nat /\ Earned(i)' \in Nat /\ Earned(i) <= Earned(i)'
    BY <1>0, <2>2, EarningsStay DEF vars
  <2>4. CASE i = j
    <3>1. RunningOn(i)' = RunningOn(i) \ {h} /\ h \in RunningOn(i)
      BY <2>1, <2>2, <2>4 DEF RunningOn
    <3>2. Cardinality(RunningOn(i)') = Cardinality(RunningOn(i)) - 1
      BY <1>s, <3>1, FS_RemoveElement
    <3>3. runs'[i] = runs[i] + 1
      BY <1>0, <2>1, <2>2, <2>4 DEF ToolTypeOK
    <3> QED
      BY <1>s, <2>2, <2>3, <3>2, <3>3 DEF Spent
  <2>5. CASE i # j
    <3>1. RunningOn(i)' = RunningOn(i)
      BY <2>1, <2>2, <2>5 DEF RunningOn
    <3>2. runs'[i] = runs[i]
      BY <1>0, <2>1, <2>2, <2>5 DEF ToolTypeOK
    <3> QED
      BY <1>s, <2>2, <2>3, <3>1, <3>2 DEF Spent
  <2> QED
    BY <2>4, <2>5
<1>8. ASSUME NEW i \in Id, \E d \in {"approved", "denied"} : Answer(i, d)
      PROVE  RunsAreEarned'
  BY <1>8, <1>a, <1>c DEF Answer, Resolve
<1>9. ASSUME NEW i \in Id, ApproveAndReplay(i) PROVE RunsAreEarned'
  <2>1. /\ Supervisor /\ status[Mesh][i] = "pending"
        /\ UNCHANGED <<up, waiters, claimed, runs, crashes, pc, mine>>
        /\ replaying' = replaying \cup {i}
    BY <1>9 DEF ApproveAndReplay, Resolve
  <2>2. status'[Mesh][i] \in Decision
    BY <1>0, <1>m, <1>9 DEF ApproveAndReplay, Resolve, Decide, TypeOK, Decision
  <2>3. i \notin replaying
    BY <1>p, <2>1 DEF Decision
  <2>4. \A j \in Id : RunningOn(j)' = RunningOn(j)
    BY <1>c, <2>1
  <2> SUFFICES ASSUME NEW j \in Id PROVE Spent(j)' <= Earned(j)'
    BY DEF RunsAreEarned
  <2>5. /\ Earned(j) \in Nat /\ Earned(j)' \in Nat /\ Earned(j) <= Earned(j)'
        /\ j = i => Earned(j) + 1 <= Earned(j)'
    BY <1>0, <2>1, <2>2, EarningsStay
  <2>6. Cardinality(RunningOn(j)') = Cardinality(RunningOn(j))
    BY <2>4
  <2>7. CASE j = i
    BY <1>s, <2>1, <2>3, <2>5, <2>6, <2>7 DEF Spent
  <2>8. CASE j # i
    BY <1>s, <2>1, <2>5, <2>6, <2>8 DEF Spent
  <2> QED
    BY <2>7, <2>8
<1>10. ASSUME NEW i \in Id, Replay(i) PROVE RunsAreEarned'
  <2>1. /\ UNCHANGED vars /\ UNCHANGED <<crashes, pc, mine>>
        /\ i \in replaying /\ replaying' = replaying \ {i}
        /\ runs' = [runs EXCEPT ![i] = @ + 1]
    BY <1>10 DEF Replay, CountRun
  <2>2. \A j \in Id : RunningOn(j)' = RunningOn(j)
    BY <1>c, <2>1
  <2> SUFFICES ASSUME NEW j \in Id PROVE Spent(j)' <= Earned(j)'
    BY DEF RunsAreEarned
  <2>3. Earned(j) \in Nat /\ Earned(j)' \in Nat /\ Earned(j) <= Earned(j)'
    BY <1>0, <2>1, EarningsStay DEF vars
  <2>4. runs'[j] = IF j = i THEN runs[j] + 1 ELSE runs[j]
    BY <1>0, <2>1 DEF ToolTypeOK
  <2>5. Cardinality(RunningOn(j)') = Cardinality(RunningOn(j))
    BY <2>2
  <2>6. CASE j = i
    BY <1>s, <2>1, <2>3, <2>4, <2>5, <2>6 DEF Spent
  <2>7. CASE j # i
    BY <1>s, <2>1, <2>3, <2>4, <2>5, <2>7 DEF Spent
  <2> QED
    BY <2>6, <2>7
<1>11. ASSUME NEW s \in Scopes, PrivatePass(s) \/ \E i \in Id : DenyNext(s, i)
       PROVE  RunsAreEarned'
  <2>1. CASE PrivatePass(s)
    BY <1>a, <1>c, <2>1, StoreAlone
    DEF PrivatePass, StartHalt, ReadTraces, ListWaiting, DenyDone, ResumeHalt, vars
  <2>2. CASE \E i \in Id : DenyNext(s, i)
    BY <1>a, <1>c, <2>2 DEF DenyNext, Resolve, vars
  <2> QED
    BY <1>11, <2>1, <2>2
<1>12. CASE StoreStep
  <2>1. UNCHANGED <<claimed, waiters>> /\ (Mesh \in up => Mesh \in up')
    BY <1>12 DEF StoreStep, Tick, Restart, SaveRead, SaveRow, TimerFires, Apply, memVars
  <2> QED
    BY <1>12, <1>a, <1>c, <2>1 DEF StoreStep
<1>13. CASE CrashAll
  <2>1. /\ crashes' = crashes + 1 /\ runs' = runs /\ replaying' = {}
        /\ \A h \in Handler : pc'[h] = "idle"
    BY <1>13 DEF CrashAll
  <2>2. crashes \in Nat
    BY <1>0 DEF ToolTypeOK
  <2> DEFINE P == PerLife * crashes
  <2>3. P \in Nat /\ PerLife * crashes' = P + PerLife
    BY <2>1, <2>2, EarlierLives
  <2>4. claimed'[Mesh] = {} /\ waiters'[Mesh] = {} /\ \A i \in Id : status'[Mesh][i] = "none"
    BY <1>0, <1>m, <1>13 DEF CrashAll, Crash, TypeOK
  <2> SUFFICES ASSUME NEW i \in Id PROVE Spent(i)' <= Earned(i)'
    BY DEF RunsAreEarned
  <2>5. RunningOn(i)' = {}
    BY <2>1 DEF RunningOn
  <2>6. Spent(i)' = runs[i]
    BY <1>s, <2>1, <2>5, FS_EmptySet DEF Spent
  <2>7. runs[i] <= Spent(i) /\ Spent(i) \in Nat
    BY <1>s DEF Spent
  <2>8. Earned(i)' = P + PerLife + PerBlock
    BY <2>3, <2>4, Shares DEF Earned, Decision
  <2>9. Earned(i) \in Nat /\ Earned(i) <= P + PerLife + PerBlock
    BY <2>2, EarnedIsBounded
  <2> HIDE DEF P
  <2> QED
    BY <1>s, <2>3, <2>6, <2>7, <2>8, <2>9, Shares
<1>14. CASE UNCHANGED allVars
  BY <1>14, <1>a, <1>c DEF allVars, vars
<1> QED
  BY <1>1, <1>2, <1>3, <1>4, <1>5, <1>6, <1>7, <1>8, <1>9, <1>10, <1>11, <1>12, <1>13, <1>14
  DEF ToolNext, CallStep, HaltStep, PrivatePass

------------------------------------------------------------------------------
(* Theorems about every pipeline *)

\* The invariant of every reachable state of the pipeline: whatever the calls,
\* the people, the stops and the crashes do, a call has the approval it acts
\* on, a stop knows what it has yet to deny, and every run is paid for.
THEOREM PipelineInductive == ToolSpec => []ToolIInv
<1>1. ToolIInv /\ [ToolNext]_allVars => ToolIInv'
  <2> SUFFICES ASSUME ToolIInv, [ToolNext]_allVars PROVE ToolIInv'
    OBVIOUS
  <2>1. IInv'
    <3>1. IInv /\ [Next]_vars
      BY StoreSteps DEF ToolIInv
    <3> QED
      BY <3>1, StoreInvariantStep
  <2>2. CallHolds' /\ ReplayHolds'
    BY CallHoldsStep, ReplayHoldsStep
  <2> QED
    BY <2>1, <2>2, ToolTypeStep, PassHoldsStep, RunsStep DEF ToolIInv
<1> QED
  BY <1>1, ToolInitHolds, PTL DEF ToolSpec

\* The pipeline uses the store as the store is meant to be used: what is
\* proved of ApprovalStore holds of every approval of handleToolCall,
\* handleToolsCall, approval.resolve and the stops.
THEOREM PipelineUsesStore == ToolSpec => Spec
<1>1. ToolInit => Init
  BY DEF ToolInit
<1>2. ToolIInv /\ [ToolNext]_allVars => [Next]_vars
  BY StoreSteps DEF ToolIInv
<1> QED
  BY <1>1, <1>2, PipelineInductive, PTL DEF ToolSpec, Spec

\* So no recorded answer of the daemon is ever overwritten: it is the one
\* process on its database.
THEOREM PipelineKeepsItsRows == ToolSpec => []RowNotAhead /\ RowDecisionFinal
BY PipelineUsesStore, RowsFollowTheMap, RowDecisionsAreFinal, MeshOnly, PTL

\* A tool runs on an approval only as often as it was paid for: once by the
\* call that blocked, and once by a claim and once by a supervisor in each
\* life of the process.
THEOREM RunsAreBounded == ToolSpec => []RunsAreAccounted
<1>1. ToolIInv => RunsAreAccounted
  <2> SUFFICES ASSUME ToolIInv, NEW i \in Id
               PROVE  runs[i] <= PerBlock + PerLife * (1 + crashes)
    BY DEF RunsAreAccounted
  <2>1. runs[i] \in Nat /\ crashes \in Nat /\ Cardinality(RunningOn(i)) \in Nat
    BY Shares DEF ToolIInv, ToolTypeOK
  <2> DEFINE P == PerLife * crashes
  <2>2. P \in Nat /\ PerLife * (1 + crashes) = P + PerLife
    BY <2>1, EarlierLives
  <2>4. Earned(i) \in Nat /\ Earned(i) <= P + PerLife + PerBlock
    BY <2>1, EarnedIsBounded
  <2> HIDE DEF P
  <2>5. Spent(i) <= Earned(i)
    BY DEF ToolIInv, RunsAreEarned
  <2>6. Spent(i) \in Nat /\ runs[i] <= Spent(i)
    BY <2>1 DEF Spent
  <2> QED
    BY <2>1, <2>2, <2>4, <2>5, <2>6, Shares
<1> QED
  BY <1>1, PipelineInductive, PTL

\* A stop that is done has answered every call that waited when it began, if
\* it could see that it was in scope.
THEOREM HaltsAnswerWhatWaits == ToolSpec => []HaltAnswersWaiting
<1>1. ToolIInv => HaltAnswersWaiting
  BY DEF ToolIInv, ToolTypeOK, PassHolds, HaltAnswersWaiting
<1> QED
  BY <1>1, PipelineInductive, PTL

------------------------------------------------------------------------------
(* Retries, while nothing crashes *)

\* The callers about to open an approval for a call.
Opening(c) == {h \in Handler : pc[h] = "submit" /\ call[h] = c}

\* They are no more than there are callers.
LEMMA OpeningIsFinite ==
  ASSUME NEW c
  PROVE  /\ IsFiniteSet(Opening(c)) /\ Cardinality(Opening(c)) \in Nat
         /\ Cardinality(Opening(c)) <= Cardinality(Handler)
         /\ Cardinality(Handler) \in Nat
<1>1. Opening(c) \subseteq Handler
  BY DEF Opening
<1> QED
  BY <1>1, ToolCallConstants, FS_Subset, FS_CardinalityType

\* While finitely many approvals are pending, those of one call can be counted.
LEMMA WaitingIsFinite ==
  ASSUME IsFiniteSet(Pending), NEW c
  PROVE  IsFiniteSet(Waiting(Mesh, c)) /\ Cardinality(Waiting(Mesh, c)) \in Nat
<1>1. Waiting(Mesh, c) \subseteq Pending
  BY DEF Waiting, Pending
<1> QED
  BY <1>1, FS_Subset, FS_CardinalityType

\* A step that opens no approval and lets no caller start to open one.
LEMMA RetryQuiet ==
  ASSUME ToolIInv, RetryIInv, UNCHANGED <<req, up>>, Pending' \subseteq Pending,
         \A h \in Handler :
           /\ pc[h] \in {"record", "wait"} /\ mine[h] \in Pending'
                => pc'[h] \in {"record", "wait"} /\ mine'[h] = mine[h]
           /\ pc'[h] = "submit" /\ Paths = {"mcp"} => pc[h] = "submit" /\ call'[h] = call[h]
  PROVE  RetryIInv'
<1>1. IsFiniteSet(Pending) /\ IsFiniteSet(Pending')
  BY FS_Subset DEF RetryIInv
<1>2. BlockedHolds'
  BY DEF RetryIInv, BlockedHolds
<1>3. ASSUME Paths = {"mcp"}, NEW c \in Call
      PROVE  Cardinality(Waiting(Mesh, c)') + Cardinality(Opening(c)') <= Cardinality(Handler)
  <2>1. Opening(c)' \subseteq Opening(c)
    BY <1>3 DEF Opening
  <2>2. Waiting(Mesh, c)' \subseteq Waiting(Mesh, c)
    BY DEF Waiting, Pending
  <2>3. /\ IsFiniteSet(Opening(c)) /\ IsFiniteSet(Waiting(Mesh, c))
        /\ Cardinality(Opening(c)) \in Nat /\ Cardinality(Waiting(Mesh, c)) \in Nat
        /\ Cardinality(Handler) \in Nat
    BY <1>1, OpeningIsFinite, WaitingIsFinite
  <2>4. /\ Cardinality(Opening(c)') <= Cardinality(Opening(c))
        /\ Cardinality(Opening(c)') \in Nat
    BY <2>1, <2>3, FS_Subset, FS_CardinalityType
  <2>5. /\ Cardinality(Waiting(Mesh, c)') <= Cardinality(Waiting(Mesh, c))
        /\ Cardinality(Waiting(Mesh, c)') \in Nat
    BY <2>2, <2>3, FS_Subset, FS_CardinalityType
  <2>6. Cardinality(Waiting(Mesh, c)) + Cardinality(Opening(c)) <= Cardinality(Handler)
    BY <1>3 DEF RetryIInv, PendingPerCaller, Opening
  <2> QED
    BY <2>3, <2>4, <2>5, <2>6
<1>4. Paths = {"mcp"} => PendingPerCaller'
  BY <1>3 DEF PendingPerCaller, Opening
<1> QED
  BY <1>1, <1>2, <1>4 DEF RetryIInv

\* A caller that met no approval to wait on makes the only one.
LEMMA MeetingNone ==
  ASSUME RetryIInv, ToolTypeOK, NEW h \in Handler, TryPending(h), "mcp" \in Paths => Paths = {"mcp"},
         pc'[h] = "submit"
  PROVE  Paths = {"mcp"} => PendingPerCaller'
<1> SUFFICES ASSUME Paths = {"mcp"}, NEW c \in Call
             PROVE  Cardinality(Waiting(Mesh, c)') + Cardinality(Opening(c)') <= Cardinality(Handler)
  BY DEF PendingPerCaller, Opening
<1>1. /\ UNCHANGED vars
      /\ Waiting(Mesh, call[h]) = {}
      /\ call' = call /\ pc' = [pc EXCEPT ![h] = "submit"]
  BY DEF TryPending, Answered, Goto, ToolTypeOK
<1>2. Waiting(Mesh, c)' = Waiting(Mesh, c)
  BY <1>1 DEF vars, Waiting
<1>3. CASE c = call[h]
  <2>1. Cardinality(Waiting(Mesh, c)') = 0
    BY <1>1, <1>2, <1>3, FS_EmptySet
  <2>2. Opening(c)' \subseteq Handler
    BY DEF Opening
  <2>3. Cardinality(Opening(c)') <= Cardinality(Handler) /\ Cardinality(Opening(c)') \in Nat
    BY <2>2, ToolCallConstants, FS_Subset, FS_CardinalityType
  <2> QED
    BY <2>1, <2>3
<1>4. CASE c # call[h]
  <2>1. Opening(c)' = Opening(c)
    BY <1>1, <1>4 DEF Opening, ToolTypeOK
  <2> QED
    BY <1>2, <2>1 DEF RetryIInv, PendingPerCaller, Opening
<1> QED
  BY <1>3, <1>4

\* The caller that opens an approval has it: it no longer is about to.
LEMMA OpeningOne ==
  ASSUME RetryIInv, ToolTypeOK, TypeOK, NEW h \in Handler, OpenApproval(h)
  PROVE  RetryIInv'
<1>m. Mesh \in Proc
  BY MeshOnly
<1>1. PICK i \in Id : /\ NeverUsed(i) /\ Submit(Mesh, i, call[h])
                      /\ mine' = [mine EXCEPT ![h] = i]
  BY DEF OpenApproval
<1>2. /\ pc[h] = "submit" /\ pc' = [pc EXCEPT ![h] = "record"]
      /\ call' = call
  BY DEF OpenApproval
<1>3. i \notin Pending /\ Pending' = Pending \cup {i} /\ up' = up
  BY <1>m, <1>1 DEF Submit, Fresh, Pending, TypeOK
<1>4. IsFiniteSet(Pending) /\ IsFiniteSet(Pending')
  BY <1>3, FS_AddElement DEF RetryIInv
<1>5. BlockedHolds'
  <2> SUFFICES ASSUME "mcp" \notin Paths, NEW j \in Pending'
               PROVE  \E k \in Handler : pc'[k] \in {"record", "wait"} /\ mine'[k] = j
    BY DEF BlockedHolds
  <2>1. CASE j = i
    BY <1>1, <1>2, <2>1 DEF ToolTypeOK
  <2>2. CASE j # i
    <3>1. PICK k \in Handler : pc[k] \in {"record", "wait"} /\ mine[k] = j
      BY <1>3, <2>2 DEF RetryIInv, BlockedHolds
    <3>2. k # h
      BY <1>2, <3>1
    <3> QED
      BY <1>1, <1>2, <3>1, <3>2 DEF ToolTypeOK
  <2> QED
    BY <2>1, <2>2
<1>6. ASSUME Paths = {"mcp"}, NEW c \in Call
      PROVE  Cardinality(Waiting(Mesh, c)') + Cardinality(Opening(c)') <= Cardinality(Handler)
  <2>0. Cardinality(Waiting(Mesh, c)) + Cardinality(Opening(c)) <= Cardinality(Handler)
    BY <1>6 DEF RetryIInv, PendingPerCaller, Opening
  <2>1. /\ IsFiniteSet(Opening(c)) /\ IsFiniteSet(Waiting(Mesh, c))
        /\ Cardinality(Opening(c)) \in Nat /\ Cardinality(Waiting(Mesh, c)) \in Nat
    BY <1>4, OpeningIsFinite, WaitingIsFinite
  <2>2. /\ \A j \in Id \ {i} : status'[Mesh][j] = status[Mesh][j] /\ req'[j] = req[j]
        /\ req'[i].call = call[h]
        /\ status[Mesh][i] = "none" /\ status'[Mesh][i] = "pending"
    BY <1>m, <1>1 DEF Submit, Fresh, TypeOK
  <2>3. CASE c = call[h]
    <3>1. Waiting(Mesh, c)' = Waiting(Mesh, c) \cup {i} /\ i \notin Waiting(Mesh, c)
      BY <2>2, <2>3 DEF Waiting
    <3>2. Opening(c)' = Opening(c) \ {h} /\ h \in Opening(c)
      BY <1>2, <2>3 DEF Opening, ToolTypeOK
    <3>3. Cardinality(Waiting(Mesh, c)') = Cardinality(Waiting(Mesh, c)) + 1
      BY <2>1, <3>1, FS_AddElement
    <3>4. Cardinality(Opening(c)') = Cardinality(Opening(c)) - 1
      BY <2>1, <3>2, FS_RemoveElement
    <3> QED
      BY <2>0, <2>1, <3>3, <3>4
  <2>4. CASE c # call[h]
    <3>1. Waiting(Mesh, c)' = Waiting(Mesh, c)
      BY <2>2, <2>4 DEF Waiting
    <3>2. Opening(c)' = Opening(c)
      BY <1>2, <2>4 DEF Opening, ToolTypeOK
    <3> QED
      BY <2>0, <3>1, <3>2
  <2> QED
    BY <2>3, <2>4
<1>7. Paths = {"mcp"} => PendingPerCaller'
  BY <1>6 DEF PendingPerCaller, Opening
<1> QED
  BY <1>3, <1>4, <1>5, <1>7 DEF RetryIInv

\* Without a crash nothing is decided, forgotten or opened behind the back of
\* the calls.
LEMMA RetryStep ==
  ASSUME OneWay, MaxCrashes = 0, ToolIInv, RetryIInv, [ToolNext]_allVars
  PROVE  RetryIInv'
<1> USE DEF callVars, haltVars, tcVars
<1>0. TypeOK /\ ToolTypeOK /\ CallHolds /\ ChannelCarriesDecision
  BY DEF ToolIInv, IInv
<1>m. Mesh \in Proc
  BY MeshOnly
<1>d. ASSUME NEW i \in Id, NEW d \in Decision, status[Mesh][i] = "pending", Decide(Mesh, i, d)
      PROVE  Pending' \subseteq Pending
  BY <1>0, <1>m, <1>d DEF Decide, Pending, TypeOK, Decision
<1>p. ASSUME UNCHANGED status PROVE Pending' \subseteq Pending
  BY <1>p DEF Pending
<1>c. ASSUME UNCHANGED <<req, up, pc, mine, call>>, Pending' \subseteq Pending PROVE RetryIInv'
  BY <1>c, RetryQuiet
\* (one call moves)
<1>h. ASSUME NEW h \in Handler, UNCHANGED <<req, up>>, Pending' \subseteq Pending,
             \A k \in Handler \ {h} : pc'[k] = pc[k] /\ mine'[k] = mine[k] /\ call'[k] = call[k],
             pc[h] \in {"record", "wait"} /\ mine[h] \in Pending'
               => pc'[h] \in {"record", "wait"} /\ mine'[h] = mine[h],
             Paths = {"mcp"} => pc'[h] # "submit"
      PROVE  RetryIInv'
  BY <1>h, RetryQuiet
<1>1. ASSUME NEW h \in Handler, NEW x \in Paths, NEW c \in Call, Arrive(h, x, c)
      PROVE  RetryIInv'
  BY <1>0, <1>1, <1>h, <1>p DEF Arrive, vars, ToolTypeOK
<1>2. ASSUME NEW h \in Handler, TryApproved(h) \/ TryDenied(h) PROVE RetryIInv'
  BY <1>0, <1>2, <1>h, <1>p
  DEF TryApproved, TryDenied, ClaimDecided, Goto, Answered, vars, ToolTypeOK
<1>3. ASSUME NEW h \in Handler, TryPending(h) PROVE RetryIInv'
  <2>1. CASE pc'[h] = "submit"
    <3>1. UNCHANGED vars /\ UNCHANGED mine
          /\ \A k \in Handler : pc[k] \in {"record", "wait"} => pc'[k] = pc[k]
      BY <1>0, <1>3, <2>1 DEF TryPending, Goto, Answered, ToolTypeOK
    <3>2. Pending' = Pending /\ UNCHANGED up
      BY <3>1 DEF vars, Pending
    <3>3. BlockedHolds'
      BY <3>1, <3>2 DEF RetryIInv, BlockedHolds
    <3>4. "mcp" \in Paths => Paths = {"mcp"}
      BY DEF OneWay
    <3> QED
      BY <1>0, <1>3, <2>1, <3>2, <3>3, <3>4, MeetingNone DEF RetryIInv
  <2>2. CASE pc'[h] # "submit"
    BY <1>0, <1>3, <1>h, <1>p, <2>2 DEF TryPending, Goto, Answered, vars, ToolTypeOK
  <2> QED
    BY <2>1, <2>2
<1>4. ASSUME NEW h \in Handler, OpenApproval(h) PROVE RetryIInv'
  BY <1>0, <1>4, OpeningOne
<1>5. ASSUME NEW h \in Handler, NoApprovalLeft(h) \/ RecordTrace(h) \/ Run(h) PROVE RetryIInv'
  BY <1>0, <1>5, <1>h, <1>p
  DEF NoApprovalLeft, RecordTrace, Run, Goto, Answered, vars, ToolTypeOK
<1>6. ASSUME NEW h \in Handler, GetAnswer(h) PROVE RetryIInv'
  <2>1. mine[h] \in Id /\ result[Mesh][mine[h]] \in Decision
    BY <1>0, <1>6 DEF GetAnswer, Receive, CallHolds, CallKnows
  <2>2. mine[h] \notin Pending
    BY <1>0, <1>m, <2>1 DEF ChannelCarriesDecision, Pending, Decision
  <2>3. Pending' \subseteq Pending /\ UNCHANGED <<req, up>>
    BY <1>6, <1>p DEF GetAnswer, Receive
  <2>4. /\ pc'[h] # "submit"
        /\ \A k \in Handler \ {h} : pc'[k] = pc[k] /\ mine'[k] = mine[k] /\ call'[k] = call[k]
    BY <1>0, <1>6 DEF GetAnswer, Goto, Answered, ToolTypeOK
  <2> QED
    BY <1>h, <2>2, <2>3, <2>4
<1>7. ASSUME NEW h \in Handler, StopWaiting(h) PROVE RetryIInv'
  <2>1. path[h] = "mcp" /\ path[h] \in Paths
    BY <1>0, <1>7 DEF StopWaiting, CallHolds, CallKnows
  <2>2. UNCHANGED <<req, up, status>> /\ Pending' = Pending
    BY <1>7 DEF StopWaiting, Leave, Pending
  <2>3. BlockedHolds'
    BY <2>1 DEF BlockedHolds
  <2>4. Paths = {"mcp"} => PendingPerCaller'
    <3>1. \A c : Opening(c)' = Opening(c) /\ Waiting(Mesh, c)' = Waiting(Mesh, c)
      BY <1>0, <1>7, <2>2 DEF StopWaiting, Answered, Opening, Waiting, ToolTypeOK
    <3>2. ASSUME Paths = {"mcp"}, NEW c \in Call
          PROVE  Cardinality(Waiting(Mesh, c)') + Cardinality(Opening(c)') <= Cardinality(Handler)
      <4>1. Cardinality(Waiting(Mesh, c)) + Cardinality(Opening(c)) <= Cardinality(Handler)
        BY <3>2 DEF RetryIInv, PendingPerCaller, Opening
      <4> QED
        BY <3>1, <4>1
    <3> QED
      BY <3>2 DEF PendingPerCaller, Opening
  <2> QED
    BY <2>2, <2>3, <2>4 DEF RetryIInv
<1>8. ASSUME NEW h \in Handler, ClaimOwn(h) PROVE RetryIInv'
  BY <1>0, <1>8, <1>h, <1>p DEF ClaimOwn, Claim, Goto, Answered, vars, ToolTypeOK
<1>9. ASSUME NEW i \in Id, ApproveAndReplay(i) \/ \E d \in {"approved", "denied"} : Answer(i, d)
      PROVE  RetryIInv'
  <2>1. PICK d \in {"approved", "denied"} : Resolve(Mesh, i, d)
    BY <1>9 DEF ApproveAndReplay, Answer
  <2>2. Pending' \subseteq Pending /\ UNCHANGED <<req, up>>
    BY <1>d, <2>1 DEF Resolve, Decision
  <2> QED
    BY <1>9, <1>c, <2>2 DEF ApproveAndReplay, Answer
<1>10. ASSUME NEW i \in Id, Replay(i) PROVE RetryIInv'
  BY <1>10, <1>c, <1>p DEF Replay, vars
<1>11. ASSUME NEW s \in Scopes, PrivatePass(s) PROVE RetryIInv'
  BY <1>11, <1>c, <1>p, StoreAlone
  DEF PrivatePass, StartHalt, ReadTraces, ListWaiting, DenyDone, ResumeHalt, vars
<1>12. ASSUME NEW s \in Scopes, NEW i \in Id, DenyNext(s, i) PROVE RetryIInv'
  <2>1. Pending' \subseteq Pending /\ UNCHANGED <<req, up>>
    BY <1>12, <1>d, <1>p DEF DenyNext, Resolve, Decision, vars
  <2> QED
    BY <1>12, <1>c, <2>1 DEF DenyNext
<1>13. CASE StoreStep
  <2>1. UNCHANGED <<req, up>> /\ Pending' \subseteq Pending
    <3>1. ~Restart(Mesh)
      BY <1>m DEF Restart, RetryIInv
    <3>2. ASSUME NEW i \in Id, TimerFires(Mesh, i)
          PROVE  UNCHANGED <<req, up>> /\ Pending' \subseteq Pending
      BY <1>d, <1>p, <3>2 DEF TimerFires, Decision
    <3>3. ASSUME NEW i \in Id, SaveRead(Mesh, i) \/ SaveRow(Mesh, i)
          PROVE  UNCHANGED <<req, up, status>>
      BY <3>3 DEF SaveRead, SaveRow
    <3>4. ASSUME Tick \/ \E t \in Timeouts : Apply(Mesh, t)
          PROVE  UNCHANGED <<req, up, status>>
      BY <3>4 DEF Tick, Apply, memVars
    <3> QED
      BY <1>13, <1>p, <3>1, <3>2, <3>3, <3>4 DEF StoreStep
  <2> QED
    BY <1>13, <1>c, <2>1 DEF StoreStep
<1>14. CASE CrashAll
  BY <1>0, <1>14 DEF CrashAll, ToolTypeOK
<1>15. CASE UNCHANGED allVars
  BY <1>15, <1>c, <1>p DEF allVars, vars
<1> QED
  BY <1>1, <1>2, <1>3, <1>4, <1>5, <1>6, <1>7, <1>8, <1>9, <1>10, <1>11, <1>12, <1>13, <1>14,
     <1>15 DEF ToolNext, CallStep, HaltStep, PrivatePass

\* So it stays, from the start on.
LEMMA RetryInductive ==
  ASSUME OneWay, MaxCrashes = 0
  PROVE  ToolSpec => []RetryIInv
<1>1. ToolInit => RetryIInv
  <2> SUFFICES ASSUME ToolInit PROVE RetryIInv
    OBVIOUS
  <2>1. Pending = {} /\ up = Proc
    BY MeshOnly DEF ToolInit, Init, Pending
  <2>2. IsFiniteSet(Pending) /\ BlockedHolds
    BY <2>1, FS_EmptySet DEF BlockedHolds
  <2>3. ASSUME NEW c \in Call
        PROVE  Cardinality(Waiting(Mesh, c)) + Cardinality(Opening(c)) <= Cardinality(Handler)
    <3>1. Waiting(Mesh, c) = {} /\ Opening(c) = {}
      BY <2>1 DEF ToolInit, Waiting, Pending, Opening
    <3> QED
      BY <3>1, FS_EmptySet, OpeningIsFinite
  <2> QED
    BY <2>1, <2>2, <2>3 DEF RetryIInv, PendingPerCaller, Opening
<1>2. ToolIInv /\ RetryIInv /\ [ToolNext]_allVars => RetryIInv'
  BY RetryStep
<1> QED
  BY <1>1, <1>2, PipelineInductive, PTL DEF ToolSpec

\* As long as the process lives and its callers are of one kind, retries do
\* not pile approvals up: never more of them wait for a call than it has
\* callers, whoever answers and whatever times out meanwhile.
THEOREM RetriesDoNotPileUp ==
  ASSUME OneWay, MaxCrashes = 0
  PROVE  ToolSpec => []PendingPerCaller
<1>1. ToolIInv /\ RetryIInv => PendingPerCaller
  <2> SUFFICES ASSUME ToolIInv, RetryIInv, "mcp" \notin Paths, NEW c \in Call
               PROVE  Cardinality(Waiting(Mesh, c)) + Cardinality(Opening(c))
                        <= Cardinality(Handler)
    BY DEF OneWay, RetryIInv, PendingPerCaller, Opening
  <2> DEFINE W == Waiting(Mesh, c)
             B == {h \in Handler : pc[h] \in {"record", "wait"} /\ mine[h] \in W}
  <2>1. [h \in B |-> mine[h]] \in Surjection(B, W)
    <3>1. \A i \in W : \E h \in B : mine[h] = i
      BY DEF RetryIInv, BlockedHolds, Waiting, Pending
    <3> QED
      BY <3>1 DEF Surjection
  <2>2. B \cup Opening(c) \subseteq Handler /\ B \cap Opening(c) = {}
    BY DEF Opening
  <2> HIDE DEF W, B
  <2>3. /\ IsFiniteSet(B) /\ IsFiniteSet(Opening(c)) /\ IsFiniteSet(B \cup Opening(c))
        /\ Cardinality(B \cup Opening(c)) <= Cardinality(Handler)
    BY <2>2, ToolCallConstants, FS_Subset
  <2>4. Cardinality(W) <= Cardinality(B) /\ IsFiniteSet(W)
    BY <2>1, <2>3, FS_Surjection
  <2>5. Cardinality(B \cup Opening(c)) = Cardinality(B) + Cardinality(Opening(c)) - 0
    BY <2>2, <2>3, FS_Union, FS_EmptySet
  <2>6. /\ Cardinality(B) \in Nat /\ Cardinality(Opening(c)) \in Nat
        /\ Cardinality(W) \in Nat /\ Cardinality(Handler) \in Nat
    BY <2>3, <2>4, ToolCallConstants, FS_CardinalityType
  <2> QED
    BY <2>3, <2>4, <2>5, <2>6 DEF W
<1> QED
  BY <1>1, PipelineInductive, RetryInductive, PTL

------------------------------------------------------------------------------
(* One yes, one run *)

\* Claims are made by calls that do not block, and a crash forgets them.
LEMMA ClaimsStep ==
  ASSUME ToolIInv, ClaimsAreMcp, [ToolNext]_allVars
  PROVE  ClaimsAreMcp'
<1> SUFFICES ASSUME "mcp" \notin Paths PROVE claimed'[Mesh] = {}
  BY DEF ClaimsAreMcp
<1>0. TypeOK /\ CallHolds /\ claimed[Mesh] = {}
  BY DEF ToolIInv, IInv, ClaimsAreMcp
<1>m. Mesh \in Proc
  BY MeshOnly
<1>1. ASSUME NEW h \in Handler, TryApproved(h) \/ TryDenied(h) \/ ClaimOwn(h) PROVE FALSE
  BY <1>0, <1>1 DEF TryApproved, TryDenied, ClaimOwn, CallHolds, CallKnows
<1>2. ASSUME NEW h \in Handler, OpenApproval(h) \/ GetAnswer(h) \/ StopWaiting(h)
      PROVE  claimed' = claimed
  BY <1>2 DEF OpenApproval, GetAnswer, StopWaiting, Submit, Receive, Leave
<1>3. ASSUME NEW h \in Handler, PrivateStep(h) PROVE claimed' = claimed
  BY <1>3, StoreAlone DEF vars
<1>4. ASSUME NEW i \in Id, \/ ApproveAndReplay(i) \/ \E d \in {"approved", "denied"} : Answer(i, d)
                           \/ \E s \in Scopes : DenyNext(s, i)
      PROVE  claimed' = claimed
  BY <1>4 DEF ApproveAndReplay, Answer, DenyNext, Resolve, vars
<1>5. ASSUME \/ \E i \in Id : Replay(i)
             \/ \E s \in Scopes : PrivatePass(s)
      PROVE  claimed' = claimed
  BY <1>5, StoreAlone DEF vars
<1>6. CASE StoreStep
  <2>1. claimed' = claimed
    BY <1>6 DEF StoreStep, Tick, Restart, SaveRead, SaveRow, TimerFires, Apply, memVars
  <2> QED
    BY <1>0, <2>1
<1>7. CASE CrashAll
  BY <1>0, <1>m, <1>7 DEF CrashAll, Crash, TypeOK
<1>8. CASE UNCHANGED allVars
  BY <1>0, <1>8 DEF allVars, vars
<1> QED
  BY <1>0, <1>1, <1>2, <1>3, <1>4, <1>5, <1>6, <1>7, <1>8
  DEF ToolNext, CallStep, HaltStep, PrivateStep, PrivatePass

\* And never one by a call that blocks.
LEMMA ClaimsInductive == ToolSpec => []ClaimsAreMcp
<1>1. ToolInit => ClaimsAreMcp
  BY MeshOnly DEF ToolInit, Init, ClaimsAreMcp
<1>2. ToolIInv /\ ClaimsAreMcp /\ [ToolNext]_allVars => ClaimsAreMcp'
  BY ClaimsStep
<1> QED
  BY <1>1, <1>2, PipelineInductive, PTL DEF ToolSpec

\* A claim and a blocked call never both pay, and there is one life.
LEMMA OnePayment ==
  ASSUME OneUse, ToolIInv, ClaimsAreMcp, NEW i \in Id
  PROVE  /\ runs[i] + Cardinality(RunningOn(i)) <= 1
         /\ runs[i] \in Nat /\ Cardinality(RunningOn(i)) \in Nat
<1>1. /\ runs[i] \in Nat /\ Cardinality(RunningOn(i)) \in Nat /\ IsFiniteSet(RunningOn(i))
      /\ crashes = 0
  BY Shares DEF ToolIInv, ToolTypeOK, OneUse
<1>2. PerLife * crashes = 0
  BY <1>1, Shares
<1>3. Earned(i) = (IF i \in claimed[Mesh] THEN 1 ELSE 0)
                    + (IF i \in waiters[Mesh] THEN 0 ELSE PerBlock)
  BY <1>2, Shares DEF Earned, OneUse
<1>4. Paths = {"mcp"} \/ claimed[Mesh] = {}
  BY DEF OneUse, OneWay, ClaimsAreMcp
<1>5. Earned(i) \in 0 .. 1
  BY <1>3, <1>4, Shares DEF PerBlock
<1>6. Spent(i) <= Earned(i)
  BY DEF ToolIInv, RunsAreEarned
<1> QED
  BY <1>1, <1>5, <1>6 DEF Spent

\* A yes is good for one run, when calls are of one kind and neither a
\* supervisor nor a crash lets it be used again.
THEOREM OneYesOneRun ==
  ASSUME OneUse
  PROVE  ToolSpec => []OneRunPerApproval
<1>1. ToolIInv /\ ClaimsAreMcp => OneRunPerApproval
  BY OnePayment DEF OneRunPerApproval
<1> QED
  BY <1>1, PipelineInductive, ClaimsInductive, PTL

\* Every step of the pipeline is one of the ledger, or none the ledger sees.
LEMMA LedgerStep ==
  ASSUME OneUse, ToolIInv, RetryIInv, ClaimsAreMcp, [ToolNext]_allVars
  PROVE  [L!Next]_<<LedgerAnswer, runs>>
<1> USE DEF callVars, haltVars, tcVars
<1>0. TypeOK /\ ToolTypeOK /\ CallHolds /\ ReplayHolds /\ OneWay /\ MaxCrashes = 0
  BY DEF ToolIInv, IInv, OneUse
<1>m. Mesh \in Proc
  BY MeshOnly
<1>q. ASSUME status'[Mesh] = status[Mesh], runs' = runs
      PROVE  UNCHANGED <<LedgerAnswer, runs>>
  BY <1>q DEF LedgerAnswer
<1>d. ASSUME NEW i \in Id, NEW d \in Decision, status[Mesh][i] = "pending",
             Decide(Mesh, i, d), runs' = runs
      PROVE  L!Next
  <2> DEFINE a == IF d = "approved" THEN "granted" ELSE "refused"
  <2>1. status'[Mesh] = [status[Mesh] EXCEPT ![i] = d]
    BY <1>0, <1>m, <1>d DEF Decide, TypeOK
  <2>2. LedgerAnswer' = [LedgerAnswer EXCEPT ![i] = a] /\ LedgerAnswer[i] = "open"
    <3>1. status'[Mesh][i] = d /\ \A j \in Id \ {i} : status'[Mesh][j] = status[Mesh][j]
      BY <1>0, <1>m, <2>1 DEF TypeOK
    <3> QED
      BY <1>d, <3>1 DEF LedgerAnswer, Decision
  <2>3. L!Answer(i, a)
    BY <1>d, <2>2 DEF L!Answer
  <2> QED
    BY <2>3 DEF L!Next
<1>1. ASSUME NEW h \in Handler, Run(h) PROVE L!Next
  <2> DEFINE i == mine[h]
  <2>1. i \in Id /\ status[Mesh][i] = "approved" /\ h \in RunningOn(i)
    BY <1>0, <1>1 DEF Run, CallHolds, CallKnows, RunningOn
  <2>2. IsFiniteSet(RunningOn(i)) /\ Cardinality(RunningOn(i)) # 0
    BY <2>1, Shares, FS_EmptySet
  <2>3. runs[i] = 0
    BY <2>1, <2>2, OnePayment
  <2>4. runs' = [runs EXCEPT ![i] = 1] /\ UNCHANGED LedgerAnswer
    BY <1>0, <1>1, <2>3 DEF Run, CountRun, vars, LedgerAnswer
  <2>5. LedgerAnswer[i] = "granted"
    BY <2>1 DEF LedgerAnswer
  <2> HIDE DEF i
  <2>6. L!Use(i)
    BY <2>3, <2>4, <2>5 DEF L!Use
  <2> QED
    BY <2>1, <2>6 DEF L!Next
<1>2. ASSUME NEW h \in Handler, OpenApproval(h) PROVE L!Next
  <2>1. PICK i \in Id : NeverUsed(i) /\ Submit(Mesh, i, call[h])
    BY <1>2 DEF OpenApproval
  <2>2. status[Mesh][i] = "none" /\ status'[Mesh] = [status[Mesh] EXCEPT ![i] = "pending"]
    BY <1>0, <1>m, <2>1 DEF NeverUsed, Fresh, Submit, TypeOK
  <2>3. LedgerAnswer' = [LedgerAnswer EXCEPT ![i] = "open"] /\ LedgerAnswer[i] = "none"
    <3>1. status'[Mesh][i] = "pending" /\ \A j \in Id \ {i} : status'[Mesh][j] = status[Mesh][j]
      BY <1>0, <1>m, <2>2 DEF TypeOK
    <3> QED
      BY <2>2, <3>1 DEF LedgerAnswer
  <2>4. L!Open(i)
    BY <1>2, <2>3 DEF L!Open, OpenApproval
  <2> QED
    BY <2>4 DEF L!Next
<1>3. ASSUME NEW h \in Handler,
             \/ \E x \in Paths, c \in Call : Arrive(h, x, c)
             \/ TryApproved(h) \/ TryDenied(h) \/ TryPending(h)
             \/ NoApprovalLeft(h) \/ RecordTrace(h)
             \/ GetAnswer(h) \/ ClaimOwn(h) \/ StopWaiting(h)
      PROVE  UNCHANGED <<LedgerAnswer, runs>>
  <2>1. UNCHANGED <<status, runs>>
    BY <1>3 DEF Arrive, TryApproved, TryDenied, TryPending, NoApprovalLeft, RecordTrace,
                GetAnswer, ClaimOwn, StopWaiting, ClaimDecided, Claim, Receive, Leave, vars
  <2> QED
    BY <1>q, <2>1
<1>4. ASSUME NEW i \in Id, \E d \in {"approved", "denied"} : Answer(i, d) PROVE L!Next
  BY <1>4, <1>d DEF Answer, Resolve, Decision
<1>5. ASSUME NEW i \in Id, ApproveAndReplay(i) \/ Replay(i) PROVE FALSE
  BY <1>0, <1>5 DEF ApproveAndReplay, Replay, OneUse, ReplayHolds
<1>6. ASSUME NEW s \in Scopes, PrivatePass(s) PROVE UNCHANGED <<LedgerAnswer, runs>>
  BY <1>6, <1>q, StoreAlone
  DEF PrivatePass, StartHalt, ReadTraces, ListWaiting, DenyDone, ResumeHalt, vars
<1>7. ASSUME NEW s \in Scopes, NEW i \in Id, DenyNext(s, i)
      PROVE  L!Next \/ UNCHANGED <<LedgerAnswer, runs>>
  <2>1. CASE Resolve(Mesh, i, "denied")
    BY <1>7, <1>d, <2>1 DEF DenyNext, Resolve, Decision
  <2>2. CASE UNCHANGED vars
    BY <1>7, <1>q, <2>2 DEF DenyNext, vars
  <2> QED
    BY <1>7, <2>1, <2>2 DEF DenyNext
<1>8. CASE StoreStep
  <2>1. ~Restart(Mesh)
    BY <1>m DEF Restart, RetryIInv
  <2>2. ASSUME NEW i \in Id, TimerFires(Mesh, i), runs' = runs
        PROVE  L!Next \/ UNCHANGED <<LedgerAnswer, runs>>
    <3>1. CASE status[Mesh][i] = "pending"
      BY <1>d, <2>2, <3>1 DEF TimerFires, Decision
    <3>2. CASE status[Mesh][i] # "pending"
      BY <1>q, <2>2, <3>2 DEF TimerFires
    <3> QED
      BY <3>1, <3>2
  <2>3. ASSUME \/ Tick \/ \E t \in Timeouts : Apply(Mesh, t)
               \/ \E i \in Id : SaveRead(Mesh, i) \/ SaveRow(Mesh, i)
        PROVE  UNCHANGED status
    BY <2>3 DEF Tick, Apply, SaveRead, SaveRow, memVars
  <2> QED
    BY <1>8, <1>q, <2>1, <2>2, <2>3 DEF StoreStep
<1>9. CASE CrashAll
  BY <1>0, <1>9 DEF CrashAll, ToolTypeOK
<1>10. CASE UNCHANGED allVars
  BY <1>10, <1>q DEF allVars, vars
<1> QED
  BY <1>1, <1>2, <1>3, <1>4, <1>5, <1>6, <1>7, <1>8, <1>9, <1>10
  DEF ToolNext, CallStep, HaltStep, PrivatePass

\* Then the pipeline, with its channels, timers, claims, retries and stops, is
\* the ledger: each approval is opened once, answered once for good, and a
\* tool runs on it at most once, after a yes.
THEOREM PipelineImplementsLedger ==
  ASSUME OneUse
  PROVE  ToolSpec => ImplementsLedger
<1>1. ToolInit => L!Init
  BY MeshOnly DEF ToolInit, Init, L!Init, LedgerAnswer
<1>2. ToolIInv /\ RetryIInv /\ ClaimsAreMcp /\ [ToolNext]_allVars
        => [L!Next]_<<LedgerAnswer, runs>>
  BY LedgerStep
<1>3. OneWay /\ MaxCrashes = 0
  BY DEF OneUse
<1>4. ToolSpec => []RetryIInv
  BY <1>3, RetryInductive
<1> QED
  BY <1>1, <1>2, <1>4, PipelineInductive, ClaimsInductive, PTL
  DEF ToolSpec, ImplementsLedger, L!Spec
================================================================================
