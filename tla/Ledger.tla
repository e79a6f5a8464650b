-------------------------------- MODULE Ledger --------------------------------
(***************************************************************************)
(* What an approval promises (docs/approval-flow.md, "the approval is used *)
(* up, so a retry of the same call does not run it again"): it is opened   *)
(* once, answered once, and a tool runs on it at most once, after a human  *)
(* or a supervisor said yes.  No store, timer, channel, claim or retry.    *)
(***************************************************************************)
EXTENDS Naturals

CONSTANT Id

VARIABLES
  answer,   \* Id -> "none", "open", "granted" or "refused"
  runs      \* Id -> how many times a tool ran on it

Init ==
  /\ answer = [i \in Id |-> "none"]
  /\ runs = [i \in Id |-> 0]

Open(i) ==
  /\ answer[i] = "none"
  /\ answer' = [answer EXCEPT ![i] = "open"]
  /\ UNCHANGED runs

Answer(i, a) ==
  /\ answer[i] = "open"
  /\ answer' = [answer EXCEPT ![i] = a]
  /\ UNCHANGED runs

Use(i) ==
  /\ answer[i] = "granted"
  /\ runs[i] = 0
  /\ runs' = [runs EXCEPT ![i] = 1]
  /\ UNCHANGED answer

Next ==
  \E i \in Id :
    \/ Open(i)
    \/ \E a \in {"granted", "refused"} : Answer(i, a)
    \/ Use(i)

Spec == Init /\ [][Next]_<<answer, runs>>
===============================================================================
