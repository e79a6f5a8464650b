------------------------------ MODULE Precedents ------------------------------
(***************************************************************************)
(* Automatic approval from past decisions (approval/memory.go and          *)
(* TryAutoResolveSafe in approval/store.go): every decision is written to  *)
(* mem7 as a fact by a goroutine nobody waits for, and a call that needs   *)
(* an approval first counts the facts of its tool and agent.               *)
(*                                                                         *)
(* A subject is a tool and an agent, the tags of a query.  mem7 is a bag   *)
(* of facts: keys never clash, only tags are read back.  It may fail, or   *)
(* be out of reach, at any request.  The settings that govern the answer   *)
(* change while calls are served, as ApprovalSettings says.                *)
(***************************************************************************)
EXTENDS ApprovalSettings, FiniteSets, Bags

CONSTANTS
  Subject,
  Reads,      \* the subjects whose tool is a named one that reads
  Caller,     \* calls being served at a time
  Resolver,   \* who answers approvals, as resolved_by says
  Old,        \* what mem7 may hold at the start
  MaxAsks, MaxForgets

Kind == {"human", "supervisor", "mem7", "system", "none"} \* none: before the by: tag
Fact == [of : Subject, status : {"approved", "denied", "timeout"}, by : Kind]

ASSUME PrecedentConstants ==
  /\ Reads \subseteq Subject
  /\ Memory
  /\ \A b \in Old : IsABag(b) /\ BagToSet(b) \subseteq Fact
  /\ {MaxAsks, MaxForgets} \subseteq Nat

VARIABLES
  mem7,     \* the facts it holds
  writing,  \* those whose store goroutine is not done
  call,     \* caller -> the call it serves, Idle without
  asks, forgets,
  given,    \* subject -> human approvals since it was last forgotten, or
            \*   being written at that time
  fresh,    \* callers whose subject was not forgotten since they asked
  barred    \* caller -> the refusal there was when it asked: "no", "given"
            \*   but not yet written, or "written"

ghosts == <<given, fresh, barred>>
vars == <<mem7, writing, settingsVars, call, asks, forgets, ghosts>>

Querying == {"allowed", "approvals", "refusals", "verdict"}
Idle == [at |-> "idle"]
Call == [at : Querying \cup {"waiting"}, of : Subject, submits : BOOLEAN,
         approved : Nat, refused : Nat]

TypeOK ==
  /\ \A b \in {mem7, writing} : IsABag(b) /\ BagToSet(b) \subseteq Fact
  /\ SettingsTypeOK
  /\ call \in [Caller -> Call \cup {Idle}]
  /\ asks \in 0 .. MaxAsks /\ forgets \in 0 .. MaxForgets
  /\ given \in [Subject -> Nat] /\ fresh \subseteq Caller
  /\ barred \in [Caller -> {"no", "given", "written"}]

(* count: the facts of a bag that carry every tag.                         *)
Copies(bag, f) == IF f \in BagToSet(bag) THEN bag[f] ELSE 0

Count(bag, s, status, kinds) ==
  LET by(k) == IF k \in kinds THEN Copies(bag, [of |-> s, status |-> status, by |-> k]) ELSE 0
  IN by("human") + by("supervisor") + by("mem7") + by("system") + by("none")

Approvals(s) == Count(mem7, s, "approved", {"human"})

(* Variant: only a human's refusal. *)
HumanRefusals(s) == Count(mem7, s, "denied", {"human"})

Refusals(s) == Count(mem7, s, "denied", Kind)

(* Variant: the automatic approvals are a human's. *)
KindByPrefix(who) ==
  CASE who = "supervisor:sup7" -> "supervisor"
    [] who = "system:timeout" -> "system"
    [] OTHER -> "human"

(* resolverKind: who settled a decision, by the prefix of resolved_by.     *)
ResolverKind(who) ==
  CASE who = "supervisor:mem7" -> "mem7"
    [] who = "supervisor:sup7" -> "supervisor"
    [] who = "system:timeout" -> "system"
    [] OTHER -> "human"

(* WriteDecision starts a goroutine and returns. *)
WriteDecision(s, status, who) ==
  writing' = writing (+) SetToBag({[of |-> s, status |-> status, by |-> ResolverKind(who)]})

Init ==
  /\ mem7 \in Old /\ writing = EmptyBag
  /\ SettingsInit
  /\ call = [c \in Caller |-> Idle] /\ asks = 0 /\ forgets = 0
  /\ given = [s \in Subject |-> Approvals(s)]
  /\ fresh = {} /\ barred = [c \in Caller |-> "no"]

-----------------------------------------------------------------------------
(* The calls. *)

(* No automatic approval: submitted to people, or told so by /decide.      *)
Escalated(cl) == IF cl.submits THEN [cl EXCEPT !.at = "waiting", !.approved = 0, !.refused = 0]
                 ELSE Idle

(* The policy asks for an approval: a call, or a question to /decide.      *)
Ask(c, s, submits) ==
  LET cl == [at |-> "allowed", of |-> s, submits |-> submits, approved |-> 0, refused |-> 0] IN
  /\ call[c] = Idle /\ asks < MaxAsks /\ asks' = asks + 1
  /\ call' = [call EXCEPT ![c] = IF settings.auto THEN cl ELSE Escalated(cl)]
  /\ fresh' = fresh \cup {c}
  /\ barred' = [barred EXCEPT ![c] = IF Count(mem7, s, "denied", Kind) > 0 THEN "written"
       ELSE IF Count(writing, s, "denied", Kind) > 0 THEN "given" ELSE "no"]
  /\ UNCHANGED <<mem7, writing, settingsVars, forgets, given>>

(* AutoApprovable, then the injection guard. *)
Eligible(c, injected) ==
  LET cl == call[c] IN
  /\ cl.at = "allowed"
  /\ call' = [call EXCEPT ![c] =
       IF (settings.writes \/ cl.of \in Reads) /\ ~injected
         THEN [cl EXCEPT !.at = "approvals"] ELSE Escalated(cl)]
  /\ UNCHANGED <<mem7, writing, settingsVars, asks, forgets, ghosts>>

CountApprovals(c) ==
  /\ call[c].at = "approvals"
  /\ call' = [call EXCEPT ![c].approved = Approvals(call[c].of), ![c].at = "refusals"]
  /\ UNCHANGED <<mem7, writing, settingsVars, asks, forgets, ghosts>>

CountRefusals(c) ==
  /\ call[c].at = "refusals"
  /\ call' = [call EXCEPT ![c].refused = Refusals(call[c].of), ![c].at = "verdict"]
  /\ UNCHANGED <<mem7, writing, settingsVars, asks, forgets, ghosts>>

(* Either query fails, or its answer cannot be read. *)
QueryFails(c) ==
  /\ call[c].at \in {"approvals", "refusals"}
  /\ call' = [call EXCEPT ![c] = Escalated(call[c])]
  /\ UNCHANGED <<mem7, writing, settingsVars, asks, forgets, ghosts>>

(* verdict, with the threshold of this moment; an approval is a decision   *)
(* too and is written.                                                     *)
Verdict(c) ==
  LET cl == call[c] IN
  /\ cl.at = "verdict"
  /\ IF cl.refused = 0 /\ cl.approved >= settings.min
       THEN /\ call' = [call EXCEPT ![c] = Idle]
            /\ WriteDecision(cl.of, "approved", "supervisor:mem7")
       ELSE call' = [call EXCEPT ![c] = Escalated(cl)] /\ UNCHANGED writing
  /\ UNCHANGED <<mem7, settingsVars, asks, forgets, ghosts>>

-----------------------------------------------------------------------------
(* The decisions, and the operator. *)

(* Resolve or timeoutAfter: the approval is settled, once. *)
Settle(c, status, who) ==
  LET s == call[c].of IN
  /\ call[c].at = "waiting"
  /\ call' = [call EXCEPT ![c] = Idle]
  /\ WriteDecision(s, status, who)
  /\ given' = IF status = "approved" /\ who = "user" THEN [given EXCEPT ![s] = @ + 1] ELSE given
  /\ UNCHANGED <<mem7, settingsVars, asks, forgets, fresh, barred>>

Answer(c) == \E who \in Resolver, status \in {"approved", "denied"} : Settle(c, status, who)
Expire(c) == Settle(c, "timeout", "system:timeout")

(* store: the fact arrives, or its POST fails. *)
Store(f) ==
  /\ f \in BagToSet(writing)
  /\ writing' = writing (-) SetToBag({f})
  /\ mem7' \in {mem7, mem7 (+) SetToBag({f})}
  /\ UNCHANGED <<settingsVars, call, asks, forgets, ghosts>>

(* ForgetPrecedents: what mem7 holds of the subject; what is on its way    *)
(* arrives afterwards.                                                     *)
Forget(s) ==
  LET of == {f \in BagToSet(mem7) : f.of = s} IN
  /\ forgets < MaxForgets /\ forgets' = forgets + 1
  /\ mem7' = [f \in BagToSet(mem7) \ of |-> mem7[f]]
  /\ given' = [given EXCEPT ![s] = Count(writing, s, "approved", {"human"})]
  /\ LET its == {c \in Caller : call[c] # Idle /\ call[c].of = s} IN
       /\ fresh' = fresh \ its
       /\ barred' = [c \in Caller |-> IF c \in its THEN "no" ELSE barred[c]]
  /\ UNCHANGED <<writing, settingsVars, call, asks>>

(* The settings change, from the console or by hand in their file. *)
Configure == SettingsNext /\ UNCHANGED <<mem7, writing, call, asks, forgets, ghosts>>

-----------------------------------------------------------------------------
Query(c) ==
  (\E i \in BOOLEAN : Eligible(c, i)) \/ CountApprovals(c) \/ CountRefusals(c) \/ QueryFails(c) \/ Verdict(c)

Next ==
  \/ \E c \in Caller : \/ \E s \in Subject, submits \in BOOLEAN : Ask(c, s, submits)
                       \/ Query(c) \/ Answer(c) \/ Expire(c)
  \/ \E f \in BagToSet(writing) : Store(f)
  \/ \E s \in Subject : Forget(s)
  \/ Configure

Spec == Init /\ [][Next]_vars

-----------------------------------------------------------------------------
(* What the console lists: would_auto_approve of Store.Precedents. *)
WouldAutoApprove(s) ==
  (settings.writes \/ s \in Reads) /\ Refusals(s) = 0 /\ Approvals(s) >= settings.min

(* Properties. *)

AutoApproves(c) ==
  call[c].at = "verdict" /\ call'[c] = Idle /\ writing' # writing

(* Automatic approvals rest on people: when a call is approved from        *)
(* precedents, people have approved its tool and agent at least as often   *)
(* as the threshold of that moment asks, since the couple was last         *)
(* forgotten.  Whatever automatic decisions pile up, and however often the *)
(* threshold is raised, they never feed the next one.                      *)
GroundedInHumans ==
  [][\A c \in fresh : AutoApproves(c) => given[call[c].of] >= settings.min]_vars

(* A refusal that mem7 held when a call asked, by anyone, keeps it from    *)
(* automatic approval, unless it was forgotten meanwhile.                  *)
RefusalBlocks == [][\A c \in Caller : AutoApproves(c) => barred[c] # "written"]_vars

(* Any refusal given before a call asked keeps it from automatic approval. *)
GivenRefusalBlocks == [][\A c \in Caller : AutoApproves(c) => barred[c] = "no"]_vars

(* A call never passes on approvals that were forgotten before its answer. *)
ForgottenIsForgotten == [][\A c \in Caller : AutoApproves(c) => c \in fresh]_vars

(* The list tells what the next call would meet, mem7 answering.           *)
ListTellsNextCall ==
  \A s \in Subject : WouldAutoApprove(s) => settings.auto

-----------------------------------------------------------------------------
(* The inductive invariant behind GroundedInHumans and RefusalBlocks       *)
(* (PrecedentsProofs).                                                     *)

(* Who is taken for a person is one: false of a supervisor that answers    *)
(* through approval.resolve.                                               *)
PeopleAnswerAsUser == \A who \in Resolver : ResolverKind(who) = "human" => who = "user"

(* Every human approval that mem7 holds or is about to hold was given, and *)
(* a query has counted no more of them than were.                          *)
ApprovalsHold ==
  PeopleAnswerAsUser =>
    /\ \A s \in Subject : Approvals(s) + Count(writing, s, "approved", {"human"}) <= given[s]
    /\ \A c \in fresh : call[c] # Idle => call[c].approved <= given[call[c].of]

(* A refusal that barred a call is still there, or was counted.            *)
RefusalsHold ==
  \A c \in Caller : barred[c] = "written" /\ call[c].at \in Querying =>
    IF call[c].at = "verdict" THEN call[c].refused > 0 ELSE Refusals(call[c].of) > 0

PrecedentsIInv ==
  /\ TypeOK
  /\ ApprovalsHold
  /\ RefusalsHold
=============================================================================
