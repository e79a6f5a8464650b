--------------------------- MODULE PrecedentsProofs ---------------------------
(***************************************************************************)
(* Proofs about the approval settings and the automatic approvals from     *)
(* past decisions.                                                         *)
(***************************************************************************)
EXTENDS Precedents, TLAPS

-----------------------------------------------------------------------------
(* The settings. *)

(* What SetScalars makes of a file that gives what is in force reads back  *)
(* as what was asked: the values it leaves alone were already asked for.   *)
LEMMA EditGivesWhatIsAsked ==
  ASSUME Memory, NEW f \in File, NEW next \in Settings, settings \in Settings,
         GivesWhatIsInForce(f)
  PROVE  /\ SetScalars(f, settings, next) \in File
         /\ SetScalars(f, settings, next).loads
         /\ SetScalars(f, settings, next).set = next
<1> DEFINE new == [key \in DOMAIN settings |-> IF next[key] # settings[key] THEN next[key] ELSE f.set[key]]
<1>1. f.loads /\ f.set \in Settings /\ f.set = settings
  BY DEF GivesWhatIsInForce, AtStart, File, Settings
<1>2. new = next
  BY <1>1 DEF Settings
<1>3. SetScalars(f, settings, next) = [f EXCEPT !.set = new]
  BY <1>1 DEF SetScalars, File
<1> QED
  BY <1>1, <1>2, <1>3 DEF File

(* With a memory, what a start puts in force is what the file says.        *)
LEMMA StartGivesTheFile ==
  ASSUME Memory, NEW f \in File
  PROVE  AtStart(f) = f.set
BY DEF AtStart, File, Settings

LEMMA SettingsInitially == ASSUME SettingsInit PROVE SettingsIInv
<1>1. file \in File /\ file.loads
  BY SettingsConstants DEF SettingsInit, File
<1>2. settings \in Settings
  BY <1>1, SettingsConstants DEF SettingsInit, AtStart, File, Settings
<1>3. puts \in 0 .. MaxPuts /\ byHand \in 0 .. MaxByHand
  BY SettingsConstants DEF SettingsInit
<1> QED
  BY <1>1, <1>2, <1>3 DEF SettingsInit, SettingsTypeOK, SettingsIInv, SettingsSurviveRestart, PutHolds

(* The settings' invariant, step by step. *)
LEMMA SettingsStep ==
  ASSUME Memory, SettingsIInv, [SettingsNext]_settingsVars
  PROVE  SettingsIInv'
<1> USE SettingsConstants
<1>0. puts' \in 0 .. MaxPuts /\ byHand' \in 0 .. MaxByHand
  BY DEF SettingsNext, PutRead, PutWrite, PutCheck, HandEdit, settingsVars, filed, SettingsTypeOK, SettingsIInv
<1>1. CASE PutRead
  <2>1. PICK next \in Choices :
           put' = [at |-> "write", next |-> next, src |-> file, out |-> SetScalars(file, settings, next)]
    BY <1>1 DEF PutRead
  <2>2. next \in Settings
    OBVIOUS
  <2>3. put = NoPut /\ UNCHANGED <<settings, file, own>>
    BY <1>1 DEF PutRead
  <2>4. put' # NoPut
    BY <2>1 DEF NoPut
  <2>5. SetScalars(file, settings, next) \in File
    <3> DEFINE new == [key \in DOMAIN settings |-> IF next[key] # settings[key] THEN next[key] ELSE file.set[key]]
    <3>1. new \in Settings
      BY <2>2 DEF SettingsTypeOK, SettingsIInv, Settings, File
    <3>2. SetScalars(file, settings, next) = [file EXCEPT !.set = new]
      BY DEF SetScalars, SettingsTypeOK, SettingsIInv, File
    <3> QED
      BY <3>1, <3>2 DEF SettingsTypeOK, SettingsIInv, File
  <2>6. put' \in Put
    BY <2>1, <2>2, <2>5 DEF Put, SettingsTypeOK, SettingsIInv
  <2>7. PutHolds'
    BY <2>1, <2>2, <2>3, <2>4, EditGivesWhatIsAsked
    DEF PutHolds, SettingsTypeOK, SettingsIInv, SettingsSurviveRestart, GivesWhatIsInForce, AtStart
  <2> QED
    BY <1>0, <2>1, <2>3, <2>4, <2>6, <2>7 DEF SettingsTypeOK, SettingsIInv, SettingsSurviveRestart
<1>2. CASE PutWrite
  <2>1. CASE put' = NoPut /\ UNCHANGED file
    BY <1>2, <2>1 DEF PutWrite, SettingsTypeOK, SettingsIInv, SettingsSurviveRestart, PutHolds, GivesWhatIsInForce, AtStart, NoPut
  <2>2. CASE file' = put.out /\ put' = [put EXCEPT !.at = "check"]
    <3>1. put \in Put /\ put # NoPut
      BY <1>2 DEF PutWrite, SettingsTypeOK, SettingsIInv, NoPut
    <3>2. put' \in Put /\ put' # NoPut /\ file' \in File
      BY <2>2, <3>1 DEF Put, NoPut
    <3> QED
      BY <1>2, <2>2, <3>1, <3>2 DEF PutWrite, SettingsTypeOK, SettingsIInv, SettingsSurviveRestart, PutHolds, GivesWhatIsInForce, AtStart, Put
  <2> QED
    BY <1>2, <2>1, <2>2 DEF PutWrite
<1>3. CASE PutCheck
  <2>1. put \in Put /\ put # NoPut /\ put' = NoPut
    BY <1>3 DEF PutCheck, SettingsTypeOK, SettingsIInv, NoPut
  <2>2. CASE file.loads /\ file.set = put.next
    <3>1. settings' = put.next /\ own' = TRUE /\ UNCHANGED file
      BY <1>3, <2>2 DEF PutCheck
    <3>2. settings' \in Settings
      BY <2>1, <3>1 DEF Put
    <3> QED
      BY <1>0, <2>1, <2>2, <3>1, <3>2, StartGivesTheFile DEF SettingsTypeOK, SettingsIInv, SettingsSurviveRestart, PutHolds, AtStart
  <2>3. CASE ~(file.loads /\ file.set = put.next)
    <3>1. file' \in {put.src, file} /\ UNCHANGED <<settings, own>>
      BY <1>3, <2>3 DEF PutCheck
    <3>2. ~own
      BY <1>3, <2>1, <2>3 DEF PutCheck, SettingsTypeOK, SettingsIInv, PutHolds
    <3> QED
      BY <1>0, <2>1, <3>1, <3>2 DEF SettingsTypeOK, SettingsIInv, SettingsSurviveRestart, PutHolds, Put
  <2> QED
    BY <2>2, <2>3
<1>4. CASE HandEdit
  <2>1. file' \in File /\ own' = FALSE /\ UNCHANGED <<settings, put>>
    BY <1>4 DEF HandEdit, File
  <2> QED
    BY <1>0, <2>1 DEF SettingsTypeOK, SettingsIInv, SettingsSurviveRestart, PutHolds
<1>5. CASE UNCHANGED settingsVars
  BY <1>5 DEF settingsVars, filed, SettingsTypeOK, SettingsIInv, SettingsSurviveRestart, PutHolds, GivesWhatIsInForce, AtStart
<1> QED
  BY <1>1, <1>2, <1>3, <1>4, <1>5 DEF SettingsNext

(* With a memory, a change that was accepted is what the next start puts   *)
(* in force, and a change of a file nobody else wrote is accepted          *)
(* (handlePutApprovalSettings).  Without one neither holds.                *)
THEOREM SettingsInvariant ==
  ASSUME Memory
  PROVE  SettingsSpec => [](SettingsSurviveRestart /\ ChangesAreAccepted)
<1>1. SettingsIInv => SettingsSurviveRestart /\ ChangesAreAccepted
  BY DEF SettingsTypeOK, SettingsIInv, PutHolds, ChangesAreAccepted, NoPut
<1> QED
  BY <1>1, SettingsInitially, SettingsStep, PTL DEF SettingsSpec

(* The calls leave the settings alone, and what changes them is one of     *)
(* their own steps.                                                        *)
LEMMA CallsLeaveSettings == ASSUME Next PROVE [SettingsNext]_settingsVars
BY DEF Next, Query, Ask, Eligible, CountApprovals, CountRefusals, QueryFails, Verdict, Answer, Expire,
       Settle, Store, Forget, Configure

(* The settings survive a restart whatever calls are served meanwhile.     *)
THEOREM SettingsKept == Spec => []SettingsSurviveRestart
<1>1. Memory
  BY PrecedentConstants
<1>2. Init => SettingsInit
  BY DEF Init
<1>3. [Next]_vars => [SettingsNext]_settingsVars
  BY CallsLeaveSettings DEF vars
<1> QED
  BY <1>1, <1>2, <1>3, SettingsInvariant, PTL DEF Spec, SettingsSpec

-----------------------------------------------------------------------------
(* Bags of facts. *)

Refused(bag, s) == Count(bag, s, "denied", Kind) > 0

LEMMA CopiesAreNat ==
  ASSUME NEW b, IsABag(b), NEW f
  PROVE  Copies(b, f) \in Nat /\ (f \in BagToSet(b) <=> Copies(b, f) > 0)
BY DEF Copies, IsABag, BagToSet

(* Human approvals are counted on one fact.                                *)
LEMMA HumanApprovals ==
  ASSUME NEW b, IsABag(b), NEW s
  PROVE  Count(b, s, "approved", {"human"}) = Copies(b, [of |-> s, status |-> "approved", by |-> "human"])
<1>1. Copies(b, [of |-> s, status |-> "approved", by |-> "human"]) \in Nat
  BY CopiesAreNat
<1> QED
  BY <1>1 DEF Count

(* A count of every kind is not zero as soon as one fact is there.         *)
LEMMA OneRefusal ==
  ASSUME NEW b, IsABag(b), NEW s
  PROVE  /\ Count(b, s, "denied", Kind) \in Nat
         /\ Refused(b, s) <=> \E k \in Kind : [of |-> s, status |-> "denied", by |-> k] \in BagToSet(b)
<1> DEFINE by(k) == Copies(b, [of |-> s, status |-> "denied", by |-> k])
<1>1. \A k \in Kind : by(k) \in Nat /\ (by(k) > 0 <=> [of |-> s, status |-> "denied", by |-> k] \in BagToSet(b))
  BY CopiesAreNat
<1>2. Count(b, s, "denied", Kind) = by("human") + by("supervisor") + by("mem7") + by("system") + by("none")
  BY DEF Count, Kind
<1> HIDE DEF by
<1> QED
  BY <1>1, <1>2 DEF Refused, Kind

(* One fact more, one fact less. *)
OneMoreOf(b, f) == b (+) SetToBag({f})
OneLessOf(b, f) == b (-) SetToBag({f})
OthersOf(b, S) == [g \in BagToSet(b) \ S |-> b[g]]

LEMMA OneMore ==
  ASSUME NEW b, IsABag(b), NEW f, NEW more, more = OneMoreOf(b, f)
  PROVE  /\ IsABag(more) /\ BagToSet(more) = BagToSet(b) \cup {f}
         /\ \A g : Copies(more, g) = IF g = f THEN Copies(b, g) + 1 ELSE Copies(b, g)
<1>1. more = [g \in DOMAIN b \cup {f} |-> (IF g \in DOMAIN b THEN b[g] ELSE 0) + (IF g \in {f} THEN 1 ELSE 0)]
  BY DEF OneMoreOf, (+), SetToBag
<1>2. \A g \in DOMAIN b : b[g] \in Nat /\ b[g] > 0
  BY DEF IsABag
<1>3. DOMAIN more = DOMAIN b \cup {f}
  BY <1>1
<1>4. \A g \in DOMAIN more : more[g] \in Nat /\ more[g] > 0
  BY <1>1, <1>2
<1>5. more = [g \in DOMAIN more |-> more[g]]
  BY <1>1
<1>6. IsABag(more)
  BY <1>4, <1>5 DEF IsABag
<1>7. \A g : Copies(more, g) = IF g = f THEN Copies(b, g) + 1 ELSE Copies(b, g)
  <2>1. ASSUME NEW g \in DOMAIN b
        PROVE  Copies(more, g) = IF g = f THEN Copies(b, g) + 1 ELSE Copies(b, g)
    BY <1>1, <1>2, <1>3 DEF Copies, BagToSet
  <2>2. ASSUME NEW g, g \notin DOMAIN b
        PROVE  Copies(more, g) = IF g = f THEN Copies(b, g) + 1 ELSE Copies(b, g)
    BY <1>1, <1>3, <2>2 DEF Copies, BagToSet
  <2> QED
    BY <2>1, <2>2
<1> QED
  BY <1>3, <1>6, <1>7 DEF BagToSet

LEMMA OneLess ==
  ASSUME NEW b, IsABag(b), NEW f \in BagToSet(b), NEW less, less = OneLessOf(b, f)
  PROVE  /\ IsABag(less) /\ BagToSet(less) \subseteq BagToSet(b)
         /\ \A g : Copies(less, g) = IF g = f THEN Copies(b, g) - 1 ELSE Copies(b, g)
<1> DEFINE left == [g \in DOMAIN b |-> IF g \in {f} THEN b[g] - 1 ELSE b[g]]
<1>1. less = [g \in {d \in DOMAIN left : left[d] > 0} |-> left[g]]
  BY DEF OneLessOf, (-), SetToBag
<1>2. \A g \in DOMAIN b : b[g] \in Nat /\ b[g] > 0 /\ left[g] \in Nat
  BY DEF IsABag
<1>3. DOMAIN left = DOMAIN b /\ \A g \in DOMAIN b : left[g] = IF g = f THEN b[g] - 1 ELSE b[g]
  OBVIOUS
<1> HIDE DEF left
<1>4. DOMAIN less = {d \in DOMAIN b : left[d] > 0} /\ \A g \in DOMAIN less : less[g] = left[g]
  BY <1>1, <1>3
<1>5. less = [g \in DOMAIN less |-> less[g]]
  BY <1>1
<1>6. IsABag(less)
  BY <1>2, <1>3, <1>4, <1>5 DEF IsABag
<1>7. \A g : Copies(less, g) = IF g = f THEN Copies(b, g) - 1 ELSE Copies(b, g)
  BY <1>2, <1>3, <1>4 DEF Copies, BagToSet
<1> QED
  BY <1>4, <1>6, <1>7 DEF BagToSet

(* The facts of a bag outside a set of them. *)
LEMMA Rest ==
  ASSUME NEW b, IsABag(b), NEW S, NEW rest, rest = OthersOf(b, S)
  PROVE  /\ IsABag(rest) /\ BagToSet(rest) = BagToSet(b) \ S
         /\ \A g : Copies(rest, g) = IF g \in S THEN 0 ELSE Copies(b, g)
BY DEF OthersOf, IsABag, BagToSet, Copies

-----------------------------------------------------------------------------
(* The automatic approvals. *)

HumanFact(s) == [of |-> s, status |-> "approved", by |-> "human"]

(* What is counted of a bag of facts. *)
LEMMA WhatIsCounted ==
  ASSUME TypeOK
  PROVE  \A s : /\ Approvals(s) = Copies(mem7, HumanFact(s)) /\ Approvals(s) \in Nat
                /\ Count(writing, s, "approved", {"human"}) = Copies(writing, HumanFact(s))
                /\ Copies(writing, HumanFact(s)) \in Nat
BY HumanApprovals, CopiesAreNat DEF TypeOK, Approvals, HumanFact

LEMMA PrecedentsInitially == ASSUME Init PROVE PrecedentsIInv
<1> USE PrecedentConstants
<1>1. IsABag(mem7) /\ BagToSet(mem7) \subseteq Fact
  BY DEF Init
<1>2. IsABag(writing) /\ BagToSet(writing) \subseteq Fact
  BY DEF Init, EmptyBag, SetToBag, IsABag, BagToSet
<1>3. \A s : Approvals(s) \in Nat
  BY <1>1, HumanApprovals, CopiesAreNat DEF Approvals
<1>4. SettingsTypeOK
  BY SettingsInitially DEF Init, SettingsIInv
<1>5. TypeOK
  BY <1>1, <1>2, <1>3, <1>4 DEF Init, TypeOK
<1>6. ApprovalsHold
  <2>1. ASSUME NEW s \in Subject
        PROVE  Approvals(s) + Count(writing, s, "approved", {"human"}) <= given[s]
    <3>1. Count(writing, s, "approved", {"human"}) = Copies(writing, HumanFact(s))
      BY <1>2, HumanApprovals DEF HumanFact
    <3>2. Copies(writing, HumanFact(s)) = 0
      BY DEF Init, EmptyBag, SetToBag, Copies, BagToSet
    <3> QED
      BY <1>3, <3>1, <3>2 DEF Init
  <2> QED
    BY <2>1 DEF Init, ApprovalsHold
<1>7. RefusalsHold
  BY DEF Init, RefusalsHold
<1> QED
  BY <1>5, <1>6, <1>7 DEF PrecedentsIInv

(* A decision is written down: one fact more is on its way.                *)
LEMMA DecisionIsWritten ==
  ASSUME IsABag(writing), BagToSet(writing) \subseteq Fact,
         NEW s \in Subject, NEW status \in {"approved", "denied", "timeout"}, NEW who,
         WriteDecision(s, status, who)
  PROVE  /\ IsABag(writing') /\ BagToSet(writing') \subseteq Fact
         /\ \A t : Copies(writing', HumanFact(t)) =
              IF t = s /\ status = "approved" /\ ResolverKind(who) = "human"
                THEN Copies(writing, HumanFact(t)) + 1 ELSE Copies(writing, HumanFact(t))
<1>1. ResolverKind(who) \in Kind
  BY DEF ResolverKind, Kind
<1>2. PICK f \in Fact : f = [of |-> s, status |-> status, by |-> ResolverKind(who)]
  BY <1>1 DEF Fact
<1>3. writing' = OneMoreOf(writing, f)
  BY <1>2 DEF WriteDecision, OneMoreOf
<1>4. \A t : HumanFact(t) = f <=> t = s /\ status = "approved" /\ ResolverKind(who) = "human"
  BY <1>2 DEF HumanFact
<1>5. /\ IsABag(writing') /\ BagToSet(writing') = BagToSet(writing) \cup {f}
      /\ \A g : Copies(writing', g) = IF g = f THEN Copies(writing, g) + 1 ELSE Copies(writing, g)
  BY <1>3, OneMore
<1> QED
  BY <1>4, <1>5

(* A call that goes to people, or ends, has no numbers.                    *)
LEMMA EscalatedIsNoQuery ==
  ASSUME NEW cl \in Call
  PROVE  /\ Escalated(cl) \in Call \cup {Idle}
         /\ Escalated(cl).at \notin Querying
         /\ Escalated(cl) # Idle => Escalated(cl).of = cl.of /\ Escalated(cl).approved = 0
BY DEF Escalated, Call, Idle, Querying

(* One call moves on, and nothing it has read of mem7 changes under it.    *)
LEMMA OneCallMoves ==
  ASSUME PrecedentsIInv, NEW c \in Caller, NEW cl \in Call \cup {Idle},
         call' = [call EXCEPT ![c] = cl], UNCHANGED <<mem7, fresh, barred>>,
         given' \in [Subject -> Nat], \A s \in Subject : given[s] <= given'[s],
         cl # Idle => /\ call[c] # Idle /\ cl.of = call[c].of
                      /\ cl.approved = call[c].approved \/ (PeopleAnswerAsUser => cl.approved <= given[cl.of]),
         barred[c] = "written" /\ cl.at \in Querying =>
           IF cl.at = "verdict" THEN cl.refused > 0 ELSE Refusals(cl.of) > 0
  PROVE  /\ call' \in [Caller -> Call \cup {Idle}]
         /\ PeopleAnswerAsUser => \A d \in fresh' : call'[d] # Idle => call'[d].approved <= given'[call'[d].of]
         /\ RefusalsHold'
<1>1. call \in [Caller -> Call \cup {Idle}] /\ given \in [Subject -> Nat] /\ fresh \subseteq Caller
  BY DEF PrecedentsIInv, TypeOK
<1>2. call' \in [Caller -> Call \cup {Idle}]
  BY <1>1
<1>3. ASSUME PeopleAnswerAsUser, NEW d \in fresh', call'[d] # Idle
      PROVE  call'[d].approved <= given'[call'[d].of]
  <2>1. call'[d] \in Call /\ call'[d].of \in Subject /\ call'[d].approved \in Nat
    BY <1>1, <1>2, <1>3 DEF Call
  <2>2. call'[d].approved <= given[call'[d].of]
    BY <1>1, <1>3 DEF PrecedentsIInv, ApprovalsHold
  <2> QED
    BY <1>1, <2>1, <2>2
<1>4. \A s : Refusals(s)' = Refusals(s)
  BY DEF Refusals, Count, Copies
<1>5. RefusalsHold'
  BY <1>1, <1>4 DEF PrecedentsIInv, RefusalsHold
<1> QED
  BY <1>2, <1>3, <1>5

(* The bags hold facts, and no more human approvals than were given, of    *)
(* the subjects whose approvals are people's.                              *)
Trusted == IF PeopleAnswerAsUser THEN Subject ELSE {}

BagsHold ==
  /\ \A b \in {mem7, writing} : IsABag(b) /\ BagToSet(b) \subseteq Fact
  /\ given \in [Subject -> Nat]
  /\ \A s \in Trusted : Copies(mem7, HumanFact(s)) + Copies(writing, HumanFact(s)) <= given[s]

LEMMA BagsAlwaysHold == ASSUME PrecedentsIInv PROVE BagsHold
BY WhatIsCounted DEF PrecedentsIInv, TypeOK, ApprovalsHold, BagsHold, Trusted

(* They do not depend on anything else. *)
LEMMA BagsDependOnThemselves ==
  ASSUME BagsHold, UNCHANGED <<mem7, writing, given>>
  PROVE  BagsHold'
BY DEF BagsHold

(* A step keeps them: what is written down as approved by a person was     *)
(* given, and what arrives was on its way.                                 *)
LEMMA BagsStep ==
  ASSUME PrecedentsIInv, Next
  PROVE  BagsHold'
<1>0. /\ IsABag(mem7) /\ BagToSet(mem7) \subseteq Fact
      /\ IsABag(writing) /\ BagToSet(writing) \subseteq Fact
      /\ given \in [Subject -> Nat] /\ call \in [Caller -> Call \cup {Idle}]
  BY DEF PrecedentsIInv, TypeOK
<1>n. \A s \in Subject : Copies(mem7, HumanFact(s)) \in Nat /\ Copies(writing, HumanFact(s)) \in Nat
  BY WhatIsCounted DEF PrecedentsIInv
<1>o. \A s \in Trusted : /\ s \in Subject
                          /\ Copies(mem7, HumanFact(s)) + Copies(writing, HumanFact(s)) <= given[s]
  BY BagsAlwaysHold DEF BagsHold, Trusted
<1>1. CASE UNCHANGED <<mem7, writing, given>>
  BY <1>1, BagsAlwaysHold, BagsDependOnThemselves
<1>2. ASSUME NEW c \in Caller, Verdict(c), writing' # writing
      PROVE  BagsHold'
  <2>1. WriteDecision(call[c].of, "approved", "supervisor:mem7") /\ UNCHANGED <<mem7, given>>
    BY <1>2 DEF Verdict, ghosts
  <2>2. call[c].of \in Subject
    BY <1>0, <1>2 DEF Verdict, Call, Idle
  <2>3. ResolverKind("supervisor:mem7") # "human"
    BY DEF ResolverKind
  <2>4. /\ IsABag(writing') /\ BagToSet(writing') \subseteq Fact
        /\ \A s : Copies(writing', HumanFact(s)) = Copies(writing, HumanFact(s))
    BY <1>0, <2>1, <2>2, <2>3, DecisionIsWritten
  <2> QED
    BY <1>0, <1>n, <1>o, <2>1, <2>4 DEF BagsHold
<1>3. ASSUME NEW c \in Caller, NEW status \in {"approved", "denied", "timeout"}, NEW who,
             Trusted # {} /\ ResolverKind(who) = "human" => who = "user", Settle(c, status, who)
      PROVE  BagsHold'
  <2>1. PICK s \in Subject : s = call[c].of
    BY <1>0, <1>3 DEF Settle, Call, Idle
  <2>2. /\ WriteDecision(s, status, who) /\ UNCHANGED mem7
        /\ given' = IF status = "approved" /\ who = "user" THEN [given EXCEPT ![s] = @ + 1] ELSE given
    BY <1>3, <2>1 DEF Settle
  <2>3. /\ IsABag(writing') /\ BagToSet(writing') \subseteq Fact
        /\ \A t : Copies(writing', HumanFact(t)) =
              IF t = s /\ status = "approved" /\ ResolverKind(who) = "human"
                THEN Copies(writing, HumanFact(t)) + 1 ELSE Copies(writing, HumanFact(t))
    BY <1>0, <2>2, DecisionIsWritten
  <2>4. CASE status = "approved" /\ ResolverKind(who) = "human"
    BY <1>0, <1>n, <1>o, <1>3, <2>2, <2>3, <2>4 DEF BagsHold
  <2>5. CASE ~(status = "approved" /\ ResolverKind(who) = "human")
    <3>1. given' \in [Subject -> Nat] /\ \A t \in Subject : given[t] <= given'[t]
      BY <1>0, <2>2
    <3>2. \A t : Copies(writing', HumanFact(t)) = Copies(writing, HumanFact(t))
      BY <2>3, <2>5
    <3> QED
      BY <1>0, <1>n, <1>o, <2>2, <2>3, <3>1, <3>2 DEF BagsHold
  <2> QED
    BY <2>4, <2>5
<1>4. ASSUME NEW f \in BagToSet(writing), Store(f)
      PROVE  BagsHold'
  <2>1. writing' = OneLessOf(writing, f) /\ mem7' \in {mem7, OneMoreOf(mem7, f)} /\ UNCHANGED given
    BY <1>4 DEF Store, OneLessOf, OneMoreOf, ghosts
  <2>2. /\ IsABag(writing') /\ BagToSet(writing') \subseteq BagToSet(writing)
        /\ \A g : Copies(writing', g) = IF g = f THEN Copies(writing, g) - 1 ELSE Copies(writing, g)
    BY <1>0, <2>1, OneLess
  <2>3. /\ IsABag(mem7') /\ BagToSet(mem7') \subseteq Fact
        /\ \A g : Copies(mem7', g) \in {Copies(mem7, g), IF g = f THEN Copies(mem7, g) + 1 ELSE Copies(mem7, g)}
    <3>1. CASE mem7' = mem7
      BY <1>0, <3>1
    <3>2. CASE mem7' = OneMoreOf(mem7, f)
      <4>1. /\ IsABag(mem7') /\ BagToSet(mem7') = BagToSet(mem7) \cup {f}
            /\ \A g : Copies(mem7', g) = IF g = f THEN Copies(mem7, g) + 1 ELSE Copies(mem7, g)
        BY <1>0, <3>2, OneMore
      <4> QED
        BY <1>0, <4>1
    <3> QED
      BY <2>1, <3>1, <3>2
  <2>4. \A s \in Trusted : Copies(mem7', HumanFact(s)) + Copies(writing', HumanFact(s)) <= given'[s]
    <3> SUFFICES ASSUME NEW s \in Trusted
                 PROVE  Copies(mem7', HumanFact(s)) + Copies(writing', HumanFact(s)) <= given[s]
      BY <2>1
    <3>1. CASE HumanFact(s) = f
      BY <1>0, <1>n, <1>o, <2>2, <2>3, <3>1
    <3>2. CASE HumanFact(s) # f
      BY <1>0, <1>n, <1>o, <2>2, <2>3, <3>2
    <3> QED
      BY <3>1, <3>2
  <2> QED
    BY <1>0, <2>1, <2>2, <2>3, <2>4 DEF BagsHold
<1>5. ASSUME NEW s \in Subject, Forget(s)
      PROVE  BagsHold'
  <2> DEFINE of == {f \in BagToSet(mem7) : f.of = s}
  <2>1. /\ mem7' = OthersOf(mem7, of) /\ UNCHANGED writing
        /\ given' = [given EXCEPT ![s] = Count(writing, s, "approved", {"human"})]
    BY <1>5 DEF Forget, OthersOf
  <2>2. \A t : HumanFact(t) \in of => t = s
    BY DEF HumanFact
  <2>3. Copies(mem7, HumanFact(s)) > 0 => HumanFact(s) \in of
    BY DEF Copies, HumanFact
  <2> HIDE DEF of
  <2>4. /\ IsABag(mem7') /\ BagToSet(mem7') = BagToSet(mem7) \ of
        /\ \A g : Copies(mem7', g) = IF g \in of THEN 0 ELSE Copies(mem7, g)
    BY <1>0, <2>1, Rest
  <2>5. Count(writing, s, "approved", {"human"}) = Copies(writing, HumanFact(s))
    BY WhatIsCounted DEF PrecedentsIInv
  <2>6. given' \in [Subject -> Nat] /\ given'[s] = Copies(writing, HumanFact(s)) /\ \A t \in Subject \ {s} : given'[t] = given[t]
    BY <1>0, <1>n, <1>o, <2>1, <2>5
  <2>7. Copies(mem7', HumanFact(s)) = 0
    BY <1>n, <1>o, <2>3, <2>4
  <2>8. \A t \in Subject \ {s} : Copies(mem7', HumanFact(t)) = Copies(mem7, HumanFact(t))
    BY <2>2, <2>4
  <2> QED
    BY <1>0, <1>n, <1>o, <2>1, <2>4, <2>6, <2>7, <2>8 DEF BagsHold
<1> QED
  <2>1. ASSUME NEW c \in Caller, NEW s \in Subject, NEW submits \in BOOLEAN, Ask(c, s, submits)
        PROVE  UNCHANGED <<mem7, writing, given>>
    BY <2>1 DEF Ask
  <2>2. ASSUME NEW c \in Caller, Query(c)
        PROVE  UNCHANGED <<mem7, writing, given>> \/ (Verdict(c) /\ writing' # writing)
    BY <2>2 DEF Query, Eligible, CountApprovals, CountRefusals, QueryFails, Verdict, ghosts
  <2>3. ASSUME NEW c \in Caller, Answer(c) \/ Expire(c)
        PROVE  \E who : \E status \in {"approved", "denied", "timeout"} :
                 (Trusted # {} /\ ResolverKind(who) = "human" => who = "user") /\ Settle(c, status, who)
    <3>1. CASE Answer(c)
      BY <3>1 DEF Answer, PeopleAnswerAsUser, Trusted
    <3>2. CASE Expire(c)
      BY <3>2 DEF Expire, ResolverKind
    <3> QED
      BY <2>3, <3>1, <3>2
  <2>4. Configure => UNCHANGED <<mem7, writing, given>>
    BY DEF Configure, ghosts
  <2>5. CASE \E c \in Caller : (\E s \in Subject, submits \in BOOLEAN : Ask(c, s, submits)) \/ Query(c)
    BY <1>1, <1>2, <2>1, <2>2, <2>5
  <2>6. CASE \E c \in Caller : Answer(c) \/ Expire(c)
    BY <1>3, <2>3, <2>6
  <2>7. CASE \E f \in BagToSet(writing) : Store(f)
    BY <1>4, <2>7
  <2>8. CASE \E s \in Subject : Forget(s)
    BY <1>5, <2>8
  <2>9. CASE Configure
    BY <1>1, <2>4, <2>9
  <2> QED
    BY <2>5, <2>6, <2>7, <2>8, <2>9 DEF Next

(* A query on its way: eligible, then each of its answers.                 *)
Allowed(cl) == [cl EXCEPT !.at = "approvals"]
Counted(cl, n) == [cl EXCEPT !.approved = n, !.at = "refusals"]
Answered(cl, n) == [cl EXCEPT !.refused = n, !.at = "verdict"]

LEMMA FieldsChange ==
  ASSUME NEW cl \in Call, NEW n \in Nat
  PROVE  /\ Allowed(cl) \in Call /\ Allowed(cl).of = cl.of /\ Allowed(cl).approved = cl.approved
         /\ Allowed(cl).at = "approvals"
         /\ Counted(cl, n) \in Call /\ Counted(cl, n).of = cl.of /\ Counted(cl, n).approved = n
         /\ Counted(cl, n).at = "refusals"
         /\ Answered(cl, n) \in Call /\ Answered(cl, n).of = cl.of /\ Answered(cl, n).approved = cl.approved
         /\ Answered(cl, n).refused = n /\ Answered(cl, n).at = "verdict"
<1>1. {"approvals", "refusals", "verdict"} \subseteq Querying \cup {"waiting"}
  BY DEF Querying
<1> QED
  BY <1>1 DEF Call, Allowed, Counted, Answered

(* What the calls have read of mem7, and what barred them.                 *)
CallsHold ==
  /\ call \in [Caller -> Call \cup {Idle}] /\ fresh \subseteq Caller
  /\ barred \in [Caller -> {"no", "given", "written"}]
  /\ PeopleAnswerAsUser => \A c \in fresh : call[c] # Idle => call[c].approved <= given[call[c].of]
  /\ RefusalsHold

(* A step keeps it: a query answers from mem7 as it is, and what it had    *)
(* read stays true unless its subject is forgotten.                        *)
LEMMA CallsStep ==
  ASSUME PrecedentsIInv, Next, given' \in [Subject -> Nat]
  PROVE  CallsHold'
<1>0. /\ IsABag(mem7) /\ IsABag(writing) /\ given \in [Subject -> Nat]
      /\ call \in [Caller -> Call \cup {Idle}] /\ fresh \subseteq Caller
      /\ barred \in [Caller -> {"no", "given", "written"}]
      /\ RefusalsHold
      /\ PeopleAnswerAsUser => \A c \in fresh : call[c] # Idle => call[c].approved <= given[call[c].of]
      /\ Idle \notin Call /\ Idle.at \notin Querying
  BY DEF PrecedentsIInv, TypeOK, ApprovalsHold, Call, Idle, Querying
<1>m. ASSUME NEW c \in Caller, NEW cl \in Call \cup {Idle},
             call' = [call EXCEPT ![c] = cl], UNCHANGED <<mem7, fresh, barred>>,
             \A s \in Subject : given[s] <= given'[s],
             cl # Idle => /\ call[c] # Idle /\ cl.of = call[c].of
                          /\ cl.approved = call[c].approved \/ (PeopleAnswerAsUser => cl.approved <= given[cl.of]),
             barred[c] = "written" /\ cl.at \in Querying =>
               IF cl.at = "verdict" THEN cl.refused > 0 ELSE Refusals(cl.of) > 0
      PROVE  CallsHold'
  BY <1>0, <1>m, OneCallMoves DEF CallsHold
<1>1. ASSUME NEW c \in Caller, NEW s \in Subject, NEW submits \in BOOLEAN, Ask(c, s, submits)
      PROVE  CallsHold'
  <2>1. PICK cl : cl = [at |-> "allowed", of |-> s, submits |-> submits, approved |-> 0, refused |-> 0]
    OBVIOUS
  <2>2. /\ call' = [call EXCEPT ![c] = IF settings.auto THEN cl ELSE Escalated(cl)]
        /\ fresh' = fresh \cup {c}
        /\ barred' = [barred EXCEPT ![c] = IF Count(mem7, s, "denied", Kind) > 0 THEN "written"
             ELSE IF Count(writing, s, "denied", Kind) > 0 THEN "given" ELSE "no"]
        /\ UNCHANGED <<mem7, given>>
    BY <1>1, <2>1 DEF Ask
  <2>3. cl \in Call /\ cl.of = s /\ cl.approved = 0 /\ cl.at = "allowed"
    BY <2>1 DEF Call, Querying
  <2>4. PICK new \in Call \cup {Idle} :
          /\ call' = [call EXCEPT ![c] = new]
          /\ new # Idle => new.of = s /\ new.approved = 0
          /\ new.at \in Querying => new.at = "allowed" /\ new.of = s
    BY <2>2, <2>3, EscalatedIsNoQuery
  <2>5. call' \in [Caller -> Call \cup {Idle}] /\ fresh' \subseteq Caller
    BY <1>0, <2>2, <2>4
  <2>6. barred' \in [Caller -> {"no", "given", "written"}]
    BY <1>0, <2>2
  <2>7. PeopleAnswerAsUser => \A d \in fresh' : call'[d] # Idle => call'[d].approved <= given'[call'[d].of]
    BY <1>0, <2>2, <2>4
  <2>8. \A t : Refusals(t)' = Refusals(t)
    BY <2>2 DEF Refusals, Count, Copies
  <2>9. RefusalsHold'
    <3> SUFFICES ASSUME NEW d \in Caller, barred'[d] = "written", call'[d].at \in Querying
                 PROVE  IF call'[d].at = "verdict" THEN call'[d].refused > 0 ELSE Refusals(call'[d].of) > 0
      BY <2>8 DEF RefusalsHold
    <3>1. CASE d = c
      <4>1. Count(mem7, s, "denied", Kind) > 0
        BY <1>0, <2>2, <3>1
      <4>2. call'[d].at = "allowed" /\ call'[d].of = s
        BY <1>0, <2>4, <3>1
      <4> QED
        BY <4>1, <4>2 DEF Refusals
    <3>2. CASE d # c
      BY <1>0, <2>2, <2>4, <3>2 DEF RefusalsHold
    <3> QED
      BY <3>1, <3>2
  <2> QED
    BY <2>5, <2>6, <2>7, <2>9 DEF CallsHold
<1>2. ASSUME NEW c \in Caller, Query(c)
      PROVE  CallsHold'
  <2>0. PICK cl \in Call : cl = call[c]
    BY <1>0, <1>2 DEF Query, Eligible, CountApprovals, CountRefusals, QueryFails, Verdict, Idle, Call
  <2>1. UNCHANGED <<mem7, given, fresh, barred>> /\ \A s \in Subject : given[s] <= given'[s]
    BY <1>0, <1>2 DEF Query, Eligible, CountApprovals, CountRefusals, QueryFails, Verdict, ghosts
  <2>2. CASE call' = [call EXCEPT ![c] = Escalated(cl)]
    <3>1. cl.of \in Subject
      BY DEF Call
    <3>2. PICK new : new = Escalated(cl)
      OBVIOUS
    <3>3. new \in Call \cup {Idle} /\ new.at \notin Querying
      BY <3>2, EscalatedIsNoQuery
    <3>4. new # Idle => new.of = cl.of /\ new.approved = 0
      BY <3>2, EscalatedIsNoQuery
    <3>5. new # Idle => new.approved <= given[new.of]
      BY <1>0, <3>1, <3>4
    <3>6. call' = [call EXCEPT ![c] = new]
      BY <2>2, <3>2
    <3>7. call[c] # Idle
      BY <1>0, <2>0
    <3> QED
      BY <1>m, <2>0, <2>1, <3>3, <3>4, <3>5, <3>6, <3>7
  <2>3. CASE call' = [call EXCEPT ![c] = Idle]
    BY <1>0, <1>m, <2>1, <2>3
  <2>4. CASE cl.at = "allowed" /\ call' = [call EXCEPT ![c] = Allowed(cl)]
    <3>1. PICK new \in Call : /\ call' = [call EXCEPT ![c] = new]
                              /\ new.of = cl.of /\ new.approved = cl.approved /\ new.at = "approvals"
      BY <2>4, FieldsChange
    <3>2. barred[c] = "written" => Refusals(new.of) > 0
      BY <1>0, <2>0, <2>4, <3>1 DEF RefusalsHold, Querying
    <3> QED
      BY <1>0, <1>m, <2>0, <2>1, <3>1, <3>2
  <2>5. CASE CountApprovals(c)
    <3>0. cl.of \in Subject /\ cl.at = "approvals" /\ Approvals(cl.of) \in Nat
      BY <2>0, <2>5, WhatIsCounted DEF CountApprovals, Call, PrecedentsIInv
    <3>1. call' = [call EXCEPT ![c] = Counted(cl, Approvals(cl.of))]
      BY <1>0, <2>0, <2>5 DEF CountApprovals, Call, Counted
    <3>2. PICK new \in Call : /\ call' = [call EXCEPT ![c] = new]
                              /\ new.of = cl.of /\ new.approved = Approvals(cl.of) /\ new.at = "refusals"
      BY <3>0, <3>1, FieldsChange
    <3>3. PeopleAnswerAsUser => new.approved <= given[new.of]
      BY <1>0, <3>0, <3>2, WhatIsCounted DEF PrecedentsIInv, ApprovalsHold
    <3>4. barred[c] = "written" => Refusals(new.of) > 0
      BY <1>0, <2>0, <3>0, <3>2 DEF RefusalsHold, Querying
    <3> QED
      BY <1>0, <1>m, <2>0, <2>1, <3>2, <3>3, <3>4
  <2>6. CASE CountRefusals(c)
    <3>0. cl.of \in Subject /\ cl.at = "refusals" /\ Refusals(cl.of) \in Nat
      BY <1>0, <2>0, <2>6, OneRefusal DEF CountRefusals, Call, Refusals
    <3>1. call' = [call EXCEPT ![c] = Answered(cl, Refusals(cl.of))]
      BY <1>0, <2>0, <2>6 DEF CountRefusals, Call, Answered
    <3>2. PICK new \in Call : /\ call' = [call EXCEPT ![c] = new]
                              /\ new.of = cl.of /\ new.approved = cl.approved
                              /\ new.refused = Refusals(cl.of) /\ new.at = "verdict"
      BY <3>0, <3>1, FieldsChange
    <3>3. barred[c] = "written" => Refusals(cl.of) > 0
      BY <1>0, <2>0, <3>0 DEF RefusalsHold, Querying
    <3> QED
      BY <1>0, <1>m, <2>0, <2>1, <3>2, <3>3
  <2> QED
    BY <1>2, <2>0, <2>2, <2>3, <2>4, <2>5, <2>6 DEF Query, Eligible, QueryFails, Verdict, Allowed
<1>3. ASSUME NEW c \in Caller, Answer(c) \/ Expire(c)
      PROVE  CallsHold'
  <2>1. PICK status, who : Settle(c, status, who)
    BY <1>3 DEF Answer, Expire
  <2>2. call' = [call EXCEPT ![c] = Idle] /\ UNCHANGED <<mem7, fresh, barred>>
    BY <2>1 DEF Settle
  <2>3. \A s \in Subject : given[s] <= given'[s]
    BY <1>0, <2>1 DEF Settle
  <2> QED
    BY <1>0, <1>m, <2>2, <2>3
<1>4. ASSUME NEW f \in BagToSet(writing), Store(f)
      PROVE  CallsHold'
  <2>1. mem7' \in {mem7, OneMoreOf(mem7, f)} /\ UNCHANGED <<call, given, fresh, barred>>
    BY <1>4 DEF Store, OneMoreOf, ghosts
  <2>2. IsABag(mem7') /\ BagToSet(mem7) \subseteq BagToSet(mem7')
    BY <1>0, <2>1, OneMore
  <2>3. \A s : Refusals(s) > 0 => Refusals(s)' > 0
    <3>1. ASSUME NEW s
          PROVE  Count(mem7, s, "denied", Kind) > 0 => Count(mem7', s, "denied", Kind) > 0
      BY <1>0, <2>2, OneRefusal DEF Refused
    <3> QED
      BY <3>1 DEF Refusals
  <2>4. RefusalsHold'
    BY <1>0, <2>1, <2>3 DEF RefusalsHold
  <2> QED
    BY <1>0, <2>1, <2>4 DEF CallsHold
<1>5. ASSUME NEW s \in Subject, Forget(s)
      PROVE  CallsHold'
  <2> DEFINE of == {f \in BagToSet(mem7) : f.of = s}
             its == {c \in Caller : call[c] # Idle /\ call[c].of = s}
  <2>1. /\ mem7' = OthersOf(mem7, of) /\ UNCHANGED call
        /\ given' = [given EXCEPT ![s] = Count(writing, s, "approved", {"human"})]
        /\ fresh' = fresh \ its
        /\ barred' = [c \in Caller |-> IF c \in its THEN "no" ELSE barred[c]]
    BY <1>5 DEF Forget, OthersOf
  <2>2. \A t, k : t # s => [of |-> t, status |-> "denied", by |-> k] \notin of
    OBVIOUS
  <2>3. \A c \in Caller : call[c] # Idle => call[c].of \in Subject /\ (c \notin its => call[c].of # s)
    BY <1>0 DEF Call
  <2> HIDE DEF of, its
  <2>4. IsABag(mem7') /\ BagToSet(mem7') = BagToSet(mem7) \ of
    BY <1>0, <2>1, Rest
  <2>5. \A t : t # s /\ Refusals(t) > 0 => Refusals(t)' > 0
    <3>1. ASSUME NEW t, t # s
          PROVE  Count(mem7, t, "denied", Kind) > 0 => Count(mem7', t, "denied", Kind) > 0
      BY <1>0, <2>2, <2>4, <3>1, OneRefusal DEF Refused
    <3> QED
      BY <3>1 DEF Refusals
  <2>6. \A t \in Subject \ {s} : given'[t] = given[t]
    BY <1>0, <2>1
  <2>7. PeopleAnswerAsUser => \A d \in fresh' : call'[d] # Idle => call'[d].approved <= given'[call'[d].of]
    BY <1>0, <2>1, <2>3, <2>6
  <2>8. RefusalsHold'
    BY <1>0, <2>1, <2>3, <2>5 DEF RefusalsHold
  <2> QED
    BY <1>0, <2>1, <2>7, <2>8 DEF CallsHold
<1>6. ASSUME Configure
      PROVE  CallsHold'
  <2>1. UNCHANGED <<mem7, call, given, fresh, barred>>
    BY <1>6 DEF Configure, ghosts
  <2>2. \A s : Refusals(s)' = Refusals(s)
    BY <2>1 DEF Refusals, Count, Copies
  <2> QED
    BY <1>0, <2>1, <2>2 DEF CallsHold, RefusalsHold
<1> QED
  BY <1>1, <1>2, <1>3, <1>4, <1>5, <1>6 DEF Next

(* The invariant, with that of the settings beside it.                     *)
LEMMA PrecedentsStep ==
  ASSUME PrecedentsIInv, SettingsIInv, [Next]_vars
  PROVE  PrecedentsIInv' /\ SettingsIInv'
<1> USE PrecedentConstants
<1>1. CASE Next
  <2>1. SettingsIInv'
    BY <1>1, CallsLeaveSettings, SettingsStep
  <2>2. BagsHold'
    BY <1>1, BagsStep
  <2>3. CallsHold'
    BY <1>1, <2>2, CallsStep DEF BagsHold
  <2>4. asks' \in 0 .. MaxAsks /\ forgets' \in 0 .. MaxForgets
    <3>1. /\ asks' = asks \/ (asks < MaxAsks /\ asks' = asks + 1)
          /\ forgets' = forgets \/ (forgets < MaxForgets /\ forgets' = forgets + 1)
      <4>1. ASSUME NEW c \in Caller, Query(c) \/ Answer(c) \/ Expire(c)
            PROVE  UNCHANGED <<asks, forgets>>
        BY <4>1 DEF Query, Eligible, CountApprovals, CountRefusals, QueryFails, Verdict, Answer, Expire, Settle
      <4> QED
        BY <1>1, <4>1 DEF Next, Ask, Store, Forget, Configure
    <3> QED
      BY <3>1 DEF PrecedentsIInv, TypeOK
  <2>5. TypeOK'
    BY <2>1, <2>2, <2>3, <2>4 DEF TypeOK, SettingsIInv, BagsHold, CallsHold
  <2>6. \A s : /\ Approvals(s)' = Copies(mem7', HumanFact(s))
               /\ Count(writing', s, "approved", {"human"}) = Copies(writing', HumanFact(s))
    BY <2>2, HumanApprovals DEF BagsHold, Approvals, HumanFact
  <2>7. ApprovalsHold'
    BY <2>2, <2>3, <2>6 DEF BagsHold, CallsHold, ApprovalsHold, Trusted
  <2> QED
    BY <2>1, <2>3, <2>5, <2>7 DEF PrecedentsIInv, CallsHold
<1>2. CASE UNCHANGED vars
  <2>1. UNCHANGED <<mem7, writing, settingsVars, call, asks, forgets, given, fresh, barred>>
    BY <1>2 DEF vars, ghosts
  <2>2. SettingsIInv'
    BY <2>1, SettingsStep
  <2>3. \A s : Approvals(s)' = Approvals(s) /\ Refusals(s)' = Refusals(s)
    BY <2>1 DEF Approvals, Refusals, Count, Copies
  <2>4. \A s : Count(writing', s, "approved", {"human"}) = Count(writing, s, "approved", {"human"})
    BY <2>1
  <2> QED
    BY <2>1, <2>2, <2>3, <2>4 DEF PrecedentsIInv, TypeOK, SettingsIInv, ApprovalsHold, RefusalsHold
<1> QED
  BY <1>1, <1>2

(* The bags hold facts, and a call holds what it has read of them: at      *)
(* every moment of every run, whoever answers approvals.                   *)
THEOREM PrecedentsInvariant == Spec => [](PrecedentsIInv /\ SettingsIInv)
<1>1. Init => PrecedentsIInv /\ SettingsIInv
  BY PrecedentsInitially, SettingsInitially DEF Init
<1>2. (PrecedentsIInv /\ SettingsIInv) /\ [Next]_vars => (PrecedentsIInv /\ SettingsIInv)'
  BY PrecedentsStep
<1> QED
  BY <1>1, <1>2, PTL DEF Spec

(* An automatic approval is a verdict without a refusal and with as many   *)
(* approvals as the threshold asks.                                        *)
LEMMA AutomaticApproval ==
  ASSUME PrecedentsIInv, Next, NEW c \in Caller, AutoApproves(c)
  PROVE  call[c] \in Call /\ call[c].refused = 0 /\ call[c].approved >= settings.min
<1>0. call \in [Caller -> Call \cup {Idle}] /\ call[c] # Idle /\ call[c] # call'[c] /\ call[c].at = "verdict"
  BY DEF PrecedentsIInv, TypeOK, AutoApproves, Idle
<1>1. ASSUME NEW d \in Caller, d # c, NEW new, call' = [call EXCEPT ![d] = new]
      PROVE  FALSE
  BY <1>0, <1>1
<1>2. CASE \E d \in Caller : \E s \in Subject, submits \in BOOLEAN : Ask(d, s, submits)
  BY <1>0, <1>1, <1>2 DEF Ask
<1>3. CASE \E d \in Caller : Query(d)
  <2>1. PICK d \in Caller : Query(d)
    BY <1>3
  <2>2. d = c
    BY <1>0, <1>1, <2>1 DEF Query, Eligible, CountApprovals, CountRefusals, QueryFails, Verdict
  <2>3. Verdict(c)
    BY <1>0, <2>1, <2>2 DEF Query, Eligible, CountApprovals, CountRefusals, QueryFails
  <2> QED
    BY <1>0, <2>3 DEF Verdict, AutoApproves
<1>4. CASE \E d \in Caller : Answer(d) \/ Expire(d)
  <2>1. PICK d \in Caller : Answer(d) \/ Expire(d)
    BY <1>4
  <2>2. PICK status, who : Settle(d, status, who)
    BY <2>1 DEF Answer, Expire
  <2> QED
    BY <1>0, <1>1, <2>2 DEF Settle
<1>5. UNCHANGED call => FALSE
  BY <1>0
<1> QED
  BY <1>2, <1>3, <1>4, <1>5 DEF Next, Store, Forget, Configure

(* Where only people are taken for people, automatic approvals rest on as  *)
(* many human approvals as the threshold of that moment asks, given since  *)
(* the couple was last forgotten: automatic ones never feed the next       *)
(* (AutoResolve, resolverKind).  The premise is what approval.resolve      *)
(* breaks.                                                                 *)
THEOREM ApprovalsRestOnPeople == ASSUME PeopleAnswerAsUser PROVE Spec => GroundedInHumans
<1>1. PrecedentsIInv /\ [Next]_vars
        => [\A c \in fresh : AutoApproves(c) => given[call[c].of] >= settings.min]_vars
  <2> SUFFICES ASSUME PrecedentsIInv, Next, NEW c \in fresh, AutoApproves(c)
               PROVE  given[call[c].of] >= settings.min
    OBVIOUS
  <2>1. c \in Caller /\ given \in [Subject -> Nat] /\ settings.min \in Nat
    BY SettingsConstants DEF PrecedentsIInv, TypeOK, SettingsTypeOK, Settings
  <2>2. call[c] \in Call /\ call[c].approved >= settings.min
    BY <2>1, AutomaticApproval
  <2>3. call[c] # Idle /\ call[c].of \in Subject /\ call[c].approved \in Nat
    BY <2>2 DEF Call, Idle
  <2>4. call[c].approved <= given[call[c].of]
    BY <2>3 DEF PrecedentsIInv, ApprovalsHold
  <2> QED
    BY <2>1, <2>2, <2>3, <2>4
<1> QED
  BY <1>1, PrecedentsInvariant, PTL DEF Spec, GroundedInHumans

(* A refusal that mem7 held when a call asked keeps it from automatic      *)
(* approval, whoever gave it and however the settings change, unless it    *)
(* was forgotten meanwhile (AutoResolve).                                  *)
THEOREM RefusalsBlock == Spec => RefusalBlocks
<1>1. PrecedentsIInv /\ [Next]_vars
        => [\A c \in Caller : AutoApproves(c) => barred[c] # "written"]_vars
  <2> SUFFICES ASSUME PrecedentsIInv, Next, NEW c \in Caller, AutoApproves(c), barred[c] = "written"
               PROVE  FALSE
    OBVIOUS
  <2>1. call[c].refused = 0
    BY AutomaticApproval
  <2>2. call[c].at = "verdict"
    BY DEF AutoApproves
  <2> QED
    BY <2>1, <2>2 DEF PrecedentsIInv, RefusalsHold, Querying
<1> QED
  BY <1>1, PrecedentsInvariant, PTL DEF Spec, RefusalBlocks
=============================================================================
