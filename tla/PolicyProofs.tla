----------------------------- MODULE PolicyProofs -----------------------------
(***************************************************************************)
(* What the policies, the floors and what is told of a tool have to do     *)
(* with each other, and what an edit from the console does, for any files, *)
(* rules, edits and reloads.                                               *)
(***************************************************************************)
EXTENDS PolicyFiles, FiniteSetTheorems, SequenceTheorems, WellFoundedInduction, TLAPS

-----------------------------------------------------------------------------
(* The floors *)

DecisionSet(rules) == [action : Actions, rule : rules]

(* Severities are numbers, and these are compared as numbers are. *)
LEMMA Severities == \A a \in Actions : Severity(a) \in Int
BY DEF Actions, Severity

LEMMA Compared == \A m, n \in Int : m >= m /\ (n <= m \/ n >= m)
OBVIOUS

(* Tightening never makes a decision freer. *)
LEMMA TightenedIsStricter ==
  ASSUME NEW rules, NEW d \in DecisionSet(rules), NEW floor \in Actions \cup {""}
  PROVE  Severity(Tighten(d, floor).action) >= Severity(d.action)
<1>1. d.action \in Actions  BY DEF DecisionSet
<1>2. Severity(d.action) \in Int  BY <1>1, Severities
<1>3. CASE floor = "" \/ Severity(floor) <= Severity(d.action)
  <2>1. Tighten(d, floor) = d  BY <1>3 DEF Tighten
  <2>. QED  BY <1>2, <2>1, Compared, Zenon
<1>4. CASE floor # "" /\ ~(Severity(floor) <= Severity(d.action))
  <2>1. Tighten(d, floor).action = floor  BY <1>4 DEF Tighten
  <2>2. Severity(floor) \in Int  BY <1>4, Severities
  <2>3. Severity(floor) >= Severity(d.action)  BY <1>2, <1>4, <2>2, Compared, Zenon
  <2>. QED  BY <2>1, <2>3, Zenon
<1>. QED  BY <1>3, <1>4

(* A tool has one floor at most. *)
LEMMA OneFloor ==
  ASSUME NEW tool \in FlooredTools
  PROVE  /\ tool.dispatch \in Actions \cup {""} /\ PinFloor(tool.pin) \in Actions \cup {""}
         /\ tool.dispatch = "" \/ PinFloor(tool.pin) = ""
         /\ Floor(tool) = IF tool.dispatch = "" THEN PinFloor(tool.pin) ELSE tool.dispatch
<1>1. CASE tool \in {[dispatch |-> floor, pin |-> ""] : floor \in Actions \cup {""}}
  <2>1. PICK floor \in Actions \cup {""} : tool = [dispatch |-> floor, pin |-> ""]  BY <1>1
  <2>2. tool.dispatch = floor /\ tool.pin = ""  BY <2>1
  <2>3. PinFloor(tool.pin) = ""  BY <2>2 DEF PinFloor
  <2>4. Floor(tool) = tool.dispatch  BY <2>2, <2>3 DEF Floor
  <2>. QED  BY <2>2, <2>3, <2>4
<1>2. CASE tool \in {[dispatch |-> "", pin |-> status] : status \in {"pinned", "new", "changed"}}
  <2>1. PICK status \in {"pinned", "new", "changed"} : tool = [dispatch |-> "", pin |-> status]
    BY <1>2
  <2>2. tool.dispatch = "" /\ tool.pin = status  BY <2>1
  <2>3. PinFloor(tool.pin) \in Actions \cup {""}  BY <2>2 DEF PinFloor, Actions
  <2>4. Floor(tool) = PinFloor(tool.pin)  BY <2>2 DEF Floor
  <2>. QED  BY <2>2, <2>3, <2>4
<1>. QED  BY <1>1, <1>2 DEF FlooredTools

(* ApplyFloors ends in the stricter of the policy's action and the floor.  *)
LEMMA FlooredAction ==
  ASSUME NEW rules, NEW d \in DecisionSet(rules), NEW tool \in FlooredTools
  PROVE  ApplyFloors(d, tool).action = Tighten(d, Floor(tool)).action
<1> DEFINE dispatched == Tighten(d, tool.dispatch)
           pinned == Tighten(dispatched, PinFloor(tool.pin))
<1>1. ApplyFloors(d, tool).action = pinned.action
  <2>1. CASE pinned.action = dispatched.action  BY <2>1 DEF ApplyFloors
  <2>2. CASE pinned.action # dispatched.action
    <3>1. pinned = [action |-> PinFloor(tool.pin), rule |-> <<"default_action", 0>>]
      BY <2>2 DEF Tighten
    <3>2. ApplyFloors(d, tool) = [pinned EXCEPT !.rule = PinRule(tool.pin)]
      BY <2>2 DEF ApplyFloors
    <3>. QED  BY <3>1, <3>2
  <2>. QED  BY <2>1, <2>2
<1>2. CASE tool.dispatch = ""
  BY <1>1, <1>2, OneFloor DEF Tighten
<1>3. CASE tool.dispatch # ""
  <2>1. PinFloor(tool.pin) = "" /\ Floor(tool) = tool.dispatch  BY <1>3, OneFloor
  <2>2. pinned = dispatched  BY <2>1 DEF Tighten
  <2>. QED  BY <1>1, <2>1, <2>2
<1>. QED  BY <1>2, <1>3

(* handleToolDecisions and deniedOnly tighten the conditional rules by the *)
(* one action Floor gives, a call goes through both floors in turn         *)
(* (ApplyFloors): they end in the same action, the stricter one, and never *)
(* in a freer one than the policy's.                                       *)
THEOREM FloorsAgree ==
  ASSUME NEW rules, NEW d \in DecisionSet(rules), NEW tool \in FlooredTools
  PROVE  /\ ApplyFloors(d, tool).action = Tighten(d, Floor(tool)).action
         /\ Severity(ApplyFloors(d, tool).action) >= Severity(d.action)
<1>1. Floor(tool) \in Actions \cup {""}  BY OneFloor
<1>2. Severity(Tighten(d, Floor(tool)).action) >= Severity(d.action)
  BY <1>1, TightenedIsStricter
<1>. QED  BY <1>2, FlooredAction

-----------------------------------------------------------------------------
(* The order of the rules *)

(* A set of policies: sequences of rules, each with how well its policy    *)
(* fits.                                                                   *)
PolicySet == Seq([agent : Fits, source : Nat, rules : Rules])

(* Of some natural numbers one is the least.                               *)
LEMMA Least ==
  ASSUME NEW I \in SUBSET Nat, I # {}
  PROVE  \E x \in I : \A y \in I : x <= y
<1>1. PICK x \in I : \A y \in I : ~ (<<y, x>> \in OpToRel(<, Nat))
  BY NatLessThanWellFounded, WFMin
<1>2. \A y \in I : ~ (y < x)
  BY <1>1 DEF OpToRel
<1> QED
  BY <1>2

(* What a place of a rule that matches is made of.                         *)
LEMMA ReachedPlaces ==
  ASSUME NEW policies \in PolicySet, NEW tool, NEW x \in Reached(policies, tool)
  PROVE  /\ x = <<x[1], x[2]>>
         /\ x[1] \in DOMAIN policies /\ x[1] \in Nat
         /\ x[2] \in DOMAIN policies[x[1]].rules /\ x[2] \in Nat
         /\ policies[x[1]].agent \in Fits
         /\ policies[x[1]].source \in Nat
         /\ RuleAt(policies, x) \in Rule /\ tool \in RuleAt(policies, x).tools
<1>1. PICK p \in DOMAIN policies :
        x \in {p} \X {i \in DOMAIN policies[p].rules : tool \in policies[p].rules[i].tools}
  BY DEF Reached
<1>2. policies[p] \in [agent : Fits, source : Nat, rules : Rules] /\ p \in Nat
  <2> DEFINE S == [agent : Fits, source : Nat, rules : Rules]
  <2>1. policies \in Seq(S)
    BY DEF PolicySet
  <2> HIDE DEF S
  <2>2. policies[p] \in S /\ p \in Nat
    BY <2>1
  <2> QED
    BY <2>2 DEF S
<1>3. /\ x = <<x[1], x[2]>> /\ x[1] = p /\ x[2] \in DOMAIN policies[p].rules
      /\ tool \in policies[p].rules[x[2]].tools
  BY <1>1
<1>4. policies[p].rules \in Seq(Rule)
  BY <1>2 DEF Rules
<1>5. x[2] \in Nat /\ policies[p].rules[x[2]] \in Rule
  BY <1>3, <1>4
<1> QED
  BY <1>2, <1>3, <1>5 DEF RuleAt

(* The rules are in order: of two places one is before the other.          *)
LEMMA PlacesAreOrdered ==
  ASSUME NEW policies \in PolicySet, NEW tool,
         NEW x \in Reached(policies, tool), NEW y \in Reached(policies, tool),
         NEW z \in Reached(policies, tool)
  PROVE  /\ x # y => Before(policies, x, y) \/ Before(policies, y, x)
         /\ ~ (Before(policies, x, y) /\ Before(policies, y, x))
         /\ ~ Before(policies, x, x)
         /\ Before(policies, x, y) /\ Before(policies, y, z) => Before(policies, x, z)
<1>1. /\ x = <<x[1], x[2]>> /\ y = <<y[1], y[2]>>
      /\ {x[1], x[2], y[1], y[2], z[1], z[2]} \subseteq Nat
  BY ReachedPlaces
<1>2. {policies[x[1]].agent, policies[y[1]].agent, policies[z[1]].agent} \subseteq Nat
  BY ReachedPlaces DEF Fits, Exact, Partial, CatchAll
<1> QED
  BY <1>1, <1>2 DEF Before

(* The first of some places is one of them, and before all others.         *)
LEMMA FirstIsFirst ==
  ASSUME NEW policies \in PolicySet, NEW tool,
         NEW S \in SUBSET Reached(policies, tool), S # {}
  PROVE  /\ First(policies, S) \in S
         /\ \A y \in S : y # First(policies, S) => Before(policies, First(policies, S), y)
<1> DEFINE fit(x) == policies[x[1]].agent
<1>0. \A x \in S : /\ x = <<x[1], x[2]>> /\ x[1] \in Nat /\ x[2] \in Nat
                   /\ fit(x) \in 0 .. 2
  BY ReachedPlaces DEF Fits, Exact, Partial, CatchAll
<1> HIDE DEF fit
<1>1. PICK a \in S : \A y \in S : fit(y) <= fit(a)
  <2> DEFINE I == {2 - fit(x) : x \in S}
  <2>1. I \in SUBSET Nat /\ I # {}
    BY <1>0
  <2>2. PICK n \in I : \A m \in I : n <= m
    <3> HIDE DEF I
    <3> QED
      BY <2>1, Least
  <2>3. PICK a \in S : n = 2 - fit(a)
    OBVIOUS
  <2>4. \A y \in S : 2 - fit(a) <= 2 - fit(y)
    BY <2>2, <2>3
  <2> QED
    BY <1>0, <2>4
<1>2. PICK b \in S : fit(b) = fit(a) /\ \A y \in S : fit(y) = fit(a) => b[1] <= y[1]
  <2> DEFINE I == {x[1] : x \in {x \in S : fit(x) = fit(a)}}
  <2>1. I \in SUBSET Nat /\ I # {}
    BY <1>0
  <2>2. PICK n \in I : \A m \in I : n <= m
    <3> HIDE DEF I
    <3> QED
      BY <2>1, Least
  <2> QED
    BY <2>2
<1>3. PICK c \in S : fit(c) = fit(a) /\ c[1] = b[1]
                     /\ \A y \in S : fit(y) = fit(a) /\ y[1] = b[1] => c[2] <= y[2]
  <2> DEFINE I == {x[2] : x \in {x \in S : fit(x) = fit(a) /\ x[1] = b[1]}}
  <2>1. I \in SUBSET Nat /\ I # {}
    BY <1>0, <1>2
  <2>2. PICK n \in I : \A m \in I : n <= m
    <3> HIDE DEF I
    <3> QED
      BY <2>1, Least
  <2> QED
    BY <2>2
<1>4. \A y \in S \ {c} : Before(policies, c, y)
  <2> SUFFICES ASSUME NEW y \in S \ {c} PROVE Before(policies, c, y)
    OBVIOUS
  <2>1. y = <<y[1], y[2]>> /\ c = <<c[1], c[2]>>
    BY <1>0
  <2>2. y[1] # c[1] \/ y[2] # c[2]
    BY <2>1
  <2>3. fit(c) > fit(y) \/ (fit(c) = fit(y) /\ (c[1] < y[1] \/ (c[1] = y[1] /\ c[2] < y[2])))
    BY <1>0, <1>1, <1>2, <1>3, <2>2
  <2> QED
    BY <2>3 DEF Before, fit
<1>5. \E x \in S : \A y \in S \ {x} : Before(policies, x, y)
  BY <1>4
<1> QED
  BY <1>5 DEF First

-----------------------------------------------------------------------------
(* What is told of a tool and what its calls get *)

(* The rule a call ends with is the first one whose condition holds of     *)
(* those Explain lists, or the one it says decides.                        *)
LEMMA ExplainedIsEvaluated ==
  ASSUME NEW policies \in PolicySet, NEW tool, NEW met
  PROVE  LET sd == Explain(policies, tool)
             hold == {x \in DOMAIN sd.conditional :
                        <<sd.conditional[x].source, sd.conditional[x].at>> \in met}
         IN /\ DOMAIN sd.conditional \subseteq Reached(policies, tool)
            /\ \A x \in DOMAIN sd.conditional : sd.conditional[x] = Deciding(policies, x)
            /\ hold \subseteq DOMAIN sd.conditional
            /\ hold # {} => First(policies, hold) \in hold
            /\ Evaluate(policies, tool, met) =
                 IF hold = {} THEN sd.decided ELSE Deciding(policies, First(policies, hold))
<1> DEFINE R == Reached(policies, tool)
           always == {x \in R : ~RuleAt(policies, x).cond}
           f == First(policies, always)
           before == {x \in R : always # {} => Before(policies, x, f)}
           Met(x) == <<policies[x[1]].source, x[2]>> \in met
           applies == {x \in R : RuleAt(policies, x).cond => Met(x)}
           hold == {x \in before : Met(x)}
           e == First(policies, applies)
           h == First(policies, hold)
<1>1. /\ Explain(policies, tool).decided = Decided(policies, always)
      /\ Explain(policies, tool).conditional = [x \in before |-> Deciding(policies, x)]
  BY DEF Explain
<1>2. Evaluate(policies, tool, met) = Decided(policies, applies)
  BY DEF Evaluate
<1>3. \A x : Deciding(policies, x).source = policies[x[1]].source /\ Deciding(policies, x).at = x[2]
  BY DEF Deciding
<1>4. hold = {x \in DOMAIN Explain(policies, tool).conditional :
                <<Explain(policies, tool).conditional[x].source,
                  Explain(policies, tool).conditional[x].at>> \in met}
  BY <1>1, <1>3
<1>5. /\ always \subseteq applies /\ applies \subseteq R /\ hold \subseteq R
      /\ hold \subseteq before /\ before \subseteq R
  OBVIOUS
<1>6. /\ always # {} => f \in always /\ \A y \in always : y # f => Before(policies, f, y)
      /\ applies # {} => e \in applies /\ \A y \in applies : y # e => Before(policies, e, y)
      /\ hold # {} => h \in hold /\ \A y \in hold : y # h => Before(policies, h, y)
  <2> HIDE DEF always, applies, hold, before
  <2> QED
    BY <1>5, FirstIsFirst
(* Among the rules before the first unconditional one all have a condition. *)
<1>7. ASSUME NEW x \in before
      PROVE  RuleAt(policies, x).cond
  <2> SUFFICES ASSUME ~RuleAt(policies, x).cond PROVE FALSE
    OBVIOUS
  <2>1. x \in always /\ x \in R /\ f \in R /\ f \in always
    BY <1>6
  <2>2. Before(policies, x, f) /\ (x # f => Before(policies, f, x))
    BY <1>6, <2>1
  <2> QED
    BY <2>1, <2>2, PlacesAreOrdered
<1>8. hold \subseteq applies
  OBVIOUS
(* What applies and is before the first unconditional rule is listed. *)
<1>9. ASSUME NEW x \in applies, always # {} => Before(policies, x, f)
      PROVE  x \in hold
  <2>1. x \in before
    BY <1>9
  <2> QED
    BY <1>7, <2>1
<1> HIDE DEF Met, before
<1>10. CASE hold = {}
  <2>1. applies = {} <=> always = {}
    BY <1>5, <1>9, <1>10
  <2>2. ASSUME always # {} PROVE e = f
    <3>1. e \in applies /\ f \in always /\ f \in applies /\ e \in R /\ f \in R
      BY <1>5, <1>6, <2>2
    <3>2. ~ Before(policies, e, f)
      BY <1>9, <1>10, <3>1
    <3> QED
      BY <1>6, <3>1, <3>2
  <2>3. Decided(policies, applies) = Decided(policies, always)
    BY <2>1, <2>2 DEF Decided
  <2> QED
    BY <1>1, <1>2, <1>4, <1>5, <1>10, <2>3
<1>11. CASE hold # {}
  <2>1. h \in hold /\ h \in applies /\ h \in R /\ e \in applies /\ e \in R
    BY <1>5, <1>6, <1>8, <1>11
  <2>2. e = h
    <3> SUFFICES ASSUME e # h PROVE FALSE
      OBVIOUS
    <3>1. Before(policies, e, h)
      BY <1>6, <2>1
    <3>2. always # {} => Before(policies, e, f)
      <4> SUFFICES ASSUME always # {} PROVE Before(policies, e, f)
        OBVIOUS
      <4>1. f \in R /\ Before(policies, h, f)
        BY <1>5, <1>6, <2>1 DEF before
      <4> QED
        BY <2>1, <3>1, <4>1, PlacesAreOrdered
    <3>3. e \in hold
      BY <1>9, <2>1, <3>2
    <3>4. Before(policies, h, e)
      BY <1>6, <3>3
    <3> QED
      BY <2>1, <3>1, <3>4, PlacesAreOrdered
  <2>3. Decided(policies, applies) = Deciding(policies, h)
    BY <2>1, <2>2 DEF Decided
  <2> QED
    BY <1>1, <1>2, <1>4, <1>5, <1>11, <2>1, <2>3
<1> QED
  BY <1>10, <1>11

(* What a set of policies decides is an action.                            *)
LEMMA ActionsAreKnown ==
  ASSUME Action \subseteq Actions, NEW policies \in PolicySet, NEW tool, NEW met
  PROVE  /\ Explain(policies, tool).decided.action \in Actions
         /\ \A x \in Reached(policies, tool) : Deciding(policies, x).action \in Actions
<1>1. \A x \in Reached(policies, tool) : Deciding(policies, x).action \in Actions
  BY ReachedPlaces DEF Deciding, Rule
<1> DEFINE always == {x \in Reached(policies, tool) : ~RuleAt(policies, x).cond}
<1>2. Explain(policies, tool).decided = Decided(policies, always)
  BY DEF Explain
<1> HIDE DEF always
<1>3. always # {} => First(policies, always) \in Reached(policies, tool)
  BY FirstIsFirst DEF always
<1>4. Default.action \in Actions
  BY DEF Default, Actions
<1> QED
  BY <1>1, <1>2, <1>3, <1>4 DEF Decided

(* The row of a tool tells what a call of it gets: where none of the       *)
(* conditions it lists holds the very decision, else the action of the     *)
(* first one.                                                              *)
RowTells(policies, name, tool, met) ==
  LET row == ToolDecision(policies, name, tool)
      call == Decision(policies, name, tool, met)
      hold == {x \in DOMAIN row.conditional :
                 <<row.conditional[x].source, row.conditional[x].at>> \in met}
  IN IF hold = {} THEN call = row.decided
     ELSE call.action = row.conditional[First(policies, hold)].action

(* It does so of every set of policies.                                    *)
LEMMA RowTellsCalls ==
  ASSUME Action \subseteq Actions, NEW policies \in PolicySet, NEW name,
         NEW tool \in FlooredTools, NEW met
  PROVE  RowTells(policies, name, tool, met)
<1> DEFINE sd == Explain(policies, name)
           row == ToolDecision(policies, name, tool)
           call == Decision(policies, name, tool, met)
           hold == {x \in DOMAIN sd.conditional :
                      <<sd.conditional[x].source, sd.conditional[x].at>> \in met}
           Told(c) == [c EXCEPT !.action = Tighten(Ruled(c), Floor(tool)).action]
<1>1. /\ DOMAIN sd.conditional \subseteq Reached(policies, name)
      /\ \A x \in DOMAIN sd.conditional : sd.conditional[x] = Deciding(policies, x)
      /\ hold # {} => First(policies, hold) \in hold
      /\ Evaluate(policies, name, met) =
           IF hold = {} THEN sd.decided ELSE Deciding(policies, First(policies, hold))
  BY ExplainedIsEvaluated
<1>2. /\ row.decided = ApplyFloors(Ruled(sd.decided), tool)
      /\ row.conditional = [x \in DOMAIN sd.conditional |-> Told(sd.conditional[x])]
  BY DEF ToolDecision
<1>3. call = ApplyFloors(Ruled(Evaluate(policies, name, met)), tool)
  BY DEF Decision
<1>4. ASSUME NEW x \in DOMAIN sd.conditional
      PROVE  /\ row.conditional[x].source = sd.conditional[x].source
             /\ row.conditional[x].at = sd.conditional[x].at
             /\ row.conditional[x].action =
                  Tighten(Ruled(Deciding(policies, x)), Floor(tool)).action
  <2>1. row.conditional[x] = Told(Deciding(policies, x)) /\ sd.conditional[x] = Deciding(policies, x)
    BY <1>1, <1>2
  <2>2. \A a : LET d == Deciding(policies, x) IN
          /\ [d EXCEPT !.action = a].source = d.source
          /\ [d EXCEPT !.action = a].at = d.at
          /\ [d EXCEPT !.action = a].action = a
    BY DEF Deciding
  <2> QED
    BY <2>1, <2>2
<1>5. hold = {x \in DOMAIN row.conditional :
                <<row.conditional[x].source, row.conditional[x].at>> \in met}
  BY <1>2, <1>4
<1>6. ASSUME NEW x \in DOMAIN sd.conditional
      PROVE  ApplyFloors(Ruled(Deciding(policies, x)), tool).action
               = Tighten(Ruled(Deciding(policies, x)), Floor(tool)).action
  <2> DEFINE d == Ruled(Deciding(policies, x))
  <2>1. d \in DecisionSet({d.rule})
    BY <1>1, ActionsAreKnown DEF Ruled, DecisionSet
  <2> HIDE DEF d
  <2>2. ApplyFloors(d, tool).action = Tighten(d, Floor(tool)).action
    BY <2>1, FlooredAction
  <2> QED
    BY <2>2 DEF d
<1> HIDE DEF sd, row, call, hold
<1>7. IF hold = {} THEN call = row.decided
      ELSE call.action = row.conditional[First(policies, hold)].action
  <2>1. CASE hold = {}
    BY <1>1, <1>2, <1>3, <2>1
  <2>2. CASE hold # {}
    <3>1. First(policies, hold) \in DOMAIN sd.conditional
      BY <1>1, <2>2 DEF hold
    <3> QED
      BY <1>1, <1>3, <1>4, <1>6, <2>2, <3>1
  <2> QED
    BY <2>1, <2>2
<1> QED
  BY <1>5, <1>7 DEF RowTells, row, call

(* What is hidden from tools/list is refused, whatever holds.              *)
LEMMA HiddenIsRefused ==
  ASSUME Action \subseteq Actions, NEW policies \in PolicySet, NEW name,
         NEW tool \in FlooredTools, NEW met, DeniedOnly(policies, name, tool)
  PROVE  Decision(policies, name, tool, met).action = "deny"
<1> DEFINE sd == Explain(policies, name)
           hold == {x \in DOMAIN sd.conditional :
                      <<sd.conditional[x].source, sd.conditional[x].at>> \in met}
<1>1. /\ DOMAIN sd.conditional \subseteq Reached(policies, name)
      /\ \A x \in DOMAIN sd.conditional : sd.conditional[x] = Deciding(policies, x)
      /\ hold # {} => First(policies, hold) \in hold
      /\ Evaluate(policies, name, met) =
           IF hold = {} THEN sd.decided ELSE Deciding(policies, First(policies, hold))
  BY ExplainedIsEvaluated
<1>2. /\ Tighten(Ruled(sd.decided), Floor(tool)).action = "deny"
      /\ \A x \in DOMAIN sd.conditional :
           Tighten(Ruled(sd.conditional[x]), Floor(tool)).action = "deny"
  BY DEF DeniedOnly
<1>3. PICK e : /\ e = Evaluate(policies, name, met) /\ e.action \in Actions
               /\ Tighten(Ruled(e), Floor(tool)).action = "deny"
  <2>1. CASE hold = {}
    BY <1>1, <1>2, <2>1, ActionsAreKnown
  <2>2. CASE hold # {}
    BY <1>1, <1>2, <2>2, ActionsAreKnown
  <2> QED
    BY <2>1, <2>2
<1>4. Ruled(e) \in DecisionSet({Ruled(e).rule})
  BY <1>3 DEF Ruled, DecisionSet
<1>5. ApplyFloors(Ruled(e), tool).action = "deny"
  BY <1>3, <1>4, FlooredAction
<1> QED
  BY <1>3, <1>5 DEF Decision

-----------------------------------------------------------------------------
(* The files and the policies in force *)

(* The files are numbered.                                                 *)
LEMMA FilesAreNumbered ==
  \E n \in Nat : File = 1 .. n
BY FileConstants, FS_CardinalityType

(* A set that was read is a set of policies.                               *)
LEMMA ReadIsPolicySet ==
  ASSUME NEW t \in [File -> Rules]
  PROVE  Policies(t) \in PolicySet
<1> DEFINE S == [agent : Fits, source : Nat, rules : Rules]
           own == [f \in File |-> [agent |-> AgentOf[f], source |-> f, rules |-> t[f]]]
<1>1. PICK n \in Nat : File = 1 .. n
  BY FilesAreNumbered
<1>2. \A f \in File : [agent |-> AgentOf[f], source |-> f, rules |-> t[f]] \in S
  BY <1>1, FileConstants
<1> HIDE DEF S
<1>3. own \in Seq(S)
  BY <1>1, <1>2
<1>4. Inline \in Seq(S)
  <2> DEFINE T == [agent : Fits, source : {0}, rules : Rules]
  <2>1. T \subseteq S
    BY DEF S
  <2>2. Inline \in Seq(T)
    BY FileConstants
  <2> HIDE DEF T
  <2> QED
    BY <2>1, <2>2
<1> HIDE DEF own
<1>5. Inline \o own \in Seq(S)
  BY <1>3, <1>4
<1> QED
  BY <1>5 DEF Policies, PolicySet, S, own

(* Of a sequence, part is one of the same kind.                            *)
LEMMA PartOfRules ==
  ASSUME NEW rules \in Rules, NEW m \in Nat \ {0}, NEW n \in Nat, n <= Len(rules)
  PROVE  SubSeq(rules, m, n) \in Rules
<1>1. rules \in Seq(Rule)
  BY DEF Rules
<1>2. \A i \in m .. n : rules[i] \in Rule
  <2> SUFFICES ASSUME NEW i \in m .. n PROVE rules[i] \in Rule
    OBVIOUS
  <2>1. i \in 1 .. Len(rules)
    BY <1>1
  <2> QED
    BY <1>1, <2>1
<1> QED
  BY <1>2, SubSeqProperties DEF Rules

(* A search in a list of rules ends at the first that fits, or at 0.       *)
LEMMA RulesAreFound ==
  ASSUME NEW rules \in Rules, NEW tool
  PROVE  /\ ExactRule(rules, tool) \in 0 .. Len(rules)
         /\ ConsoleRule(rules, tool) \in 0 .. Len(rules)
         /\ ExactRule(rules, tool) # 0 =>
              /\ IsExact(rules[ExactRule(rules, tool)], tool)
              /\ \A i \in 1 .. Len(rules) :
                   IsExact(rules[i], tool) => ExactRule(rules, tool) <= i
         /\ ExactRule(rules, tool) = 0 =>
              \A i \in 1 .. Len(rules) : ~IsExact(rules[i], tool)
         /\ ConsoleRule(rules, tool) # 0 =>
              IsExact(rules[ConsoleRule(rules, tool)], tool)
<1>0. Len(rules) \in Nat
  BY DEF Rules
<1>1. ASSUME NEW I \in SUBSET (1 .. Len(rules)), I # {}
      PROVE  Min(I) \in I /\ \A y \in I : Min(I) <= y
  <2>1. I \in SUBSET Nat
    BY <1>0
  <2>2. \E x \in I : \A y \in I : x <= y
    BY <1>1, <2>1, Least
  <2> QED
    BY <2>2 DEF Min
<1> DEFINE I == {i \in 1 .. Len(rules) : IsExact(rules[i], tool)}
           J == {i \in 1 .. Len(rules) : IsExact(rules[i], tool) /\ rules[i].marked}
<1>2. ExactRule(rules, tool) = IF I # {} THEN Min(I) ELSE 0
  BY DEF ExactRule, SelectInSeq
<1>3. ConsoleRule(rules, tool) = IF J # {} THEN Min(J) ELSE 0
  BY DEF ConsoleRule, SelectInSeq
<1>4. I # {} => Min(I) \in I /\ \A y \in I : Min(I) <= y
  <2> HIDE DEF I
  <2> QED
    BY <1>1 DEF I
<1>5. J # {} => Min(J) \in J
  <2> HIDE DEF J
  <2> QED
    BY <1>1 DEF J
<1>6. I = {} => \A i \in 1 .. Len(rules) : ~IsExact(rules[i], tool)
  OBVIOUS
<1>7. CASE I # {}
  BY <1>0, <1>2, <1>3, <1>4, <1>5, <1>7
<1>8. CASE I = {}
  BY <1>0, <1>2, <1>3, <1>5, <1>6, <1>8
<1> QED
  BY <1>7, <1>8

(* An edit makes a list of rules of one.                                   *)
LEMMA EditedIsRules ==
  ASSUME NEW rules \in Rules, NEW tool \in Tool, NEW action \in Action \cup {"inherit"},
         NEW at \in Nat, action = "inherit" => ConsoleRule(rules, tool) # 0
  PROVE  Edited(rules, tool, action, at) \in Rules
<1>0. Len(rules) \in Nat /\ DOMAIN rules = 1 .. Len(rules) /\ rules \in Seq(Rule)
  BY DEF Rules
<1>1. ASSUME action = "inherit" PROVE RemoveConsoleRule(rules, tool) \in Rules
  <2> DEFINE i == ConsoleRule(rules, tool)
  <2>1. i \in 1 .. Len(rules)
    BY <1>0, <1>1, RulesAreFound
  <2> HIDE DEF i
  <2>2. /\ i - 1 \in Nat /\ i + 1 \in Nat \ {0} /\ i - 1 <= Len(rules)
        /\ Len(rules) <= Len(rules) /\ 1 \in Nat \ {0}
    BY <1>0, <2>1
  <2>3. SubSeq(rules, 1, i - 1) \in Seq(Rule) /\ SubSeq(rules, i + 1, Len(rules)) \in Seq(Rule)
    BY <1>0, <2>2, PartOfRules DEF Rules
  <2>4. SubSeq(rules, 1, i - 1) \o SubSeq(rules, i + 1, Len(rules)) \in Seq(Rule)
    BY <2>3
  <2> QED
    BY <2>4 DEF RemoveConsoleRule, RemoveAt, Rules, i
<1>2. ASSUME NEW i \in 1 .. Len(rules), action \in Action
      PROVE  SetAction(rules, i, action) \in Rules
  <2>1. rules[i] \in Rule
    BY <1>0
  <2>2. [rules[i] EXCEPT !.action = action] \in Rule
    BY <1>2, <2>1 DEF Rule
  <2>3. [rules EXCEPT ![i] = [rules[i] EXCEPT !.action = action]] \in Seq(Rule)
    BY <1>0, <2>2
  <2> QED
    BY <2>3 DEF SetAction, Rules
<1>3. ASSUME action \in Action PROVE InsertRule(rules, tool, action, at) \in Rules
  <2> DEFINE i == IF at \in DOMAIN rules THEN at ELSE Len(rules) + 1
             r == [tools |-> {tool}, cond |-> FALSE, action |-> action, marked |-> TRUE]
  <2>1. i \in 1 .. Len(rules) + 1 /\ r \in Rule
    BY <1>0, <1>3 DEF Rule
  <2>a. InsertRule(rules, tool, action, at)
          = SubSeq(rules, 1, i - 1) \o <<r>> \o SubSeq(rules, i, Len(rules))
    BY DEF InsertRule, InsertAt
  <2> HIDE DEF i, r
  <2>2. /\ i - 1 \in Nat /\ i \in Nat \ {0} /\ i - 1 <= Len(rules)
        /\ Len(rules) <= Len(rules) /\ 1 \in Nat \ {0}
    BY <1>0, <2>1
  <2>3. SubSeq(rules, 1, i - 1) \in Seq(Rule) /\ SubSeq(rules, i, Len(rules)) \in Seq(Rule)
    BY <1>0, <2>2, PartOfRules DEF Rules
  <2>4. <<r>> \in Seq(Rule)
    BY <2>1
  <2>5. SubSeq(rules, 1, i - 1) \o <<r>> \o SubSeq(rules, i, Len(rules)) \in Seq(Rule)
    BY <2>3, <2>4
  <2> QED
    BY <2>a, <2>5 DEF Rules
<1>4. CASE action = "inherit"
  BY <1>1, <1>4 DEF Edited
<1>5. CASE action # "inherit"
  <2>1. action \in Action
    BY <1>5
  <2>2. ExactRule(rules, tool) # 0 => ExactRule(rules, tool) \in 1 .. Len(rules)
    BY <1>0, RulesAreFound
  <2> DEFINE exact == ExactRule(rules, tool)
  <2>3. CASE exact # 0 /\ (at = 0 \/ exact <= at)
    <3>1. Edited(rules, tool, action, at) = SetAction(rules, exact, action)
      BY <1>5, <2>3 DEF Edited
    <3> QED
      BY <1>2, <2>1, <2>2, <2>3, <3>1
  <2>4. CASE ~(exact # 0 /\ (at = 0 \/ exact <= at))
    <3>1. Edited(rules, tool, action, at) = InsertRule(rules, tool, action, at)
      BY <1>5, <2>4 DEF Edited
    <3> QED
      BY <1>3, <2>1, <3>1
  <2> QED
    BY <2>3, <2>4
<1> QED
  BY <1>4, <1>5

(* The policies of a set: the inline ones, then one for each file.         *)
LEMMA PoliciesAreFiles ==
  ASSUME NEW t
  PROVE  /\ Len(Inline) \in Nat
         /\ Len(Policies(t)) = Len(Inline) + Cardinality(File)
         /\ Len(Policies(t)) \in Nat /\ DOMAIN Policies(t) = 1 .. Len(Policies(t))
         /\ \A f \in File : f \in Nat \ {0} /\ Len(Inline) + f \in DOMAIN Policies(t)
         /\ \A f \in File : Policies(t)[Len(Inline) + f] =
                              [agent |-> AgentOf[f], source |-> f, rules |-> t[f]]
         /\ \A p \in DOMAIN Policies(t) :
              \/ p \in DOMAIN Inline /\ p <= Len(Inline) /\ Policies(t)[p] = Inline[p]
              \/ p - Len(Inline) \in File
<1> DEFINE own == [f \in File |-> [agent |-> AgentOf[f], source |-> f, rules |-> t[f]]]
           S == {Inline[i] : i \in DOMAIN Inline} \cup {own[f] : f \in File}
<1>1. PICK n \in Nat : File = 1 .. n
  BY FilesAreNumbered
<1>2. own \in Seq(S) /\ Len(own) = n
  BY <1>1
<1>3. Inline \in Seq(S)
  <2> DEFINE T == [agent : Fits, source : {0}, rules : Rules]
  <2>1. Inline \in Seq(T)
    BY FileConstants
  <2> HIDE DEF T
  <2>2. Len(Inline) \in Nat /\ DOMAIN Inline = 1 .. Len(Inline) /\ Inline = [i \in 1 .. Len(Inline) |-> Inline[i]]
    BY <2>1
  <2>3. \A i \in 1 .. Len(Inline) : Inline[i] \in S
    BY <2>2
  <2> HIDE DEF S
  <2> QED
    BY <2>2, <2>3
<1>4. \A f \in File : own[f] = [agent |-> AgentOf[f], source |-> f, rules |-> t[f]]
  OBVIOUS
<1> HIDE DEF S
<1>5. Policies(t) = Inline \o own
  BY DEF Policies
<1> HIDE DEF own
<1>6. PICK m \in Nat : m = Len(Inline) /\ DOMAIN Inline = 1 .. m
  BY <1>3
<1>7. /\ Len(Policies(t)) = m + n /\ DOMAIN Policies(t) = 1 .. m + n
      /\ \A i \in 1 .. m : Policies(t)[i] = Inline[i]
      /\ \A i \in m + 1 .. m + n : Policies(t)[i] = own[i - m]
  <2> DEFINE s == Inline \o own
  <2>1. /\ s \in Seq(S) /\ Len(s) = m + n
        /\ \A i \in 1 .. m + n : s[i] = IF i <= m THEN Inline[i] ELSE own[i - m]
    BY <1>2, <1>3, <1>6, ConcatProperties
  <2> HIDE DEF s
  <2>2. DOMAIN s = 1 .. m + n
    BY <2>1
  <2>3. /\ \A i \in 1 .. m : i \in 1 .. m + n /\ i <= m
        /\ \A i \in m + 1 .. m + n : i \in 1 .. m + n /\ ~(i <= m)
    BY <1>1, <1>6
  <2> QED
    BY <1>5, <2>1, <2>2, <2>3 DEF s
<1>8. \A f \in File : f \in Nat \ {0} /\ m + f \in m + 1 .. m + n /\ (m + f) - m = f
  BY <1>1
<1>9. \A p \in 1 .. m + n : p <= m \/ p - m \in 1 .. n
  OBVIOUS
<1>10. Cardinality(File) = n
  <2>1. Cardinality(1 .. n) = n
    BY FS_Interval
  <2> QED
    BY <1>1, <2>1, Zenon
<1>11. Len(Policies(t)) = Len(Inline) + Cardinality(File)
  BY <1>6, <1>7, <1>10
<1>12. Len(Policies(t)) \in Nat /\ DOMAIN Policies(t) = 1 .. Len(Policies(t)) /\ Len(Inline) \in Nat
  BY <1>6, <1>7
<1>13. \A f \in File : f \in Nat \ {0} /\ Len(Inline) + f \in DOMAIN Policies(t)
  <2>1. \A f \in File : m + f \in 1 .. m + n
    BY <1>1
  <2> QED
    BY <1>6, <1>7, <1>8, <2>1
<1>14. \A f \in File : Policies(t)[Len(Inline) + f] =
                         [agent |-> AgentOf[f], source |-> f, rules |-> t[f]]
  <2> SUFFICES ASSUME NEW f \in File
               PROVE  Policies(t)[m + f] = [agent |-> AgentOf[f], source |-> f, rules |-> t[f]]
    BY <1>6
  <2>1. Policies(t)[m + f] = own[(m + f) - m] /\ (m + f) - m = f
    BY <1>7, <1>8
  <2> QED
    BY <1>4, <2>1
<1>15. \A j \in DOMAIN Policies(t) :
         \/ j \in DOMAIN Inline /\ j <= Len(Inline) /\ Policies(t)[j] = Inline[j]
         \/ j - Len(Inline) \in File
  <2> SUFFICES ASSUME NEW j \in 1 .. m + n
               PROVE  \/ j \in DOMAIN Inline /\ j <= m /\ Policies(t)[j] = Inline[j]
                      \/ j - m \in File
    BY <1>6, <1>7
  <2>1. CASE j <= m
    <3>1. j \in 1 .. m
      BY <2>1
    <3> QED
      BY <1>6, <1>7, <2>1, <3>1
  <2>2. CASE j - m \in 1 .. n
    BY <1>1, <2>2
  <2> QED
    BY <1>9, <2>1, <2>2
<1> QED
  BY <1>11, <1>12, <1>13, <1>14, <1>15

(* A policy comes from a file or from the configuration.                   *)
LEMMA SourcesAreFiles ==
  ASSUME NEW t
  PROVE  \A p \in DOMAIN Policies(t) : Policies(t)[p].source \in File \cup {0} /\ p \in Nat
<1> SUFFICES ASSUME NEW p \in DOMAIN Policies(t)
             PROVE  Policies(t)[p].source \in File \cup {0} /\ p \in Nat
  OBVIOUS
<1>1. p \in Nat
  BY PoliciesAreFiles
<1>2. CASE p \in DOMAIN Inline /\ Policies(t)[p] = Inline[p]
  <2> DEFINE T == [agent : Fits, source : {0}, rules : Rules]
  <2>1. Inline \in Seq(T)
    BY FileConstants
  <2> HIDE DEF T
  <2>2. Inline[p] \in T
    BY <1>2, <2>1
  <2> QED
    BY <1>1, <1>2, <2>2 DEF T
<1>3. CASE p - Len(Inline) \in File
  <2>1. p = Len(Inline) + (p - Len(Inline))
    BY <1>1, PoliciesAreFiles
  <2> DEFINE f == p - Len(Inline)
  <2>a. Policies(t)[Len(Inline) + f] = [agent |-> AgentOf[f], source |-> f, rules |-> t[f]]
    BY <1>3, PoliciesAreFiles
  <2> HIDE DEF f
  <2>b. p = Len(Inline) + f
    BY <2>1 DEF f
  <2>2. Policies(t)[p].source = f
    BY <2>a, <2>b
  <2> QED
    BY <1>1, <1>3, <2>2 DEF f
<1> QED
  BY <1>2, <1>3, PoliciesAreFiles

(* The place of an edit is in a file of the agent, or nowhere.             *)
LEMMA PlaceIsInFile ==
  ASSUME NEW t \in [File -> Rules], NEW tool
  PROVE  /\ Place(Policies(t), tool).file \in File \cup {0}
         /\ Place(Policies(t), tool).at \in Nat
<1> DEFINE pol == Policies(t)
           always == {x \in Reached(pol, tool) : ~RuleAt(pol, x).cond}
           own == {p \in DOMAIN pol : pol[p].agent = Exact /\ pol[p].source # 0}
           d == Explain(pol, tool).decided
<1>1. pol \in PolicySet
  BY ReadIsPolicySet
<1>2. \A p \in DOMAIN pol : pol[p].source \in File \cup {0} /\ p \in Nat
  BY SourcesAreFiles
<1>3. d = Decided(pol, always)
  BY DEF Explain
<1>4. always # {} => First(pol, always) \in Reached(pol, tool)
  <2> HIDE DEF pol
  <2> QED
    BY <1>1, FirstIsFirst
<1>5. d.source \in File \cup {0} /\ d.at \in Nat
  <2>1. Default.source = 0 /\ Default.at = 0
    BY DEF Default
  <2>2. ASSUME NEW x \in Reached(pol, tool)
        PROVE  Deciding(pol, x).source \in File \cup {0} /\ Deciding(pol, x).at \in Nat
    <3> HIDE DEF pol
    <3> QED
      BY <1>1, <1>2, ReachedPlaces DEF Deciding
  <2> HIDE DEF always, pol
  <2> QED
    BY <1>3, <1>4, <2>1, <2>2 DEF Decided
<1>6. own # {} => Min(own) \in own
  <2>1. own \in SUBSET Nat
    BY <1>2
  <2> HIDE DEF own
  <2>2. own # {} => \E x \in own : \A y \in own : x <= y
    BY <2>1, Least
  <2> QED
    BY <2>2 DEF Min
<1>7. own # {} => pol[Min(own)].source \in File \cup {0}
  BY <1>2, <1>6
<1>8. Place(pol, tool) = IF d.source # 0 /\ d.agent = Exact THEN [file |-> d.source, at |-> d.at]
                         ELSE [file |-> IF own = {} THEN 0 ELSE pol[Min(own)].source, at |-> 0]
  BY DEF Place
<1> HIDE DEF d, own, pol
<1> QED
  BY <1>5, <1>7, <1>8 DEF pol

(* What the console is about to write is a list of rules, in a file of the *)
(* agent.                                                                  *)
LEMMA EditIsRules ==
  ASSUME TypeOK, NEW tool \in Tool, NEW action \in Action \cup {"inherit"},
         EditRead(tool, action)
  PROVE  edit'.file \in File /\ {edit'.src, edit'.out} \subseteq Rules
<1> DEFINE place == Place(Policies(inForce), tool)
           rules == IF place.file = 0 THEN <<>> ELSE text[place.file]
<1>1. /\ ~Refused(place, rules, tool, action)
      /\ edit' = [file |-> place.file, src |-> rules,
                  out |-> Edited(rules, tool, action, place.at)]
  BY DEF EditRead
<1>2. inForce \in [File -> Rules]
  BY DEF TypeOK
<1>3. place.file \in File \cup {0} /\ place.at \in Nat
  BY <1>2, PlaceIsInFile
<1> HIDE DEF place
<1>4. place.file # 0 /\ rules # Broken /\ (action = "inherit" => ConsoleRule(rules, tool) # 0)
  BY <1>1 DEF Refused
<1>5. place.file \in File /\ rules \in Rules
  BY <1>3, <1>4 DEF TypeOK
<1> HIDE DEF rules
<1>6. Edited(rules, tool, action, place.at) \in Rules
  BY <1>3, <1>4, <1>5, EditedIsRules
<1> QED
  BY <1>1, <1>5, <1>6

(* The types are kept by every step.                                       *)
LEMMA TypesAreKept ==
  ASSUME TypeOK, [Next]_vars
  PROVE  TypeOK'
<1>k. Console \notin Reloader /\ Console \in Loader
  BY FileConstants DEF Loader
<1>1. ASSUME NEW f \in File, EditByHand(f) PROVE TypeOK'
  <2>1. PICK rules \in Rewrites[f] \cup {Broken} : Change(f, rules)
    BY <1>1 DEF EditByHand
  <2>2. rules \in {Broken} \cup Rules
    BY FileConstants
  <2>3. text' \in [File -> {Broken} \cup Rules]
    BY <2>1, <2>2 DEF Change, TypeOK
  <2>4. byHand' \in 0 .. MaxByHand
    BY <1>1, FileConstants DEF EditByHand, TypeOK
  <2> QED
    BY <1>1, <2>1, <2>3, <2>4 DEF EditByHand, Change, TypeOK, Reading
<1>2. ASSUME NEW g \in Reloader, Fire(g) PROVE TypeOK'
  <2>1. Loadable(text) => text \in [File -> Rules]
    BY DEF TypeOK, Loadable
  <2>2. g \in Loader /\ g # Console
    BY <1>k DEF Loader
  <2>3. /\ UNCHANGED <<text, inForce, limits, older, edit, byHand, edits>> /\ due' = FALSE
        /\ pc[g] = "idle"
        /\ \/ /\ Loadable(text) /\ pc' = [pc EXCEPT ![g] = "apply"]
              /\ held' = [held EXCEPT ![g] = text]
           \/ UNCHANGED <<pc, held>>
    BY <1>2 DEF Fire, Goto
  <2>4. held' \in [Loader -> [File -> Rules]]
    BY <2>1, <2>2, <2>3 DEF TypeOK
  <2>5. /\ pc' \in [Loader -> {"idle", "write", "load", "apply", "limits"}]
        /\ \A r \in Reloader : pc'[r] \notin {"write", "load"}
        /\ pc'[Console] = pc[Console]
        /\ older' \subseteq Reading'
    BY <1>k, <2>2, <2>3 DEF TypeOK, Reading, Loader
  <2> QED
    BY <2>3, <2>4, <2>5 DEF TypeOK
<1>3. ASSUME NEW g \in Loader, ApplyPolicies(g) PROVE TypeOK'
  <2>1. inForce' \in [File -> Rules]
    BY <1>3 DEF ApplyPolicies, TypeOK
  <2>2. /\ pc' \in [Loader -> {"idle", "write", "load", "apply", "limits"}]
        /\ \A r \in Reloader : pc'[r] \notin {"write", "load"}
        /\ pc'[Console] \in {"write", "load"} => pc[Console] \in {"write", "load"}
        /\ older' \subseteq Reading'
    BY <1>k, <1>3 DEF ApplyPolicies, Goto, TypeOK, Reading, Loader
  <2> QED
    BY <1>3, <2>1, <2>2 DEF ApplyPolicies, TypeOK
<1>4. ASSUME NEW g \in Loader, ApplyLimits(g) PROVE TypeOK'
  <2>1. limits' \in [File -> Rules]
    BY <1>4 DEF ApplyLimits, TypeOK
  <2>2. Blank \in [File -> Rules]
    BY DEF Blank, Rules
  <2>3. held' \in [Loader -> [File -> Rules]]
    BY <1>4, <2>2 DEF ApplyLimits, Idle, TypeOK
  <2>4. /\ pc' \in [Loader -> {"idle", "write", "load", "apply", "limits"}]
        /\ \A r \in Reloader : pc'[r] \notin {"write", "load"}
        /\ pc'[Console] \in {"write", "load"} => pc[Console] \in {"write", "load"} /\ g # Console
        /\ older' \subseteq Reading'
    BY <1>k, <1>4 DEF ApplyLimits, Idle, Goto, TypeOK, Reading, Loader
  <2> QED
    BY <1>4, <2>1, <2>3, <2>4 DEF ApplyLimits, TypeOK
<1>5. ASSUME NEW tool \in Tool, NEW action \in Action \cup {"inherit"}, EditRead(tool, action)
      PROVE  TypeOK'
  <2>1. edit'.file \in File /\ {edit'.src, edit'.out} \subseteq Rules
    BY <1>5, EditIsRules
  <2>2. /\ pc[Console] = "idle" /\ pc' = [pc EXCEPT ![Console] = "write"]
        /\ edits < MaxEdits /\ edits' = edits + 1
        /\ UNCHANGED <<text, inForce, limits, due, older, held, byHand>>
    BY <1>5 DEF EditRead, Goto
  <2>3. /\ pc' \in [Loader -> {"idle", "write", "load", "apply", "limits"}]
        /\ \A r \in Reloader : pc'[r] \notin {"write", "load"}
        /\ older' \subseteq Reading'
    BY <1>k, <2>2 DEF TypeOK, Reading, Loader
  <2>4. edits' \in 0 .. MaxEdits
    BY <2>2, FileConstants DEF TypeOK
  <2> QED
    BY <2>1, <2>2, <2>3, <2>4 DEF TypeOK
<1>6. ASSUME EditWrite \/ EditLoad PROVE TypeOK'
  <2>1. /\ pc[Console] \in {"write", "load"}
        /\ edit.file \in File /\ {edit.src, edit.out} \subseteq Rules
        /\ UNCHANGED <<inForce, limits, byHand, edits>>
    BY <1>6 DEF EditWrite, EditLoad, TypeOK
  <2>2. \E where \in {"idle", "load", "apply"} :
          /\ pc' = [pc EXCEPT ![Console] = where]
          /\ where = "load" => UNCHANGED edit
    BY <1>6 DEF EditWrite, EditLoad, Goto
  <2>3. /\ pc' \in [Loader -> {"idle", "write", "load", "apply", "limits"}]
        /\ \A r \in Reloader : pc'[r] \notin {"write", "load"}
        /\ pc'[Console] \in {"write", "load"} => UNCHANGED edit
        /\ Reading \subseteq Reading'
    BY <1>k, <2>1, <2>2 DEF TypeOK, Reading, Loader
  <2>4. \/ UNCHANGED <<text, due, older>>
        \/ \E rules \in Rules : Change(edit.file, rules)
    BY <1>6, <2>1 DEF EditWrite, EditLoad
  <2>5. text' \in [File -> {Broken} \cup Rules] /\ due' \in BOOLEAN /\ older' \subseteq Reading
    <3>1. CASE UNCHANGED <<text, due, older>>
      BY <3>1 DEF TypeOK
    <3>2. ASSUME NEW rules \in Rules, Change(edit.file, rules)
          PROVE  text' \in [File -> {Broken} \cup Rules] /\ due' \in BOOLEAN /\ older' \subseteq Reading
      BY <2>1, <3>2 DEF Change, TypeOK
    <3> QED
      BY <2>4, <3>1, <3>2
  <2>6. held' \in [Loader -> [File -> Rules]]
    <3>1. UNCHANGED held \/ (Loadable(text) /\ held' = [held EXCEPT ![Console] = text])
      BY <1>6 DEF EditWrite, EditLoad
    <3>2. Loadable(text) => text \in [File -> Rules]
      BY DEF TypeOK, Loadable
    <3> QED
      BY <3>1, <3>2 DEF TypeOK
  <2> QED
    BY <2>1, <2>3, <2>5, <2>6 DEF TypeOK
<1>7. CASE UNCHANGED vars
  BY <1>7 DEF vars, TypeOK, Reading
<1> QED
  BY <1>k, <1>1, <1>2, <1>3, <1>4, <1>5, <1>6, <1>7 DEF Next, Reload, Editing, Loader

(* Every reachable state of the files and the policies is type correct: in *)
(* particular what is in force is a set of policies, whatever the files    *)
(* hold by then.                                                           *)
THEOREM PolicyTypes == Spec => []TypeOK
<1>1. Init => TypeOK
  <2> SUFFICES ASSUME Init PROVE TypeOK
    OBVIOUS
  <2>1. text \in [File -> Rules]
    BY FileConstants DEF Init
  <2>2. held \in [Loader -> [File -> Rules]]
    BY DEF Init, Blank, Rules
  <2>3. byHand \in 0 .. MaxByHand /\ edits \in 0 .. MaxEdits
    BY FileConstants DEF Init
  <2>4. Console \in Loader
    BY DEF Loader
  <2> QED
    BY <2>1, <2>2, <2>3, <2>4 DEF Init, TypeOK, Loader
<1> QED
  BY <1>1, TypesAreKept, PTL DEF Spec

(* The rows of GET /tools/decisions are what calls get, for any files,     *)
(* rules and conditions and whatever set is in force (handleToolDecisions, *)
(* Explain, Evaluate).                                                     *)
THEOREM RowsTellCalls == Spec => []StaticTellsCalls
<1>1. TypeOK => StaticTellsCalls
  <2> SUFFICES ASSUME TypeOK PROVE StaticTellsCalls
    OBVIOUS
  <2>1. Policies(inForce) \in PolicySet
    BY ReadIsPolicySet DEF TypeOK
  <2>2. Action \subseteq Actions
    BY FileConstants
  <2>3. \A name \in Tool, tool \in FlooredTools, met \in SUBSET Conditions(inForce) :
          RowTells(Policies(inForce), name, tool, met)
    BY <2>1, <2>2, RowTellsCalls
  <2> QED
    BY <2>3, Zenon DEF StaticTellsCalls, RowTells
<1> QED
  BY <1>1, PolicyTypes, PTL

(* No call of a tool that tools/list hides is served or held for a person, *)
(* for any files, rules, arguments, grants and past decisions              *)
(* (deniedOnly, handleToolCall, handleToolsCall).                          *)
THEOREM HiddenToolsAreDenied == Spec => []HiddenIsUncallable
<1>1. TypeOK => HiddenIsUncallable
  <2> SUFFICES ASSUME TypeOK PROVE HiddenIsUncallable
    OBVIOUS
  <2>1. Policies(inForce) \in PolicySet
    BY ReadIsPolicySet DEF TypeOK
  <2>2. Action \subseteq Actions
    BY FileConstants
  <2>3. ASSUME NEW name \in Tool, NEW tool \in FlooredTools, NEW met,
               DeniedOnly(Policies(inForce), name, tool),
               NEW granted \in BOOLEAN, NEW remembered \in BOOLEAN
        PROVE  /\ HTTPDecision(Policies(inForce), name, tool, met, granted, remembered).action = "deny"
               /\ MCPDecision(Policies(inForce), name, tool, met, remembered).action = "deny"
    <3>1. Decision(Policies(inForce), name, tool, met).action = "deny"
      BY <2>1, <2>2, <2>3, HiddenIsRefused
    <3>2. \A by : Lifted(Decision(Policies(inForce), name, tool, met), by)
                    = Decision(Policies(inForce), name, tool, met)
      BY <3>1 DEF Lifted
    <3> QED
      BY <3>1, <3>2 DEF HTTPDecision, MCPDecision
  <2> QED
    BY <2>3 DEF HiddenIsUncallable
<1> QED
  BY <1>1, PolicyTypes, PTL

-----------------------------------------------------------------------------
(* The edits of a list of rules *)

(* One list after another: first the one, then the other.                  *)
IsJoin(out, head, tail) ==
  /\ out \in Seq(Rule) /\ Len(out) = Len(head) + Len(tail)
  /\ \A i \in 1 .. Len(head) : out[i] = head[i]
  /\ \A i \in 1 .. Len(tail) : out[Len(head) + i] = tail[i]

(* That is what concatenation makes.                                       *)
LEMMA Joined ==
  ASSUME NEW head \in Seq(Rule), NEW tail \in Seq(Rule)
  PROVE  IsJoin(head \o tail, head, tail)
<1>1. PICK h \in Nat, l \in Nat : h = Len(head) /\ l = Len(tail)
  OBVIOUS
<1>2. /\ head \o tail \in Seq(Rule) /\ Len(head \o tail) = Len(head) + Len(tail)
      /\ \A i \in 1 .. Len(head) + Len(tail) :
           (head \o tail)[i] = IF i <= Len(head) THEN head[i] ELSE tail[i - Len(head)]
  BY ConcatProperties
<1> DEFINE out == head \o tail
<1> HIDE DEF out
<1>3. \A i \in 1 .. h + l : out[i] = IF i <= h THEN head[i] ELSE tail[i - h]
  BY <1>1, <1>2 DEF out
<1>4. \A i \in 1 .. h : i \in 1 .. h + l /\ i <= h
  OBVIOUS
<1>5. \A i \in 1 .. l : h + i \in 1 .. h + l /\ ~(h + i <= h) /\ (h + i) - h = i
  OBVIOUS
<1>6. (\A i \in 1 .. h : out[i] = head[i]) /\ \A i \in 1 .. l : out[h + i] = tail[i]
  BY <1>3, <1>4, <1>5
<1> QED
  BY <1>1, <1>2, <1>6 DEF IsJoin, out

(* A list with a rule put between its two parts.                           *)
LEMMA Spliced ==
  ASSUME NEW head \in Seq(Rule), NEW r \in Rule, NEW tail \in Seq(Rule)
  PROVE  LET out == (head \o <<r>>) \o tail
         IN /\ out \in Seq(Rule) /\ Len(out) = Len(head) + 1 + Len(tail)
            /\ out[Len(head) + 1] = r
            /\ \A i \in 1 .. Len(head) : out[i] = head[i]
            /\ \A i \in 1 .. Len(tail) : out[Len(head) + 1 + i] = tail[i]
<1> DEFINE o == <<r>>
           c == head \o o
           out == c \o tail
<1>1. o \in Seq(Rule) /\ Len(o) = 1 /\ o[1] = r /\ 1 \in 1 .. 1
  OBVIOUS
<1> HIDE DEF o
<1>2. IsJoin(c, head, o)
  BY <1>1, Joined
<1> HIDE DEF c
<1>3. c \in Seq(Rule)
  BY <1>2 DEF IsJoin
<1>4. IsJoin(out, c, tail)
  BY <1>3, Joined
<1> HIDE DEF out
<1>5. PICK h \in Nat, l \in Nat, m \in Nat : h = Len(head) /\ l = Len(tail) /\ m = h + 1
  OBVIOUS
<1>6. Len(c) = m /\ (\A i \in 1 .. h : c[i] = head[i]) /\ c[m] = r
  BY <1>1, <1>2, <1>5 DEF IsJoin
<1>7. /\ out \in Seq(Rule) /\ Len(out) = m + l
      /\ \A i \in 1 .. m : out[i] = c[i]
      /\ \A i \in 1 .. l : out[m + i] = tail[i]
  BY <1>4, <1>5, <1>6 DEF IsJoin
<1>8. m \in 1 .. m /\ \A i \in 1 .. h : i \in 1 .. m
  BY <1>5
<1>9. out[m] = r /\ \A i \in 1 .. h : out[i] = head[i]
  BY <1>6, <1>7, <1>8
<1> QED
  BY <1>5, <1>7, <1>9 DEF c, o, out

(* What InsertAt makes: the rules, with the new one among them.            *)
LEMMA Inserted ==
  ASSUME NEW rules \in Rules, NEW r \in Rule, NEW k \in 1 .. Len(rules) + 1
  PROVE  LET out == InsertAt(rules, k, r)
         IN /\ Len(out) = Len(rules) + 1 /\ DOMAIN out = 1 .. Len(rules) + 1
            /\ out[k] = r
            /\ \A i \in 1 .. Len(rules) : /\ i < k => out[i] = rules[i]
                                          /\ i >= k => out[i + 1] = rules[i]
<1> DEFINE a == SubSeq(rules, 1, k - 1)
           b == SubSeq(rules, k, Len(rules))
           out == (a \o <<r>>) \o b
<1>1. Len(rules) \in Nat /\ DOMAIN rules = 1 .. Len(rules) /\ rules \in Seq(Rule)
  BY DEF Rules
<1>2. InsertAt(rules, k, r) = out
  BY DEF InsertAt
<1>4. a \in Seq(Rule) /\ Len(a) = k - 1 /\ \A i \in 1 .. k - 1 : a[i] = rules[i]
  <2>1. 1 \in Nat \ {0} /\ k - 1 \in Nat /\ k - 1 <= Len(rules)
    BY <1>1
  <2>2. a \in Seq(Rule)
    BY <2>1, PartOfRules DEF Rules
  <2> QED
    BY <1>1, <2>1, <2>2
<1>5. b \in Seq(Rule) /\ Len(b) = Len(rules) - k + 1
      /\ \A i \in 1 .. Len(rules) - k + 1 : b[i] = rules[k + i - 1]
  <2>1. k \in Nat \ {0} /\ Len(rules) <= Len(rules) /\ k \in Int /\ Len(rules) \in Int
    BY <1>1
  <2>2. b \in Seq(Rule)
    BY <1>1, <2>1, PartOfRules DEF Rules
  <2>3. \A i \in k .. Len(rules) : rules[i] \in Rule
    BY <1>1, <2>1
  <2>4. /\ Len(b) = IF k <= Len(rules) THEN Len(rules) - k + 1 ELSE 0
        /\ \A i \in 1 .. Len(rules) - k + 1 : b[i] = rules[k + i - 1]
    BY <2>1, <2>3, SubSeqProperties
  <2>5. Len(b) = Len(rules) - k + 1
    <3>1. k <= Len(rules) \/ (k = Len(rules) + 1 /\ ~(k <= Len(rules)))
      BY <1>1
    <3>2. CASE k <= Len(rules)
      BY <2>4, <3>2
    <3>3. CASE k = Len(rules) + 1 /\ ~(k <= Len(rules))
      <4>1. Len(rules) - k + 1 = 0
        BY <1>1, <3>3
      <4> QED
        BY <2>4, <3>3, <4>1
    <3> QED
      BY <3>1, <3>2, <3>3
  <2> QED
    BY <2>2, <2>4, <2>5
<1> HIDE DEF a, b
<1>6. PICK m \in Nat, n \in Nat :
        m = k - 1 /\ n = Len(rules) - k + 1 /\ Len(a) = m /\ Len(b) = n
  <2>1. k - 1 \in Nat /\ Len(rules) - k + 1 \in Nat
    BY <1>1
  <2> QED
    BY <1>4, <1>5, <2>1
<1>7. /\ Len(out) = m + 1 + n
      /\ out \in Seq(Rule)
      /\ out[m + 1] = r
      /\ \A i \in 1 .. m : out[i] = a[i]
      /\ \A i \in 1 .. n : out[m + 1 + i] = b[i]
  <2>1. /\ out \in Seq(Rule) /\ Len(out) = Len(a) + 1 + Len(b)
        /\ out[Len(a) + 1] = r
        /\ \A i \in 1 .. Len(a) : out[i] = a[i]
        /\ \A i \in 1 .. Len(b) : out[Len(a) + 1 + i] = b[i]
    BY <1>4, <1>5, Spliced, Zenon
  <2> HIDE DEF out
  <2> QED
    BY <1>6, <2>1
<1> HIDE DEF out
<1>8. m + 1 = k /\ m + 1 + n = Len(rules) + 1
  BY <1>1, <1>6
<1>9. DOMAIN out = 1 .. Len(rules) + 1 /\ Len(out) = Len(rules) + 1
  BY <1>7, <1>8
<1>10. out[k] = r
  BY <1>7, <1>8
<1>11. ASSUME NEW i \in 1 .. Len(rules)
       PROVE  /\ i < k => out[i] = rules[i]
              /\ i >= k => out[i + 1] = rules[i]
  <2>1. CASE i < k
    <3>1. i \in 1 .. m /\ i \in 1 .. k - 1 /\ ~(i >= k)
      BY <1>1, <1>6, <2>1
    <3> QED
      BY <1>4, <1>7, <3>1
  <2>2. CASE i >= k
    <3>1. PICK j \in Nat : j = (i + 1) - k
      <4>1. i \in Nat /\ (i + 1) - k \in Nat
        BY <1>1, <2>2
      <4> QED
        BY <4>1
    <3>2. /\ j \in 1 .. n /\ j \in 1 .. Len(rules) - k + 1 /\ m + 1 + j = i + 1
          /\ k + j - 1 = i /\ ~(i < k)
      BY <1>1, <1>6, <2>2, <3>1
    <3>3. out[m + 1 + j] = b[j] /\ b[j] = rules[k + j - 1]
      BY <1>5, <1>7, <3>2
    <3> QED
      BY <3>2, <3>3
  <2> QED
    BY <1>1, <2>1, <2>2
<1> QED
  BY <1>2, <1>9, <1>10, <1>11

(* What RemoveAt makes: the rules without one.                             *)
LEMMA Removed ==
  ASSUME NEW rules \in Rules, NEW k \in 1 .. Len(rules)
  PROVE  LET out == RemoveAt(rules, k)
         IN /\ Len(out) = Len(rules) - 1 /\ DOMAIN out = 1 .. Len(rules) - 1
            /\ \A i \in 1 .. Len(rules) : /\ i < k => out[i] = rules[i]
                                          /\ i > k => out[i - 1] = rules[i]
<1> DEFINE a == SubSeq(rules, 1, k - 1)
           b == SubSeq(rules, k + 1, Len(rules))
           out == a \o b
<1>1. Len(rules) \in Nat /\ DOMAIN rules = 1 .. Len(rules) /\ rules \in Seq(Rule)
  BY DEF Rules
<1>2. RemoveAt(rules, k) = out
  BY DEF RemoveAt
<1>4. a \in Seq(Rule) /\ Len(a) = k - 1 /\ \A i \in 1 .. k - 1 : a[i] = rules[i]
  <2>1. 1 \in Nat \ {0} /\ k - 1 \in Nat /\ k - 1 <= Len(rules)
    BY <1>1
  <2>2. a \in Seq(Rule)
    BY <2>1, PartOfRules DEF Rules
  <2> QED
    BY <1>1, <2>1, <2>2
<1>5. b \in Seq(Rule) /\ Len(b) = Len(rules) - k
      /\ \A i \in 1 .. Len(rules) - k : b[i] = rules[k + i]
  <2>1. k + 1 \in Nat \ {0} /\ Len(rules) <= Len(rules) /\ k + 1 \in Int /\ Len(rules) \in Int
    BY <1>1
  <2>2. b \in Seq(Rule)
    BY <1>1, <2>1, PartOfRules DEF Rules
  <2>3. \A i \in k + 1 .. Len(rules) : rules[i] \in Rule
    BY <1>1, <2>1
  <2>4. /\ Len(b) = IF k + 1 <= Len(rules) THEN Len(rules) - (k + 1) + 1 ELSE 0
        /\ \A i \in 1 .. Len(rules) - (k + 1) + 1 : b[i] = rules[k + 1 + i - 1]
    BY <2>1, <2>3, SubSeqProperties
  <2>5. /\ Len(rules) - (k + 1) + 1 = Len(rules) - k
        /\ ~(k + 1 <= Len(rules)) => Len(rules) - k = 0
        /\ \A i \in 1 .. Len(rules) - k : k + 1 + i - 1 = k + i
    <3>1. PICK n \in Nat : n = Len(rules)
      BY <1>1
    <3>2. PICK j \in 1 .. n : j = k
      BY <3>1
    <3>3. /\ n - (j + 1) + 1 = n - j
          /\ ~(j + 1 <= n) => n - j = 0
          /\ \A i \in 1 .. n - j : j + 1 + i - 1 = j + i
      OBVIOUS
    <3> QED
      BY <3>1, <3>2, <3>3
  <2> QED
    BY <2>2, <2>4, <2>5
<1> HIDE DEF a, b
<1>6. IsJoin(out, a, b)
  BY <1>4, <1>5, Joined
<1>7. PICK m \in Nat, n \in Nat :
        m = k - 1 /\ n = Len(rules) - k /\ Len(a) = m /\ Len(b) = n /\ m + n = Len(rules) - 1
  <2>1. k - 1 \in Nat /\ Len(rules) - k \in Nat /\ (k - 1) + (Len(rules) - k) = Len(rules) - 1
    BY <1>1
  <2> QED
    BY <1>4, <1>5, <2>1
<1> HIDE DEF out
<1>a. /\ out \in Seq(Rule) /\ Len(out) = m + n
      /\ \A i \in 1 .. m : out[i] = a[i]
      /\ \A i \in 1 .. n : out[m + i] = b[i]
  BY <1>6, <1>7 DEF IsJoin
<1>8. DOMAIN out = 1 .. Len(rules) - 1 /\ Len(out) = Len(rules) - 1
  BY <1>7, <1>a
<1>9. ASSUME NEW i \in 1 .. Len(rules)
      PROVE  /\ i < k => out[i] = rules[i]
             /\ i > k => out[i - 1] = rules[i]
  <2>1. CASE i < k
    <3>1. i \in 1 .. m /\ i \in 1 .. k - 1 /\ ~(i > k)
      BY <1>1, <1>7, <2>1
    <3> QED
      BY <1>4, <1>a, <3>1
  <2>2. CASE i > k
    <3>1. PICK j \in Nat : j = i - k
      BY <1>1, <2>2
    <3>2. /\ j \in 1 .. n /\ j \in 1 .. Len(rules) - k /\ m + j = i - 1
          /\ k + j = i /\ ~(i < k)
      BY <1>1, <1>7, <2>2, <3>1
    <3>3. out[m + j] = b[j] /\ b[j] = rules[k + j]
      BY <1>5, <1>a, <3>2
    <3> QED
      BY <3>2, <3>3
  <2> QED
    BY <1>1, <2>1, <2>2
<1> QED
  BY <1>2, <1>8, <1>9

(* What SetAction makes: the rules, one with another action.               *)
LEMMA ActionSet ==
  ASSUME NEW rules \in Rules, NEW k \in 1 .. Len(rules), NEW action
  PROVE  LET out == SetAction(rules, k, action)
         IN /\ DOMAIN out = DOMAIN rules
            /\ out[k].tools = rules[k].tools /\ out[k].cond = rules[k].cond
            /\ out[k].action = action
            /\ \A i \in DOMAIN rules \ {k} : out[i] = rules[i]
<1>1. k \in DOMAIN rules /\ rules[k] \in Rule
  BY DEF Rules
<1>2. DOMAIN rules[k] = {"tools", "cond", "action", "marked"}
  BY <1>1 DEF Rule
<1> QED
  BY <1>1, <1>2 DEF SetAction

-----------------------------------------------------------------------------
(* An edit decides *)

(* Two sets of policies that differ in the rules of one policy only.       *)
DifferIn(P, Q, p) ==
  /\ P \in PolicySet /\ Q \in PolicySet /\ p \in DOMAIN P /\ DOMAIN Q = DOMAIN P
  /\ \A j \in DOMAIN P : Q[j].agent = P[j].agent /\ Q[j].source = P[j].source
  /\ \A j \in DOMAIN P \ {p} : Q[j].rules = P[j].rules

(* An edit of a file is of this kind.                                      *)
LEMMA EditIsInOneFile ==
  ASSUME NEW t \in [File -> Rules], NEW u \in [File -> Rules], NEW f \in File,
         \A g \in File \ {f} : u[g] = t[g]
  PROVE  LET P == Policies(t)
             Q == Policies(u)
             p == Len(Inline) + f
         IN /\ DifferIn(P, Q, p)
            /\ P[p].rules = t[f] /\ Q[p].rules = u[f]
            /\ P[p].agent = AgentOf[f] /\ P[p].source = f
            /\ \A j \in DOMAIN P : P[j].source = f => j = p
<1> DEFINE P == Policies(t)
           Q == Policies(u)
           p == Len(Inline) + f
<1>2. P \in PolicySet /\ Q \in PolicySet
  BY ReadIsPolicySet
<1>3. /\ DOMAIN P = 1 .. Len(P) /\ Len(P) = Len(Inline) + Cardinality(File)
      /\ \A g \in File : g \in Nat \ {0} /\ Len(Inline) + g \in DOMAIN P
      /\ \A g \in File : P[Len(Inline) + g] = [agent |-> AgentOf[g], source |-> g, rules |-> t[g]]
      /\ \A j \in DOMAIN P : \/ j \in DOMAIN Inline /\ j <= Len(Inline) /\ P[j] = Inline[j]
                             \/ j - Len(Inline) \in File
      /\ Len(Inline) \in Nat
  BY PoliciesAreFiles
<1>4. /\ DOMAIN Q = 1 .. Len(Q) /\ Len(Q) = Len(Inline) + Cardinality(File)
      /\ \A g \in File : Q[Len(Inline) + g] = [agent |-> AgentOf[g], source |-> g, rules |-> u[g]]
      /\ \A j \in DOMAIN Q : \/ j \in DOMAIN Inline /\ j <= Len(Inline) /\ Q[j] = Inline[j]
                             \/ j - Len(Inline) \in File
  BY PoliciesAreFiles
<1>5. DOMAIN Q = DOMAIN P
  BY <1>3, <1>4
<1>6. \A j \in DOMAIN P : j \in Nat
  BY <1>3
<1>7. \A j \in DOMAIN Inline : Inline[j].source = 0
  <2> DEFINE T == [agent : Fits, source : {0}, rules : Rules]
  <2>1. Inline \in Seq(T)
    BY FileConstants
  <2> HIDE DEF T
  <2>2. \A j \in DOMAIN Inline : Inline[j] \in T
    BY <2>1
  <2> QED
    BY <2>2 DEF T
<1> HIDE DEF P, Q
<1>8. ASSUME NEW j \in DOMAIN P
      PROVE  /\ Q[j].agent = P[j].agent /\ Q[j].source = P[j].source
             /\ j # p => Q[j].rules = P[j].rules
             /\ P[j].source = f => j = p
  <2>1. CASE j - Len(Inline) \in File
    <3>1. PICK g \in File : g = j - Len(Inline)
      BY <2>1
    <3>2. j = Len(Inline) + g
      BY <1>3, <1>6, <3>1
    <3>3. /\ P[j] = [agent |-> AgentOf[g], source |-> g, rules |-> t[g]]
          /\ Q[j] = [agent |-> AgentOf[g], source |-> g, rules |-> u[g]]
      BY <1>3, <1>4, <3>2
    <3>4. j # p => g # f
      BY <3>2
    <3> QED
      BY <3>2, <3>3, <3>4
  <2>2. CASE ~(j - Len(Inline) \in File)
    <3>1. P[j] = Inline[j] /\ Q[j] = Inline[j] /\ j \in DOMAIN Inline
      BY <1>3, <1>4, <1>5, <2>2
    <3>2. P[j].source = 0 /\ f # 0
      BY <1>3, <1>7, <3>1
    <3> QED
      BY <3>1, <3>2
  <2> QED
    BY <2>1, <2>2
<1>9. /\ p \in DOMAIN P
      /\ P[p] = [agent |-> AgentOf[f], source |-> f, rules |-> t[f]]
      /\ Q[p] = [agent |-> AgentOf[f], source |-> f, rules |-> u[f]]
  BY <1>3, <1>4
<1> HIDE DEF p
<1>10. DifferIn(P, Q, p)
  BY <1>2, <1>5, <1>8, <1>9 DEF DifferIn
<1> QED
  BY <1>8, <1>9, <1>10 DEF P, Q, p

(* A place whose rule matches is one of those reached.                     *)
LEMMA PlaceReached ==
  ASSUME NEW P \in PolicySet, NEW tool, NEW p \in DOMAIN P, NEW i \in DOMAIN P[p].rules
  PROVE  <<p, i>> \in Reached(P, tool) <=> tool \in P[p].rules[i].tools
<1>1. ASSUME tool \in P[p].rules[i].tools PROVE <<p, i>> \in Reached(P, tool)
  BY <1>1 DEF Reached
<1>2. ASSUME <<p, i>> \in Reached(P, tool) PROVE tool \in P[p].rules[i].tools
  BY <1>2, ReachedPlaces DEF RuleAt
<1> QED
  BY <1>1, <1>2

(* Below rule k of policy p two sets have the same rules.                  *)
AgreeBelow(P, Q, p, k) ==
  \A i \in Nat : i < k => /\ i \in DOMAIN Q[p].rules <=> i \in DOMAIN P[p].rules
                          /\ i \in DOMAIN P[p].rules => Q[p].rules[i] = P[p].rules[i]

(* Rules that come before a place of the policy in which two sets differ,  *)
(* and below which they do not, are the same ones in both.                 *)
LEMMA SameBefore ==
  ASSUME NEW P, NEW Q, NEW p, DifferIn(P, Q, p), NEW k \in Nat, NEW tool,
         AgreeBelow(P, Q, p, k),
         NEW x
  PROVE  /\ x \in Reached(P, tool) /\ Before(P, x, <<p, k>>) =>
              x \in Reached(Q, tool) /\ Before(Q, x, <<p, k>>)
         /\ x \in Reached(Q, tool) /\ Before(Q, x, <<p, k>>) =>
              x \in Reached(P, tool) /\ Before(P, x, <<p, k>>)
         /\ x \in Reached(P, tool) /\ Before(P, x, <<p, k>>) =>
              RuleAt(Q, x) = RuleAt(P, x) /\ Deciding(Q, x) = Deciding(P, x)
<1>1. P \in PolicySet /\ Q \in PolicySet /\ p \in DOMAIN P /\ DOMAIN Q = DOMAIN P
  BY DEF DifferIn
<1>2. ASSUME NEW A, NEW B, (A = P /\ B = Q) \/ (A = Q /\ B = P),
             x \in Reached(A, tool), Before(A, x, <<p, k>>)
      PROVE  /\ x \in Reached(B, tool) /\ Before(B, x, <<p, k>>)
             /\ RuleAt(B, x) = RuleAt(A, x) /\ Deciding(B, x) = Deciding(A, x)
  <2>1. /\ A \in PolicySet /\ B \in PolicySet /\ p \in DOMAIN A /\ DOMAIN B = DOMAIN A
        /\ \A j \in DOMAIN A : B[j].agent = A[j].agent /\ B[j].source = A[j].source
        /\ \A j \in DOMAIN A \ {p} : B[j].rules = A[j].rules
        /\ \A i \in Nat : i < k => /\ i \in DOMAIN B[p].rules <=> i \in DOMAIN A[p].rules
                                   /\ i \in DOMAIN A[p].rules => B[p].rules[i] = A[p].rules[i]
    BY <1>1, <1>2 DEF DifferIn, AgreeBelow
  <2>2. /\ x = <<x[1], x[2]>> /\ x[1] \in DOMAIN A /\ x[1] \in Nat
        /\ x[2] \in DOMAIN A[x[1]].rules /\ x[2] \in Nat
        /\ tool \in A[x[1]].rules[x[2]].tools
    BY <1>2, <2>1, ReachedPlaces DEF RuleAt
  <2>3. Before(B, x, <<p, k>>)
    BY <1>2, <2>1, <2>2 DEF Before
  <2>4. x[1] = p => x[2] < k
    <3> SUFFICES ASSUME x[1] = p PROVE x[2] < k
      OBVIOUS
    <3>1. A[p].agent \in 0 .. 2 /\ p \in Nat
      BY <1>2, <2>1, <2>2, ReachedPlaces DEF Fits, Exact, Partial, CatchAll
    <3> QED
      BY <1>2, <3>1 DEF Before
  <2>5. x[2] \in DOMAIN B[x[1]].rules /\ B[x[1]].rules[x[2]] = A[x[1]].rules[x[2]]
    BY <2>1, <2>2, <2>4
  <2>6. x \in Reached(B, tool)
    <3>1. <<x[1], x[2]>> \in Reached(B, tool)
      BY <2>1, <2>2, <2>5, PlaceReached
    <3> QED
      BY <2>2, <3>1
  <2>7. RuleAt(B, x) = RuleAt(A, x)
    BY <2>5 DEF RuleAt
  <2> QED
    BY <2>1, <2>2, <2>3, <2>6, <2>7 DEF Deciding
<1> QED
  BY <1>2

(* A rule before place c that decides in P decides in Q.                   *)
Applying(P, tool, met) ==
  {x \in Reached(P, tool) : RuleAt(P, x).cond => <<P[x[1]].source, x[2]>> \in met}
KeepsSay(P, Q, tool, c) ==
  \A met, e :
    /\ e \in Reached(P, tool) /\ Before(P, e, c)
    /\ <<P[e[1]].source, e[2]>> \in met
    /\ Evaluate(P, tool, met) = Deciding(P, e)
    /\ e = First(P, Applying(P, tool, met))
    => Evaluate(Q, tool, met) = Evaluate(P, tool, met)

(* A rule without a condition, before which the sets agree and none        *)
(* without a condition comes, decides unless a condition holds; a          *)
(* conditional rule before it keeps its say.                               *)
LEMMA NewRuleDecides ==
  ASSUME NEW P, NEW Q, NEW p, DifferIn(P, Q, p), NEW k \in Nat, NEW tool,
         AgreeBelow(P, Q, p, k),
         <<p, k>> \in Reached(Q, tool), ~RuleAt(Q, <<p, k>>).cond,
         \A x \in Reached(P, tool) : Before(P, x, <<p, k>>) => RuleAt(P, x).cond
  PROVE  /\ Evaluate(Q, tool, {}) = Deciding(Q, <<p, k>>)
         /\ KeepsSay(P, Q, tool, <<p, k>>)
<1> DEFINE c == <<p, k>>
           A(met) == {x \in Reached(P, tool) :
                        RuleAt(P, x).cond => <<P[x[1]].source, x[2]>> \in met}
           B(met) == {x \in Reached(Q, tool) :
                        RuleAt(Q, x).cond => <<Q[x[1]].source, x[2]>> \in met}
<1>1. /\ P \in PolicySet /\ Q \in PolicySet
      /\ \A j \in DOMAIN P : Q[j].source = P[j].source
  BY DEF DifferIn
<1>2. \A met : Evaluate(Q, tool, met) = Decided(Q, B(met))
  BY DEF Evaluate
<1>3. \A x : /\ x \in Reached(P, tool) /\ Before(P, x, c) => x \in Reached(Q, tool) /\ Before(Q, x, c)
             /\ x \in Reached(Q, tool) /\ Before(Q, x, c) => x \in Reached(P, tool) /\ Before(P, x, c)
             /\ x \in Reached(P, tool) /\ Before(P, x, c) =>
                  RuleAt(Q, x) = RuleAt(P, x) /\ Deciding(Q, x) = Deciding(P, x)
  BY SameBefore
<1>4. \A met : B(met) # {} =>
        /\ First(Q, B(met)) \in B(met)
        /\ \A y \in B(met) : y # First(Q, B(met)) => Before(Q, First(Q, B(met)), y)
  <2> SUFFICES ASSUME NEW met, B(met) # {}
               PROVE  /\ First(Q, B(met)) \in B(met)
                      /\ \A y \in B(met) : y # First(Q, B(met)) => Before(Q, First(Q, B(met)), y)
    OBVIOUS
  <2>1. B(met) \in SUBSET Reached(Q, tool)
    OBVIOUS
  <2> HIDE DEF B
  <2> QED
    BY <1>1, <2>1, FirstIsFirst
<1> HIDE DEF c
<1>5. Evaluate(Q, tool, {}) = Deciding(Q, c)
  <2> DEFINE g == First(Q, B({}))
  <2>1. c \in B({})
    BY DEF c
  <2>b. \A x \in B({}) : x \in Reached(Q, tool) /\ ~RuleAt(Q, x).cond
    OBVIOUS
  <2> HIDE DEF B
  <2>2. g \in B({}) /\ (g # c => Before(Q, g, c))
    BY <1>4, <2>1
  <2> HIDE DEF g
  <2>3. g \in Reached(Q, tool) /\ ~RuleAt(Q, g).cond
    BY <2>2, <2>b
  <2>4. g = c
    <3> SUFFICES ASSUME g # c PROVE FALSE
      OBVIOUS
    <3>1. g \in Reached(P, tool) /\ Before(P, g, c) /\ RuleAt(Q, g) = RuleAt(P, g)
      BY <1>3, <2>2, <2>3
    <3> QED
      BY <2>3, <3>1 DEF c
  <2> QED
    BY <1>2, <2>1, <2>4, Zenon DEF Decided, g
<1>6. ASSUME NEW met, NEW e,
             e \in Reached(P, tool), Before(P, e, c),
             <<P[e[1]].source, e[2]>> \in met,
             Evaluate(P, tool, met) = Deciding(P, e),
             e = First(P, A(met))
      PROVE  Evaluate(Q, tool, met) = Evaluate(P, tool, met)
  <2> DEFINE g == First(Q, B(met))
  <2>1. e \in Reached(Q, tool) /\ Before(Q, e, c) /\ RuleAt(Q, e) = RuleAt(P, e)
        /\ Deciding(Q, e) = Deciding(P, e)
    BY <1>3, <1>6
  <2>2. e[1] \in DOMAIN P
    BY <1>1, <1>6, ReachedPlaces
  <2>3. e \in B(met)
    BY <1>1, <1>6, <2>1, <2>2
  <2>4. g \in B(met) /\ (e # g => Before(Q, g, e)) /\ g \in Reached(Q, tool)
    BY <1>4, <2>3
  <2>5. e \in A(met)
    BY <1>6
  <2>6. \A y \in A(met) : y # e => Before(P, e, y)
    <3>1. A(met) \in SUBSET Reached(P, tool) /\ A(met) # {}
      BY <2>5
    <3> HIDE DEF A
    <3> QED
      BY <1>1, <1>6, <3>1, FirstIsFirst
  <2>7. \A x : x \in Reached(Q, tool) /\ Before(Q, x, c) /\ x \in B(met) => x \in A(met)
    <3> SUFFICES ASSUME NEW x, x \in Reached(Q, tool), Before(Q, x, c), x \in B(met)
                 PROVE  x \in A(met)
      OBVIOUS
    <3>1. x \in Reached(P, tool) /\ RuleAt(Q, x) = RuleAt(P, x)
      BY <1>3
    <3>2. x[1] \in DOMAIN P
      BY <1>1, <3>1, ReachedPlaces
    <3> QED
      BY <1>1, <3>1, <3>2
  <2> HIDE DEF g, B, A
  <2>8. e = g
    <3> SUFFICES ASSUME e # g PROVE FALSE
      OBVIOUS
    <3>1. Before(Q, g, e)
      BY <2>4
    <3>2. c \in Reached(Q, tool)
      BY DEF c
    <3>3. Before(Q, g, c)
      BY <1>1, <2>1, <2>4, <3>1, <3>2, PlacesAreOrdered
    <3>4. Before(P, e, g)
      BY <2>4, <2>6, <2>7, <3>3
    <3>5. /\ e[1] \in DOMAIN P /\ g[1] \in DOMAIN P
          /\ g \in Reached(P, tool)
      BY <1>1, <1>3, <1>6, <2>4, <3>3, ReachedPlaces
    <3>6. ~Before(P, g, e)
      BY <1>1, <1>6, <3>4, <3>5, PlacesAreOrdered
    <3>7. \A j \in DOMAIN P : Q[j].agent = P[j].agent
      BY DEF DifferIn
    <3> QED
      BY <3>1, <3>5, <3>6, <3>7 DEF Before
  <2>9. Evaluate(Q, tool, met) = Deciding(Q, e)
    BY <1>2, <2>3, <2>8, Zenon DEF Decided, g
  <2> QED
    BY <1>6, <2>1, <2>9
<1> QED
  BY <1>5, <1>6 DEF c, KeepsSay, Applying

(* The first rule without a condition that matches a tool.                 *)
Always(P, tool) == {x \in Reached(P, tool) : ~RuleAt(P, x).cond}

(* It is the one Explain tells, and comes before all of its kind.          *)
LEMMA FirstAlways ==
  ASSUME NEW P \in PolicySet, NEW tool
  PROVE  /\ Explain(P, tool).decided = Decided(P, Always(P, tool))
         /\ Always(P, tool) # {} =>
              /\ First(P, Always(P, tool)) \in Always(P, tool)
              /\ \A x \in Always(P, tool) :
                   x # First(P, Always(P, tool)) => Before(P, First(P, Always(P, tool)), x)
<1>1. Explain(P, tool).decided = Decided(P, Always(P, tool))
  BY DEF Explain, Always
<1>2. Always(P, tool) \in SUBSET Reached(P, tool)
  BY DEF Always
<1> QED
  BY <1>1, <1>2, FirstIsFirst

(* Where an edit puts its action: at a rule k of the file such that what   *)
(* was before it stays, and nothing unconditional comes before it.         *)
Puts(P, p, tool, action, out, k) ==
  LET rules == P[p].rules IN
  /\ k \in Nat
  /\ \A i \in Nat : i < k => /\ i \in DOMAIN out <=> i \in DOMAIN rules
                             /\ i \in DOMAIN rules => out[i] = rules[i]
  /\ k \in DOMAIN out /\ tool \in out[k].tools /\ ~out[k].cond /\ out[k].action = action
  /\ \A x \in Reached(P, tool) : Before(P, x, <<p, k>>) => RuleAt(P, x).cond
  /\ \/ \A i \in DOMAIN rules : i < k
     \/ k \in DOMAIN rules /\ tool \in rules[k].tools /\ ~rules[k].cond

(* A new rule put at k leaves what is before it.                           *)
LEMMA InsertedRule ==
  ASSUME NEW rules \in Rules, NEW tool \in Tool, NEW action \in Action, NEW at \in Nat,
         NEW k \in 1 .. Len(rules) + 1,
         \/ at \in DOMAIN rules /\ k = at
         \/ at \notin DOMAIN rules /\ k = Len(rules) + 1
  PROVE  LET out == InsertRule(rules, tool, action, at)
         IN /\ \A i \in Nat : i < k => /\ i \in DOMAIN out <=> i \in DOMAIN rules
                                       /\ i \in DOMAIN rules => out[i] = rules[i]
            /\ k \in DOMAIN out /\ tool \in out[k].tools /\ ~out[k].cond
            /\ out[k].action = action
<1> DEFINE r == [tools |-> {tool}, cond |-> FALSE, action |-> action, marked |-> TRUE]
           out == InsertAt(rules, k, r)
<1>1. r \in Rule /\ tool \in r.tools /\ ~r.cond /\ r.action = action
  BY DEF Rule
<1>2. InsertRule(rules, tool, action, at) = out
  BY DEF InsertRule
<1> HIDE DEF r
<1>3. /\ DOMAIN out = 1 .. Len(rules) + 1 /\ out[k] = r
      /\ \A i \in 1 .. Len(rules) : i < k => out[i] = rules[i]
  BY <1>1, Inserted
<1>4. Len(rules) \in Nat /\ DOMAIN rules = 1 .. Len(rules)
  BY DEF Rules
<1> HIDE DEF out
<1>5. \A i \in Nat : i < k => (i \in 1 .. Len(rules) + 1 <=> i \in 1 .. Len(rules))
  BY <1>4
<1>6. k \in DOMAIN out
  BY <1>3
<1> QED
  BY <1>1, <1>2, <1>3, <1>4, <1>5, <1>6

(* A set rule stays where it is and leaves the others.                     *)
LEMMA SetRule ==
  ASSUME NEW rules \in Rules, NEW tool \in Tool, NEW action \in Action,
         NEW k \in 1 .. Len(rules),
         tool \in rules[k].tools, ~rules[k].cond
  PROVE  LET out == SetAction(rules, k, action)
         IN /\ \A i \in Nat : i < k => /\ i \in DOMAIN out <=> i \in DOMAIN rules
                                       /\ i \in DOMAIN rules => out[i] = rules[i]
            /\ k \in DOMAIN out /\ tool \in out[k].tools /\ ~out[k].cond
            /\ out[k].action = action
<1> DEFINE out == SetAction(rules, k, action)
<1>1. /\ DOMAIN out = DOMAIN rules
      /\ out[k].tools = rules[k].tools /\ out[k].cond = rules[k].cond
      /\ out[k].action = action
      /\ \A i \in DOMAIN rules \ {k} : out[i] = rules[i]
  BY ActionSet
<1>2. k \in DOMAIN rules /\ k \in Nat /\ \A i \in Nat : i < k => i # k
  BY DEF Rules
<1> HIDE DEF out
<1> QED
  BY <1>1, <1>2 DEF out

(* The policies of an exact fit that are not inline are files of the       *)
(* agent; if none of the inline ones fits exactly, all are.                *)
NoInlineOfTheAgent == \A p \in DOMAIN Inline : Inline[p].agent # Exact

LEMMA ExactIsFile ==
  ASSUME NoInlineOfTheAgent, NEW t, NEW j \in DOMAIN Policies(t), Policies(t)[j].agent = Exact
  PROVE  Policies(t)[j].source # 0
<1>1. CASE j \in DOMAIN Inline /\ Policies(t)[j] = Inline[j]
  BY <1>1 DEF NoInlineOfTheAgent
<1>2. CASE j - Len(Inline) \in File
  <2>1. PICK g \in File : g = j - Len(Inline)
    BY <1>2
  <2>2. j = Len(Inline) + g
    BY <2>1, SourcesAreFiles, PoliciesAreFiles
  <2>3. Policies(t)[Len(Inline) + g] = [agent |-> AgentOf[g], source |-> g, rules |-> t[g]]
        /\ g \in Nat \ {0}
    BY PoliciesAreFiles
  <2> QED
    BY <2>2, <2>3
<1> QED
  BY <1>1, <1>2, PoliciesAreFiles

(* An edit puts its action where it decides, if the first rule without a   *)
(* condition is in a file of the agent.                                    *)
LEMMA EditAtDecidingRule ==
  ASSUME NEW P \in PolicySet, NEW tool \in Tool, NEW action \in Action, action # "inherit",
         NEW p, NEW k, <<p, k>> \in Always(P, tool), <<p, k>> = First(P, Always(P, tool)),
         P[p].rules \in Rules
  PROVE  Puts(P, p, tool, action, Edited(P[p].rules, tool, action, k), k)
<1> DEFINE rules == P[p].rules
           exact == ExactRule(rules, tool)
<1>1. /\ p \in DOMAIN P /\ p \in Nat /\ k \in DOMAIN rules /\ k \in Nat
      /\ tool \in rules[k].tools /\ ~rules[k].cond /\ P[p].agent \in 0 .. 2
  <2>1. <<p, k>> \in Reached(P, tool) /\ ~RuleAt(P, <<p, k>>).cond
    BY DEF Always
  <2> QED
    BY <2>1, ReachedPlaces DEF RuleAt, Fits, Exact, Partial, CatchAll
<1>2. \A x \in Always(P, tool) : x # <<p, k>> => Before(P, <<p, k>>, x)
  BY FirstAlways
<1>3. \A x \in Reached(P, tool) : Before(P, x, <<p, k>>) => RuleAt(P, x).cond
  <2> SUFFICES ASSUME NEW x \in Reached(P, tool), Before(P, x, <<p, k>>), ~RuleAt(P, x).cond
               PROVE  FALSE
    OBVIOUS
  <2>1. x \in Always(P, tool) /\ <<p, k>> \in Reached(P, tool)
    BY DEF Always
  <2> QED
    BY <1>2, <2>1, PlacesAreOrdered
<1>4. DOMAIN rules = 1 .. Len(rules) /\ Len(rules) \in Nat
  BY DEF Rules
<1>5. exact # 0 => exact \in DOMAIN rules /\ IsExact(rules[exact], tool)
  BY <1>4, RulesAreFound
<1>6. exact # 0 /\ exact <= k => exact = k
  <2> SUFFICES ASSUME exact # 0, exact <= k, exact # k PROVE FALSE
    OBVIOUS
  <2>1. tool \in rules[exact].tools /\ ~rules[exact].cond /\ exact \in DOMAIN rules
    BY <1>5 DEF IsExact
  <2> HIDE DEF exact
  <2>2. <<p, exact>> \in Always(P, tool)
    BY <1>1, <2>1, PlaceReached DEF Always, RuleAt
  <2>3. <<p, exact>> # <<p, k>>
    OBVIOUS
  <2>4. Before(P, <<p, k>>, <<p, exact>>)
    BY <1>2, <2>2, <2>3
  <2>5. exact \in Nat
    BY <1>4, <2>1
  <2> QED
    BY <1>1, <2>4, <2>5 DEF Before
<1>7. k # 0 /\ k \in 1 .. Len(rules) /\ k \in 1 .. Len(rules) + 1
  BY <1>1, <1>4
<1>8. CASE exact # 0 /\ exact <= k
  <2>1. Edited(rules, tool, action, k) = SetAction(rules, k, action)
    BY <1>6, <1>8 DEF Edited
  <2> HIDE DEF exact, rules
  <2>2. LET out == SetAction(rules, k, action)
        IN /\ \A i \in Nat : i < k => /\ i \in DOMAIN out <=> i \in DOMAIN rules
                                      /\ i \in DOMAIN rules => out[i] = rules[i]
           /\ k \in DOMAIN out /\ tool \in out[k].tools /\ ~out[k].cond
           /\ out[k].action = action
    <3>1. rules \in Rules
      BY DEF rules
    <3>2. k \in 1 .. Len(rules) /\ tool \in rules[k].tools /\ ~rules[k].cond
      BY <1>1, <1>7
    <3> QED
      BY <3>1, <3>2, SetRule
  <2> QED
    BY <1>1, <1>3, <2>1, <2>2 DEF Puts, rules
<1>9. CASE ~(exact # 0 /\ exact <= k)
  <2>1. Edited(rules, tool, action, k) = InsertRule(rules, tool, action, k)
    BY <1>7, <1>9 DEF Edited
  <2> HIDE DEF exact, rules
  <2>2. LET out == InsertRule(rules, tool, action, k)
        IN /\ \A i \in Nat : i < k => /\ i \in DOMAIN out <=> i \in DOMAIN rules
                                      /\ i \in DOMAIN rules => out[i] = rules[i]
           /\ k \in DOMAIN out /\ tool \in out[k].tools /\ ~out[k].cond
           /\ out[k].action = action
    BY <1>1, <1>7, InsertedRule DEF rules
  <2> QED
    BY <1>1, <1>3, <2>1, <2>2 DEF Puts, rules
<1> QED
  BY <1>8, <1>9

(* And at the end of a file of the agent, if nothing without a condition   *)
(* is in a policy that fits exactly.                                       *)
LEMMA EditAtEnd ==
  ASSUME NEW P \in PolicySet, NEW tool \in Tool, NEW action \in Action, action # "inherit",
         NEW p \in DOMAIN P, P[p].agent = Exact, P[p].rules \in Rules,
         \A x \in Always(P, tool) : P[x[1]].agent # Exact
  PROVE  Puts(P, p, tool, action, Edited(P[p].rules, tool, action, 0), Len(P[p].rules) + 1)
<1> DEFINE rules == P[p].rules
           exact == ExactRule(rules, tool)
           k == Len(rules) + 1
<1>1. DOMAIN rules = 1 .. Len(rules) /\ Len(rules) \in Nat
  BY DEF Rules
<1>2. exact = 0
  <2> SUFFICES ASSUME exact # 0 PROVE FALSE
    OBVIOUS
  <2>1. exact \in DOMAIN rules /\ IsExact(rules[exact], tool)
    BY <1>1, RulesAreFound
  <2> HIDE DEF exact
  <2>2. <<p, exact>> \in Always(P, tool)
    BY <2>1, PlaceReached DEF Always, RuleAt, IsExact
  <2> QED
    BY <2>2
<1>3. Edited(rules, tool, action, 0) = InsertRule(rules, tool, action, 0)
  BY <1>2 DEF Edited
<1>4. \A x \in Reached(P, tool) : Before(P, x, <<p, k>>) => RuleAt(P, x).cond
  <2> SUFFICES ASSUME NEW x \in Reached(P, tool), Before(P, x, <<p, k>>), ~RuleAt(P, x).cond
               PROVE  FALSE
    OBVIOUS
  <2>1. x \in Always(P, tool)
    BY DEF Always
  <2>2. P[x[1]].agent \in 0 .. 2 /\ P[x[1]].agent # 2
    BY <2>1, ReachedPlaces DEF Fits, Exact, Partial, CatchAll
  <2> QED
    BY <2>2 DEF Before, Exact
<1>5. k \in Nat /\ k \in 1 .. Len(rules) + 1 /\ 0 \notin DOMAIN rules /\ 0 \in Nat
      /\ \A i \in DOMAIN rules : i < k
  BY <1>1
<1>6. LET out == InsertRule(rules, tool, action, 0)
      IN /\ \A i \in Nat : i < k => /\ i \in DOMAIN out <=> i \in DOMAIN rules
                                    /\ i \in DOMAIN rules => out[i] = rules[i]
         /\ k \in DOMAIN out /\ tool \in out[k].tools /\ ~out[k].cond
         /\ out[k].action = action
  BY <1>5, InsertedRule
<1> HIDE DEF exact, rules, k
<1>7. Puts(P, p, tool, action, Edited(rules, tool, action, 0), k)
  BY <1>3, <1>4, <1>5, <1>6 DEF Puts, rules
<1> QED
  BY <1>7 DEF k, rules

(* An accepted edit of the files puts its action where it decides.         *)
LEMMA EditPuts ==
  ASSUME NoInlineOfTheAgent, NEW t \in [File -> Rules], NEW tool \in Tool,
         NEW action \in Action, action # "inherit",
         Place(Policies(t), tool).file # 0
  PROVE  LET place == Place(Policies(t), tool)
             p == Len(Inline) + place.file
         IN \E k : Puts(Policies(t), p, tool, action,
                        Edited(t[place.file], tool, action, place.at), k)
<1> DEFINE P == Policies(t)
           place == Place(P, tool)
           f == place.file
           p == Len(Inline) + f
           d == Explain(P, tool).decided
           a == First(P, Always(P, tool))
           own == {j \in DOMAIN P : P[j].agent = Exact /\ P[j].source # 0}
<1>1. P \in PolicySet
  BY ReadIsPolicySet
<1>2. place = IF d.source # 0 /\ d.agent = Exact THEN [file |-> d.source, at |-> d.at]
              ELSE [file |-> IF own = {} THEN 0 ELSE P[Min(own)].source, at |-> 0]
  BY DEF Place
<1>3. f \in File
  BY PlaceIsInFile
<1>4. /\ P[p].rules = t[f] /\ p \in DOMAIN P
      /\ P[p].agent = AgentOf[f] /\ P[p].source = f
      /\ \A j \in DOMAIN P : P[j].source = f => j = p
  <2> HIDE DEF place
  <2> QED
    BY <1>3, EditIsInOneFile DEF DifferIn
<1>5. t[f] \in Rules
  BY <1>3
<1>6. \A j \in DOMAIN P : P[j].agent = Exact => P[j].source # 0
  BY ExactIsFile
<1>7. \A j \in DOMAIN P : j \in Nat
  BY SourcesAreFiles
<1> HIDE DEF P
<1>8. /\ d = Decided(P, Always(P, tool))
      /\ Always(P, tool) # {} =>
           /\ a \in Always(P, tool)
           /\ \A x \in Always(P, tool) : x # a => Before(P, a, x)
  BY <1>1, FirstAlways
<1>9. Always(P, tool) # {} => d = Deciding(P, a)
  BY <1>8 DEF Decided
<1>10. Always(P, tool) = {} => d.source = 0
  BY <1>8 DEF Decided, Default
<1>11. \A x \in Always(P, tool) : /\ x = <<x[1], x[2]>> /\ x[1] \in DOMAIN P
                                  /\ P[x[1]].agent \in 0 .. 2
  BY <1>1, ReachedPlaces DEF Always, Fits, Exact, Partial, CatchAll
<1> HIDE DEF d, a, place, p
<1>12. CASE d.source # 0 /\ d.agent = Exact
  <2>1. f = d.source /\ place.at = d.at
    BY <1>2, <1>12
  <2>2. a \in Always(P, tool) /\ d = Deciding(P, a)
    BY <1>8, <1>9, <1>10, <1>12
  <2>3. f = P[a[1]].source /\ place.at = a[2]
    BY <2>1, <2>2 DEF Deciding
  <2>4. a = <<p, place.at>>
    BY <1>4, <1>11, <2>2, <2>3
  <2>5. Puts(P, p, tool, action, Edited(P[p].rules, tool, action, place.at), place.at)
    BY <1>1, <1>4, <1>5, <2>2, <2>4, EditAtDecidingRule DEF a
  <2> QED
    BY <1>4, <2>5 DEF P, place, p
<1>13. CASE ~(d.source # 0 /\ d.agent = Exact)
  <2>1. place.at = 0 /\ own # {} /\ f = P[Min(own)].source
    BY <1>2, <1>13 DEF place, P
  <2>2. Min(own) \in own
    <3>1. own \in SUBSET Nat
      BY <1>7
    <3> HIDE DEF own
    <3>2. \E x \in own : \A y \in own : x <= y
      BY <2>1, <3>1, Least
    <3> QED
      BY <3>2 DEF Min
  <2>3. P[p].agent = Exact
    BY <1>4, <2>1, <2>2
  <2>4. \A x \in Always(P, tool) : P[x[1]].agent # Exact
    <3> SUFFICES ASSUME NEW x \in Always(P, tool), P[x[1]].agent = Exact PROVE FALSE
      OBVIOUS
    <3>1. a \in Always(P, tool) /\ d = Deciding(P, a) /\ (x = a \/ Before(P, a, x))
      BY <1>8, <1>9
    <3>2. P[a[1]].agent = Exact
      BY <1>11, <3>1 DEF Before, Exact
    <3>3. d.agent = Exact /\ d.source = P[a[1]].source
      BY <3>1, <3>2 DEF Deciding
    <3> QED
      BY <1>6, <1>11, <1>13, <3>1, <3>2, <3>3
  <2>5. Puts(P, p, tool, action, Edited(P[p].rules, tool, action, 0), Len(P[p].rules) + 1)
    BY <1>1, <1>4, <1>5, <2>3, <2>4, EditAtEnd
  <2> QED
    BY <1>4, <2>1, <2>5 DEF P, place, p
<1> QED
  BY <1>12, <1>13

(* An accepted edit decides, and the conditional rules above it keep their *)
(* say.                                                                    *)
LEMMA EditSettles ==
  ASSUME NEW t \in [File -> Rules], NEW tool \in Tool, NEW action \in Action,
         NEW f \in File, NEW out \in Rules, NEW k,
         Puts(Policies(t), Len(Inline) + f, tool, action, out, k),
         NEW met \in SUBSET Conditions(t)
  PROVE  LET u == [t EXCEPT ![f] = out]
             was == Evaluate(Policies(t), tool, met)
         IN /\ Evaluate(Policies(u), tool, {}).action = action
            /\ <<was.source, was.at>> \in met /\ was.source = f =>
                 Evaluate(Policies(u), tool, met) = was
<1> DEFINE u == [t EXCEPT ![f] = out]
           P == Policies(t)
           Q == Policies(u)
           p == Len(Inline) + f
           was == Evaluate(P, tool, met)
           A == Applying(P, tool, met)
           e == First(P, A)
<1>1. /\ DifferIn(P, Q, p) /\ P[p].rules = t[f] /\ Q[p].rules = out
      /\ P[p].source = f /\ \A j \in DOMAIN P : P[j].source = f => j = p
  <2>1. u \in [File -> Rules] /\ u[f] = out /\ \A g \in File \ {f} : u[g] = t[g]
    OBVIOUS
  <2> HIDE DEF u
  <2> QED
    BY <2>1, EditIsInOneFile
<1> HIDE DEF P, Q, p
<1>2. /\ P \in PolicySet /\ Q \in PolicySet /\ p \in DOMAIN P /\ DOMAIN Q = DOMAIN P
  BY <1>1 DEF DifferIn
<1>3. Puts(P, p, tool, action, out, k)
  BY DEF P, p
<1>4. /\ k \in Nat
      /\ \A i \in Nat : i < k => /\ i \in DOMAIN Q[p].rules <=> i \in DOMAIN P[p].rules
                                 /\ i \in DOMAIN P[p].rules => Q[p].rules[i] = P[p].rules[i]
      /\ k \in DOMAIN out /\ tool \in out[k].tools /\ ~out[k].cond /\ out[k].action = action
      /\ \A x \in Reached(P, tool) : Before(P, x, <<p, k>>) => RuleAt(P, x).cond
      /\ \/ \A i \in DOMAIN P[p].rules : i < k
         \/ k \in DOMAIN P[p].rules /\ tool \in P[p].rules[k].tools /\ ~P[p].rules[k].cond
  BY <1>1, <1>3 DEF Puts
<1>5. <<p, k>> \in Reached(Q, tool) /\ RuleAt(Q, <<p, k>>) = out[k]
  BY <1>1, <1>2, <1>4, PlaceReached DEF RuleAt
<1>6. ~RuleAt(Q, <<p, k>>).cond /\ Deciding(Q, <<p, k>>).action = action
  BY <1>4, <1>5 DEF Deciding
<1>7. Evaluate(Q, tool, {}) = Deciding(Q, <<p, k>>) /\ KeepsSay(P, Q, tool, <<p, k>>)
  <2>1. AgreeBelow(P, Q, p, k)
    BY <1>4 DEF AgreeBelow
  <2> QED
    BY <1>1, <1>4, <1>5, <1>6, <2>1, NewRuleDecides
<1>8. ASSUME <<was.source, was.at>> \in met, was.source = f
      PROVE  Evaluate(Q, tool, met) = was
  <2>1. was = Decided(P, A)
    BY DEF Evaluate, Applying
  <2>2. f # 0
    BY PoliciesAreFiles
  <2>3. A # {}
    BY <1>8, <2>1, <2>2 DEF Decided, Default
  <2>4. was = Deciding(P, e)
    BY <2>1, <2>3 DEF Decided
  <2>5. e \in A /\ \A y \in A : y # e => Before(P, e, y)
    <3>1. A \in SUBSET Reached(P, tool)
      BY DEF Applying
    <3> HIDE DEF A
    <3> QED
      BY <1>2, <2>3, <3>1, FirstIsFirst
  <2>6. was.source = P[e[1]].source /\ was.at = e[2]
    BY <2>4 DEF Deciding
  <2>7. /\ e \in Reached(P, tool) /\ e = <<e[1], e[2]>> /\ e[1] \in DOMAIN P
        /\ e[2] \in DOMAIN P[e[1]].rules /\ e[2] \in Nat /\ P[e[1]].agent \in 0 .. 2
        /\ e[1] \in Nat
    <3>1. PICK x : x = e
      OBVIOUS
    <3>2. x \in Reached(P, tool)
      BY <2>5, <3>1 DEF Applying
    <3>3. /\ x = <<x[1], x[2]>> /\ x[1] \in DOMAIN P /\ x[1] \in Nat
          /\ x[2] \in DOMAIN P[x[1]].rules /\ x[2] \in Nat /\ P[x[1]].agent \in Fits
      BY <1>2, <3>2, ReachedPlaces
    <3>4. Fits = 0 .. 2
      BY DEF Fits, Exact, Partial, CatchAll
    <3> QED
      BY <3>1, <3>2, <3>3, <3>4
  <2>8. e[1] = p
    BY <1>1, <1>8, <2>6, <2>7
  <2>9. P[p].rules[e[2]].cond
    <3>1. <<f, e[2]>> \in Conditions(t)
      BY <1>8, <2>6
    <3>2. t[f][e[2]].cond
      <4> HIDE DEF e
      <4>1. PICK g \in File : <<f, e[2]>> \in {g} \X {i \in DOMAIN t[g] : t[g][i].cond}
        BY <3>1, Zenon DEF Conditions
      <4> QED
        BY <4>1
    <3> QED
      BY <1>1, <3>2
  <2> HIDE DEF e
  <2>10. e[2] < k
    <3>1. CASE \A i \in DOMAIN P[p].rules : i < k
      BY <2>7, <2>8, <3>1
    <3>2. CASE k \in DOMAIN P[p].rules /\ tool \in P[p].rules[k].tools /\ ~P[p].rules[k].cond
      <4>1. <<p, k>> \in A
        BY <1>2, <3>2, PlaceReached DEF RuleAt, Applying
      <4>2. e # <<p, k>>
        BY <2>8, <2>9, <3>2
      <4>3. Before(P, e, <<p, k>>)
        BY <2>5, <4>1, <4>2
      <4> QED
        BY <1>4, <2>7, <2>8, <4>3 DEF Before
    <3> QED
      BY <1>4, <3>1, <3>2
  <2>11. Before(P, e, <<p, k>>)
    BY <2>8, <2>10 DEF Before
  <2> QED
    BY <1>7, <1>8, <2>4, <2>6, <2>7, <2>11 DEF e, KeepsSay
<1> QED
  BY <1>6, <1>7, <1>8 DEF P, Q

(* An edit decides, if no policy of the configuration file is the agent's  *)
(* own: for any files, rules, conditions and edits, whenever what is in    *)
(* force is what the files hold (handlePolicyEdit, findEditTarget).        *)
THEOREM EditsDecide ==
  ASSUME NoInlineOfTheAgent
  PROVE  Spec => []EditDecides
<1>1. TypeOK => EditDecides
  <2> SUFFICES ASSUME TypeOK, Settled, NEW tool \in Tool, NEW action \in Action,
                      Accepted(Place(Policies(text), tool), tool, action)
               PROVE  LET place == Place(Policies(text), tool)
                          after == After(place, tool, action)
                          Say(t, met) == Evaluate(Policies(t), tool, met)
                      IN /\ Say(after, {}).action = action
                         /\ \A met \in SUBSET Conditions(text) :
                              LET was == Say(text, met) IN
                              <<was.source, was.at>> \in met /\ was.source = place.file =>
                                Say(after, met) = was
    BY Zenon DEF EditDecides
  <2> DEFINE place == Place(Policies(text), tool)
             out == Edited(text[place.file], tool, action, place.at)
  <2>1. text \in [File -> Rules]
    BY DEF TypeOK, Settled
  <2>2. place.file \in File /\ place.at \in Nat
    BY <2>1, PlaceIsInFile DEF Accepted
  <2>3. action # "inherit"
    BY FileConstants DEF Actions
  <2>4. out \in Rules
    <3> HIDE DEF place
    <3>1. text[place.file] \in Rules
      BY <2>1, <2>2
    <3> QED
      BY <2>2, <2>3, <3>1, EditedIsRules
  <2>5. PICK k : Puts(Policies(text), Len(Inline) + place.file, tool, action, out, k)
    BY <2>1, <2>2, <2>3, EditPuts DEF Accepted
  <2>6. After(place, tool, action) = [text EXCEPT ![place.file] = out]
    BY DEF After
  <2> HIDE DEF place, out
  <2>7. \A met \in SUBSET Conditions(text) :
          LET was == Evaluate(Policies(text), tool, met) IN
          /\ Evaluate(Policies([text EXCEPT ![place.file] = out]), tool, {}).action = action
          /\ <<was.source, was.at>> \in met /\ was.source = place.file =>
               Evaluate(Policies([text EXCEPT ![place.file] = out]), tool, met) = was
    BY <2>1, <2>2, <2>4, <2>5, EditSettles
  <2>8. {} \in SUBSET Conditions(text)
    OBVIOUS
  <2> QED
    BY <2>6, <2>7, <2>8 DEF place
<1> QED
  BY <1>1, PolicyTypes, PTL

-----------------------------------------------------------------------------
(* An edit disturbs no other tool *)

(* The rules reached for a tool in P are those in Q, moved by mv, in the   *)
(* same order and in policies that fit as well.                            *)
Moves(P, Q, tool, mv) ==
  /\ \A x \in Reached(P, tool) :
       /\ mv[x] \in Reached(Q, tool)
       /\ RuleAt(Q, mv[x]) = RuleAt(P, x)
       /\ Q[mv[x][1]].agent = P[x[1]].agent /\ Q[mv[x][1]].source = P[x[1]].source
  /\ \A y \in Reached(Q, tool) : \E x \in Reached(P, tool) : mv[x] = y
  /\ \A x, y \in Reached(P, tool) : Before(P, x, y) => Before(Q, mv[x], mv[y])

(* Two such sets tell the same of the tool.                                *)
LEMMA MovedIsSameTold ==
  ASSUME NEW P \in PolicySet, NEW Q \in PolicySet, NEW tool, NEW mv, Moves(P, Q, tool, mv)
  PROVE  SameTold(P, Q, tool)
<1> DEFINE RP == Reached(P, tool)
           RQ == Reached(Q, tool)
           AP == Always(P, tool)
           AQ == Always(Q, tool)
           f == First(P, AP)
           g == First(Q, AQ)
           DP == {x \in RP : AP # {} => Before(P, x, f)}
           DQ == {x \in RQ : AQ # {} => Before(Q, x, g)}
<1>1. /\ \A x \in RP : /\ mv[x] \in RQ /\ RuleAt(Q, mv[x]) = RuleAt(P, x)
                       /\ Q[mv[x][1]].agent = P[x[1]].agent /\ Q[mv[x][1]].source = P[x[1]].source
      /\ \A y \in RQ : \E x \in RP : mv[x] = y
      /\ \A x, y \in RP : Before(P, x, y) => Before(Q, mv[x], mv[y])
  BY DEF Moves
<1>2. /\ \A x \in RP : x \in AP <=> ~RuleAt(P, x).cond
      /\ \A x \in RQ : x \in AQ <=> ~RuleAt(Q, x).cond
      /\ AP \subseteq RP /\ AQ \subseteq RQ
  BY DEF Always
<1>3. /\ Explain(P, tool).decided = Decided(P, AP)
      /\ Explain(Q, tool).decided = Decided(Q, AQ)
      /\ AP # {} => f \in AP /\ \A x \in AP : x # f => Before(P, f, x)
      /\ AQ # {} => g \in AQ /\ \A x \in AQ : x # g => Before(Q, g, x)
  BY FirstAlways
<1>4. /\ Explain(P, tool).conditional = [x \in DP |-> Deciding(P, x)]
      /\ Explain(Q, tool).conditional = [x \in DQ |-> Deciding(Q, x)]
  BY DEF Explain, Always
<1> HIDE DEF RP, RQ, AP, AQ, f, g
<1>5. \A x, y \in RQ : ~(Before(Q, x, y) /\ Before(Q, y, x)) /\ ~Before(Q, x, x)
  BY PlacesAreOrdered DEF RQ
<1>6. \A x, y \in RP : x # y => Before(P, x, y) \/ Before(P, y, x)
  BY PlacesAreOrdered DEF RP
<1>7. \A x, y \in RP : mv[x] = mv[y] => x = y
  BY <1>1, <1>5, <1>6
<1>8. \A x, y \in RP : Before(Q, mv[x], mv[y]) => Before(P, x, y)
  BY <1>1, <1>5, <1>6
<1>9. \A x \in RP : x \in AP <=> mv[x] \in AQ
  BY <1>1, <1>2
<1>10. AP = {} <=> AQ = {}
  BY <1>1, <1>2, <1>9
<1>11. AP # {} => mv[f] = g
  <2> SUFFICES ASSUME AP # {}, mv[f] # g PROVE FALSE
    OBVIOUS
  <2>1. f \in AP /\ f \in RP /\ g \in AQ /\ g \in RQ /\ mv[f] \in AQ /\ mv[f] \in RQ
    BY <1>1, <1>2, <1>3, <1>9, <1>10
  <2>2. PICK x \in RP : mv[x] = g
    BY <1>1, <2>1
  <2>3. x \in AP /\ x # f
    BY <1>9, <2>1, <2>2
  <2>4. Before(Q, mv[f], g)
    BY <1>1, <1>3, <2>1, <2>2, <2>3
  <2>5. Before(Q, g, mv[f])
    BY <1>3, <2>1
  <2> QED
    BY <1>5, <2>1, <2>4, <2>5
<1>12. \A x \in RP : Shown(Deciding(Q, mv[x])) = Shown(Deciding(P, x))
  BY <1>1 DEF Shown, Deciding
<1>13. Shown(Explain(Q, tool).decided) = Shown(Explain(P, tool).decided)
  <2>1. CASE AP = {}
    BY <1>3, <1>10, <2>1 DEF Decided
  <2>2. CASE AP # {}
    <3>1. /\ Explain(P, tool).decided = Deciding(P, f)
          /\ Explain(Q, tool).decided = Deciding(Q, mv[f])
          /\ f \in RP
      BY <1>2, <1>3, <1>10, <1>11, <2>2 DEF Decided, f, g
    <3> QED
      BY <1>12, <3>1
  <2> QED
    BY <2>1, <2>2
<1>14. /\ DP \subseteq RP /\ DQ \subseteq RQ
       /\ \A x \in RP : x \in DP <=> mv[x] \in DQ
  <2>1. CASE AP = {}
    BY <1>1, <1>10, <2>1
  <2>2. CASE AP # {}
    <3>1. f \in RP /\ mv[f] = g /\ AQ # {}
      BY <1>2, <1>3, <1>10, <1>11, <2>2
    <3>2. \A x \in RP : Before(P, x, f) <=> Before(Q, mv[x], g)
      BY <1>1, <1>8, <3>1
    <3> QED
      BY <1>1, <2>2, <3>1, <3>2
  <2> QED
    BY <2>1, <2>2
<1> HIDE DEF DP, DQ
<1> DEFINE moved == [x \in DP |-> mv[x]]
<1>15. moved \in Bijection(DP, DQ)
  <2>1. moved \in [DP -> DQ]
    BY <1>14
  <2>2. \A x, y \in DP : moved[x] = moved[y] => x = y
    BY <1>7, <1>14
  <2>3. \A y \in DQ : \E x \in DP : moved[x] = y
    <3> SUFFICES ASSUME NEW y \in DQ PROVE \E x \in DP : moved[x] = y
      OBVIOUS
    <3>1. PICK x \in RP : mv[x] = y
      BY <1>1, <1>14
    <3>2. x \in DP
      BY <1>14, <3>1
    <3> QED
      BY <3>1, <3>2
  <2> HIDE DEF moved
  <2> QED
    BY <2>1, <2>2, <2>3 DEF Bijection, Injection, Surjection, IsInjective
<1>16. \A x, y \in DP :
         /\ Shown(Deciding(Q, moved[x])) = Shown(Deciding(P, x)) /\ moved[x] \in DQ
         /\ Before(P, x, y) => Before(Q, moved[x], moved[y])
  BY <1>1, <1>12, <1>14
<1> HIDE DEF moved
<1>17. /\ DOMAIN Explain(P, tool).conditional = DP
       /\ DOMAIN Explain(Q, tool).conditional = DQ
       /\ \A x \in DP : Explain(P, tool).conditional[x] = Deciding(P, x)
       /\ \A x \in DQ : Explain(Q, tool).conditional[x] = Deciding(Q, x)
  BY <1>4
<1>18. \A x, y \in DP :
         /\ Shown(Explain(Q, tool).conditional[moved[x]]) = Shown(Explain(P, tool).conditional[x])
         /\ Before(P, x, y) => Before(Q, moved[x], moved[y])
  BY <1>16, <1>17
<1> QED
  BY <1>13, <1>15, <1>17, <1>18 DEF SameTold

(* The rules of a list for a tool are those of another, moved by s.        *)
Shifts(rules, out, tool, s) ==
  /\ \A i \in DOMAIN rules : tool \in rules[i].tools =>
       s[i] \in DOMAIN out /\ s[i] \in Nat /\ out[s[i]] = rules[i]
  /\ \A j \in DOMAIN out : tool \in out[j].tools =>
       \E i \in DOMAIN rules : tool \in rules[i].tools /\ s[i] = j
  /\ \A i, j \in DOMAIN rules :
       tool \in rules[i].tools /\ tool \in rules[j].tools /\ i < j => s[i] < s[j]

(* Where the rules of one file only move, all rules do.                    *)
LEMMA ShiftMoves ==
  ASSUME NEW P, NEW Q, NEW p, DifferIn(P, Q, p), NEW tool, NEW s,
         Shifts(P[p].rules, Q[p].rules, tool, s)
  PROVE  \E mv : Moves(P, Q, tool, mv)
<1> DEFINE mv == [x \in Reached(P, tool) |-> IF x[1] = p THEN <<p, s[x[2]]>> ELSE x]
<1>1. /\ P \in PolicySet /\ Q \in PolicySet /\ p \in DOMAIN P /\ DOMAIN Q = DOMAIN P
      /\ \A j \in DOMAIN P : Q[j].agent = P[j].agent /\ Q[j].source = P[j].source
      /\ \A j \in DOMAIN P \ {p} : Q[j].rules = P[j].rules
  BY DEF DifferIn
<1>2. \A x \in Reached(P, tool) : mv[x] = IF x[1] = p THEN <<p, s[x[2]]>> ELSE x
  OBVIOUS
<1> HIDE DEF mv
<1>3. \A x \in Reached(P, tool) :
        /\ x = <<x[1], x[2]>> /\ x[1] \in DOMAIN P /\ x[1] \in Nat
        /\ x[2] \in DOMAIN P[x[1]].rules /\ x[2] \in Nat
        /\ tool \in P[x[1]].rules[x[2]].tools /\ P[x[1]].agent \in 0 .. 2
  BY <1>1, ReachedPlaces DEF RuleAt, Fits, Exact, Partial, CatchAll
<1>4. \A y \in Reached(Q, tool) :
        /\ y = <<y[1], y[2]>> /\ y[1] \in DOMAIN P
        /\ y[2] \in DOMAIN Q[y[1]].rules /\ tool \in Q[y[1]].rules[y[2]].tools
  BY <1>1, ReachedPlaces DEF RuleAt
<1>5. ASSUME NEW x \in Reached(P, tool)
      PROVE  /\ mv[x] \in Reached(Q, tool) /\ RuleAt(Q, mv[x]) = RuleAt(P, x)
             /\ mv[x][1] = x[1]
  <2>1. CASE x[1] = p
    <3>1. mv[x] = <<p, s[x[2]]>>
      BY <1>2, <2>1
    <3>2. s[x[2]] \in DOMAIN Q[p].rules /\ Q[p].rules[s[x[2]]] = P[p].rules[x[2]]
          /\ tool \in P[p].rules[x[2]].tools
      BY <1>3, <2>1 DEF Shifts
    <3>3. <<p, s[x[2]]>> \in Reached(Q, tool)
      BY <1>1, <3>2, PlaceReached
    <3> QED
      BY <2>1, <3>1, <3>2, <3>3 DEF RuleAt
  <2>2. CASE x[1] # p
    <3>1. mv[x] = x /\ Q[x[1]].rules = P[x[1]].rules
      BY <1>1, <1>2, <1>3, <2>2
    <3>2. <<x[1], x[2]>> \in Reached(Q, tool)
      BY <1>1, <1>3, <3>1, PlaceReached
    <3>3. x \in Reached(Q, tool)
      BY <1>3, <3>2
    <3> QED
      BY <3>1, <3>3 DEF RuleAt
  <2> QED
    BY <2>1, <2>2
<1>6. ASSUME NEW y \in Reached(Q, tool)
      PROVE  \E x \in Reached(P, tool) : mv[x] = y
  <2>1. CASE y[1] = p
    <3>1. PICK i \in DOMAIN P[p].rules : tool \in P[p].rules[i].tools /\ s[i] = y[2]
      BY <1>4, <2>1 DEF Shifts
    <3>2. <<p, i>> \in Reached(P, tool)
      BY <1>1, <3>1, PlaceReached
    <3>3. mv[<<p, i>>] = <<p, y[2]>>
      BY <1>2, <3>1, <3>2
    <3>4. y = <<p, y[2]>>
      BY <1>4, <2>1
    <3> QED
      BY <3>2, <3>3, <3>4
  <2>2. CASE y[1] # p
    <3>1. Q[y[1]].rules = P[y[1]].rules
      BY <1>1, <1>4, <2>2
    <3>2. <<y[1], y[2]>> \in Reached(P, tool)
      BY <1>1, <1>4, <3>1, PlaceReached
    <3>3. y \in Reached(P, tool)
      BY <1>4, <3>2
    <3> QED
      BY <1>2, <2>2, <3>3
  <2> QED
    BY <2>1, <2>2
<1>7. ASSUME NEW x \in Reached(P, tool), NEW y \in Reached(P, tool), Before(P, x, y)
      PROVE  Before(Q, mv[x], mv[y])
  <2>1. /\ mv[x][1] = x[1] /\ mv[y][1] = y[1]
        /\ Q[x[1]].agent = P[x[1]].agent /\ Q[y[1]].agent = P[y[1]].agent
    BY <1>1, <1>3, <1>5
  <2>2. CASE P[x[1]].agent = P[y[1]].agent /\ x[1] = y[1] /\ x[2] < y[2]
    <3>1. mv[x][2] < mv[y][2]
      <4>1. CASE x[1] = p
        <5>1. mv[x] = <<p, s[x[2]]>> /\ mv[y] = <<p, s[y[2]]>>
          BY <1>2, <2>2, <4>1
        <5>2. s[x[2]] < s[y[2]]
          BY <1>3, <2>2, <4>1 DEF Shifts
        <5> QED
          BY <5>1, <5>2
      <4>2. CASE x[1] # p
        <5>1. mv[x] = x /\ mv[y] = y
          BY <1>2, <2>2, <4>2
        <5> QED
          BY <2>2, <5>1
      <4> QED
        BY <4>1, <4>2
    <3> QED
      BY <2>1, <2>2, <3>1 DEF Before
  <2>3. CASE ~(P[x[1]].agent = P[y[1]].agent /\ x[1] = y[1] /\ x[2] < y[2])
    <3>1. \/ P[x[1]].agent > P[y[1]].agent
          \/ P[x[1]].agent = P[y[1]].agent /\ x[1] < y[1]
      BY <1>7, <2>3 DEF Before
    <3> QED
      BY <2>1, <3>1 DEF Before
  <2> QED
    BY <2>2, <2>3
<1>8. \A x \in Reached(P, tool) :
        Q[mv[x][1]].agent = P[x[1]].agent /\ Q[mv[x][1]].source = P[x[1]].source
  BY <1>1, <1>3, <1>5
<1>9. Moves(P, Q, tool, mv)
  BY <1>5, <1>6, <1>7, <1>8 DEF Moves
<1> QED
  BY <1>9

(* An edit for one tool only moves the rules of the others.                *)
LEMMA EditShifts ==
  ASSUME NEW rules \in Rules, NEW tool \in Tool, NEW other \in Tool, other # tool,
         NEW action \in Action \cup {"inherit"}, NEW at \in Nat,
         action = "inherit" => ConsoleRule(rules, tool) # 0
  PROVE  \E s : Shifts(rules, Edited(rules, tool, action, at), other, s)
<1>1. /\ Len(rules) \in Nat /\ DOMAIN rules = 1 .. Len(rules)
      /\ ConsoleRule(rules, tool) # 0 =>
           /\ ConsoleRule(rules, tool) \in 1 .. Len(rules)
           /\ IsExact(rules[ConsoleRule(rules, tool)], tool)
      /\ ExactRule(rules, tool) # 0 =>
           /\ ExactRule(rules, tool) \in 1 .. Len(rules)
           /\ IsExact(rules[ExactRule(rules, tool)], tool)
  BY RulesAreFound DEF Rules
<1>2. ASSUME NEW k \in 1 .. Len(rules), IsExact(rules[k], tool)
      PROVE  \E s : Shifts(rules, RemoveAt(rules, k), other, s)
  <2> DEFINE s == [i \in DOMAIN rules |-> IF i < k THEN i ELSE i - 1]
             out == RemoveAt(rules, k)
  <2>1. /\ DOMAIN out = 1 .. Len(rules) - 1
        /\ \A i \in 1 .. Len(rules) : /\ i < k => out[i] = rules[i]
                                      /\ i > k => out[i - 1] = rules[i]
    BY Removed
  <2>2. other \notin rules[k].tools
    BY <1>2 DEF IsExact
  <2> HIDE DEF out
  <2>3. \A i \in 1 .. Len(rules) : s[i] = IF i < k THEN i ELSE i - 1
    BY <1>1
  <2> HIDE DEF s
  <2>4. ASSUME NEW i \in 1 .. Len(rules), other \in rules[i].tools
        PROVE  s[i] \in DOMAIN out /\ s[i] \in Nat /\ out[s[i]] = rules[i]
    <3>1. i < k \/ i > k
      BY <1>1, <2>2, <2>4
    <3>2. CASE i < k
      <4>1. s[i] = i /\ i \in 1 .. Len(rules) - 1
        BY <1>1, <2>3, <3>2
      <4> QED
        BY <2>1, <3>2, <4>1
    <3>3. CASE i > k
      <4>1. s[i] = i - 1 /\ i - 1 \in 1 .. Len(rules) - 1 /\ i - 1 \in Nat
        BY <1>1, <2>3, <3>3
      <4> QED
        BY <2>1, <3>3, <4>1
    <3> QED
      BY <3>1, <3>2, <3>3
  <2>5. ASSUME NEW j \in DOMAIN out, other \in out[j].tools
        PROVE  \E i \in DOMAIN rules : other \in rules[i].tools /\ s[i] = j
    <3>1. j \in Nat /\ j \in 1 .. Len(rules) - 1
      BY <1>1, <2>1
    <3>2. CASE j < k
      <4>1. j \in 1 .. Len(rules) /\ s[j] = j
        BY <1>1, <2>3, <3>1, <3>2
      <4> QED
        BY <1>1, <2>1, <2>5, <3>2, <4>1
    <3>3. CASE ~(j < k)
      <4>1. PICK i \in Nat : i = j + 1
        BY <3>1
      <4>2. i \in 1 .. Len(rules) /\ i > k /\ ~(i < k) /\ i - 1 = j
        BY <1>1, <3>1, <3>3, <4>1
      <4>3. s[i] = j /\ out[j] = rules[i]
        BY <2>1, <2>3, <4>2
      <4> QED
        BY <1>1, <2>5, <4>2, <4>3
    <3> QED
      BY <3>2, <3>3
  <2>6. ASSUME NEW i \in 1 .. Len(rules), NEW j \in 1 .. Len(rules),
               other \in rules[i].tools, other \in rules[j].tools, i < j
        PROVE  s[i] < s[j]
    <3>1. i # k /\ j # k
      BY <2>2, <2>6
    <3>2. s[i] = (IF i < k THEN i ELSE i - 1) /\ s[j] = (IF j < k THEN j ELSE j - 1)
      BY <2>3
    <3> QED
      BY <1>1, <2>6, <3>1, <3>2
  <2>7. Shifts(rules, out, other, s)
    BY <1>1, <2>4, <2>5, <2>6 DEF Shifts
  <2> QED
    BY <2>7 DEF out
<1>3. ASSUME NEW k \in 1 .. Len(rules) + 1, NEW r \in Rule, r.tools = {tool}
      PROVE  \E s : Shifts(rules, InsertAt(rules, k, r), other, s)
  <2> DEFINE s == [i \in DOMAIN rules |-> IF i < k THEN i ELSE i + 1]
             out == InsertAt(rules, k, r)
  <2>1. /\ DOMAIN out = 1 .. Len(rules) + 1 /\ out[k] = r
        /\ \A i \in 1 .. Len(rules) : /\ i < k => out[i] = rules[i]
                                      /\ i >= k => out[i + 1] = rules[i]
    BY Inserted
  <2>2. other \notin out[k].tools
    BY <1>3, <2>1
  <2> HIDE DEF out
  <2>3. \A i \in 1 .. Len(rules) : s[i] = IF i < k THEN i ELSE i + 1
    BY <1>1
  <2> HIDE DEF s
  <2>4. ASSUME NEW i \in 1 .. Len(rules), other \in rules[i].tools
        PROVE  s[i] \in DOMAIN out /\ s[i] \in Nat /\ out[s[i]] = rules[i]
    <3>1. i < k \/ i >= k
      BY <1>1
    <3>2. CASE i < k
      <4>1. s[i] = i /\ i \in 1 .. Len(rules) + 1
        BY <1>1, <2>3, <3>2
      <4> QED
        BY <2>1, <3>2, <4>1
    <3>3. CASE i >= k
      <4>1. s[i] = i + 1 /\ i + 1 \in 1 .. Len(rules) + 1 /\ i + 1 \in Nat
        BY <1>1, <2>3, <3>3
      <4> QED
        BY <2>1, <3>3, <4>1
    <3> QED
      BY <3>1, <3>2, <3>3
  <2>5. ASSUME NEW j \in DOMAIN out, other \in out[j].tools
        PROVE  \E i \in DOMAIN rules : other \in rules[i].tools /\ s[i] = j
    <3>1. j \in Nat /\ j \in 1 .. Len(rules) + 1 /\ (j < k \/ j > k)
      BY <1>1, <2>1, <2>2, <2>5
    <3>2. CASE j < k
      <4>1. j \in 1 .. Len(rules) /\ s[j] = j
        BY <1>1, <2>3, <3>1, <3>2
      <4> QED
        BY <1>1, <2>1, <2>5, <3>2, <4>1
    <3>3. CASE j > k
      <4>1. PICK i \in Nat : i = j - 1
        <5>1. j - 1 \in Nat
          BY <1>1, <3>1, <3>3
        <5> QED
          BY <5>1
      <4>2. i \in 1 .. Len(rules) /\ i >= k /\ ~(i < k) /\ i + 1 = j
        BY <1>1, <3>1, <3>3, <4>1
      <4>3. s[i] = j /\ out[j] = rules[i]
        BY <2>1, <2>3, <4>2
      <4> QED
        BY <1>1, <2>5, <4>2, <4>3
    <3> QED
      BY <3>1, <3>2, <3>3
  <2>6. ASSUME NEW i \in 1 .. Len(rules), NEW j \in 1 .. Len(rules), i < j
        PROVE  s[i] < s[j]
    <3>1. s[i] = (IF i < k THEN i ELSE i + 1) /\ s[j] = (IF j < k THEN j ELSE j + 1)
      BY <2>3
    <3> QED
      BY <1>1, <2>6, <3>1
  <2>7. Shifts(rules, out, other, s)
    BY <1>1, <2>4, <2>5, <2>6 DEF Shifts
  <2> QED
    BY <2>7 DEF out
<1>4. ASSUME NEW k \in 1 .. Len(rules), IsExact(rules[k], tool)
      PROVE  \E s : Shifts(rules, SetAction(rules, k, action), other, s)
  <2> DEFINE s == [i \in DOMAIN rules |-> i]
             out == SetAction(rules, k, action)
  <2>1. /\ DOMAIN out = DOMAIN rules /\ out[k].tools = rules[k].tools
        /\ \A i \in DOMAIN rules \ {k} : out[i] = rules[i]
    BY ActionSet
  <2>2. other \notin rules[k].tools
    BY <1>4 DEF IsExact
  <2> HIDE DEF out
  <2>3. \A i \in DOMAIN rules : s[i] = i /\ i \in Nat
    BY <1>1
  <2> HIDE DEF s
  <2>4. Shifts(rules, out, other, s)
    BY <2>1, <2>2, <2>3 DEF Shifts
  <2> QED
    BY <2>4 DEF out
<1>5. CASE action = "inherit"
  <2>1. Edited(rules, tool, action, at) = RemoveAt(rules, ConsoleRule(rules, tool))
    BY <1>5 DEF Edited, RemoveConsoleRule
  <2> QED
    BY <1>1, <1>2, <1>5, <2>1
<1>6. CASE action # "inherit" /\ ExactRule(rules, tool) # 0
           /\ (at = 0 \/ ExactRule(rules, tool) <= at)
  <2>1. Edited(rules, tool, action, at) = SetAction(rules, ExactRule(rules, tool), action)
    BY <1>6 DEF Edited
  <2> QED
    BY <1>1, <1>4, <1>6, <2>1
<1>7. CASE action # "inherit" /\ ~(ExactRule(rules, tool) # 0
                                   /\ (at = 0 \/ ExactRule(rules, tool) <= at))
  <2> DEFINE r == [tools |-> {tool}, cond |-> FALSE, action |-> action, marked |-> TRUE]
             k == IF at \in DOMAIN rules THEN at ELSE Len(rules) + 1
  <2>1. Edited(rules, tool, action, at) = InsertAt(rules, k, r)
    BY <1>7 DEF Edited, InsertRule
  <2>2. r \in Rule /\ r.tools = {tool}
    BY <1>7 DEF Rule
  <2>3. k \in 1 .. Len(rules) + 1
    BY <1>1
  <2> HIDE DEF r, k
  <2> QED
    BY <1>3, <2>1, <2>2, <2>3
<1> QED
  BY <1>5, <1>6, <1>7

(* An edit from the console disturbs no other tool: for any files, rules   *)
(* and edits, inline policies too, whenever what is in force is what the   *)
(* files hold (handlePolicyEdit, SetAction, InsertRule,                    *)
(* RemoveConsoleRule).                                                     *)
THEOREM EditsDisturbNoOther == Spec => []OthersUndisturbed
<1>1. TypeOK => OthersUndisturbed
  <2> SUFFICES ASSUME TypeOK, Settled, NEW tool \in Tool, NEW action \in Action \cup {"inherit"},
                      Accepted(Place(Policies(text), tool), tool, action),
                      NEW other \in Tool \ {tool}
               PROVE  SameTold(Policies(text),
                               Policies(After(Place(Policies(text), tool), tool, action)), other)
    BY Zenon DEF OthersUndisturbed
  <2> DEFINE place == Place(Policies(text), tool)
             f == place.file
             out == Edited(text[f], tool, action, place.at)
             after == After(place, tool, action)
             p == Len(Inline) + f
  <2>1. text \in [File -> Rules]
    BY DEF TypeOK, Settled
  <2>2. f \in File /\ place.at \in Nat
    BY <2>1, PlaceIsInFile DEF Accepted
  <2>3. action = "inherit" => ConsoleRule(text[f], tool) # 0
    BY DEF Accepted, Refused
  <2> HIDE DEF place
  <2>4. text[f] \in Rules
    BY <2>1, <2>2
  <2>5. out \in Rules
    BY <2>2, <2>3, <2>4, EditedIsRules
  <2>6. PICK s : Shifts(text[f], out, other, s)
    BY <2>2, <2>3, <2>4, EditShifts
  <2>7. after = [text EXCEPT ![f] = out]
    BY DEF After
  <2> HIDE DEF out, f, after
  <2>8. after \in [File -> Rules] /\ after[f] = out /\ \A g \in File \ {f} : after[g] = text[g]
    BY <2>1, <2>2, <2>5, <2>7
  <2>9. /\ DifferIn(Policies(text), Policies(after), p)
        /\ Policies(text)[p].rules = text[f] /\ Policies(after)[p].rules = after[f]
    BY <2>1, <2>2, <2>8, EditIsInOneFile
  <2>10. Shifts(Policies(text)[p].rules, Policies(after)[p].rules, other, s)
    BY <2>6, <2>8, <2>9
  <2> HIDE DEF p
  <2>11. PICK mv : Moves(Policies(text), Policies(after), other, mv)
    BY <2>9, <2>10, ShiftMoves
  <2>12. SameTold(Policies(text), Policies(after), other)
    BY <2>9, <2>11, MovedIsSameTold DEF DifferIn
  <2> QED
    BY <2>12 DEF after, place
<1> QED
  BY <1>1, PolicyTypes, PTL
=============================================================================
