----------------------------- MODULE PolicyEngine -----------------------------
(***************************************************************************)
(* The policies and how they decide (policy/engine.go), and the edits of a *)
(* policy file (policy/edit.go), as functions.                             *)
(*                                                                         *)
(* Everything is about one agent.  A rule is [tools, cond, action, marked]:*)
(* the tools its patterns match, whether it has a condition, its action,   *)
(* and whether ConsoleMarker heads it.  A rule for one tool names it, one  *)
(* for several is a glob.  A policy is [agent, source, rules]: how well    *)
(* its pattern fits the agent, its file (0: inline) and its rules.         *)
(***************************************************************************)
EXTENDS Naturals, Sequences, SequencesExt

(* agentSpecificity of a pattern that matches the agent. *)
Exact == 2
Partial == 1
CatchAll == 0

(* A rule has a place: the number of its policy, its number in there. *)
RuleAt(policies, x) == policies[x[1]].rules[x[2]]

(* The order of sortPolicies, a stable sort, then of the rules. *)
Before(policies, x, y) ==
  LET fit(z) == policies[z[1]].agent
  IN \/ fit(x) > fit(y)
     \/ fit(x) = fit(y) /\ (x[1] < y[1] \/ (x[1] = y[1] /\ x[2] < y[2]))

First(policies, places) ==
  CHOOSE x \in places : \A y \in places \ {x} : Before(policies, x, y)

(* The places of the rules that match a tool. *)
Reached(policies, tool) ==
  UNION {{p} \X {i \in DOMAIN policies[p].rules : tool \in policies[p].rules[i].tools}
         : p \in DOMAIN policies}

Default == [action |-> "deny", agent |-> CatchAll, source |-> 0, at |-> 0]
Deciding(policies, x) ==
  [action |-> RuleAt(policies, x).action,
   agent |-> policies[x[1]].agent, source |-> policies[x[1]].source, at |-> x[2]]
Decided(policies, places) ==
  IF places = {} THEN Default ELSE Deciding(policies, First(policies, places))

(* Evaluate, where the conditions of the rules in met hold. *)
Evaluate(policies, tool, met) ==
  Decided(policies, {x \in Reached(policies, tool) :
    RuleAt(policies, x).cond => <<policies[x[1]].source, x[2]>> \in met})

(* Explain: the first rule without a condition, those with one before it. *)
Explain(policies, tool) ==
  LET always == {x \in Reached(policies, tool) : ~RuleAt(policies, x).cond}
      before == {x \in Reached(policies, tool) :
                   always # {} => Before(policies, x, First(policies, always))}
  IN [decided |-> Decided(policies, always),
      conditional |-> [x \in before |-> Deciding(policies, x)]]

-----------------------------------------------------------------------------
(* The edits of a file, on its list of rules. *)

IsExact(rule, tool) == rule.tools = {tool} /\ ~rule.cond
ExactRule(rules, tool) == SelectInSeq(rules, LAMBDA r : IsExact(r, tool))
ConsoleRule(rules, tool) == SelectInSeq(rules, LAMBDA r : IsExact(r, tool) /\ r.marked)

SetAction(rules, at, action) == [rules EXCEPT ![at].action = action]

(* InsertRule: before rule at, or after the last one. *)
InsertRule(rules, tool, action, at) ==
  InsertAt(rules, IF at \in DOMAIN rules THEN at ELSE Len(rules) + 1,
           [tools |-> {tool}, cond |-> FALSE, action |-> action, marked |-> TRUE])

RemoveConsoleRule(rules, tool) == RemoveAt(rules, ConsoleRule(rules, tool))
=============================================================================
