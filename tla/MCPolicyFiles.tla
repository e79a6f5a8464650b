---------------------------- MODULE MCPolicyFiles ----------------------------
(* Instances of PolicyFiles: a file of the agent, one shared by all agents. *)
EXTENDS PolicyFiles, TLC

CONSTANTS t1, t2

(* By hand: rules for t1, for t1 under a condition, for every tool. *)
Hand(tools, cond, action) == [tools |-> tools, cond |-> cond, action |-> action, marked |-> FALSE]
OwnRules ==
  {Hand({t1}, cond, "deny") : cond \in BOOLEAN} \cup
  {Hand(Tool, TRUE, action) : action \in {"allow", "human_approval"}} \cup
  {Hand(Tool, FALSE, "allow")} \cup
  {[Hand({t1}, FALSE, "deny") EXCEPT !.marked = TRUE]}
UpTo(rules, n) == UNION {[1 .. i -> rules] : i \in 0 .. n}
Shared == {<<Hand(Tool, TRUE, "allow"), Hand(Tool, FALSE, "deny")>>}

TwoFiles == <<Exact, CatchAll>>
OwnAndShared == <<UpTo(OwnRules, 2), Shared>>
FewRewrites == <<{<<Hand({t1}, FALSE, "deny"), Hand(Tool, FALSE, "allow")>>, <<>>}, Shared>>
FewTexts == <<UpTo({Hand({t1}, FALSE, "deny"), Hand(Tool, FALSE, "allow")}, 1), Shared>>
NoInline == <<>>
OwnInline == <<[agent |-> Exact, source |-> 0, rules |-> <<Hand({t1}, FALSE, "deny")>>]>>
=============================================================================
