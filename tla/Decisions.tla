------------------------------- MODULE Decisions -------------------------------
(***************************************************************************)
(* What becomes of a call once the policy has spoken: the floors of the    *)
(* tool (policy/tighten.go, registry/registry.go, pin/pin.go), the grants  *)
(* and the past decisions that lift an approval (proxy/handler.go and      *)
(* mcp/server.go); and what the proxy tells of a tool before any call: its *)
(* row of GET /tools/decisions, and whether tools/list hides it.           *)
(*                                                                         *)
(* A decision is [action, rule].  A tool is [dispatch, pin]: its           *)
(* default_action if it is the dispatcher of a CLI tool ("" if not), and   *)
(* its status in the pins ("" if it has none).                             *)
(***************************************************************************)
EXTENDS PolicyEngine

Actions == {"allow", "human_approval", "deny"}

(* A dispatcher has no pin, the pinned tools are those of upstreams.       *)
FlooredTools ==
  {[dispatch |-> floor, pin |-> ""] : floor \in Actions \cup {""}} \cup
  {[dispatch |-> "", pin |-> status] : status \in {"pinned", "new", "changed"}}

(* actionSeverity: an action it does not know ranks as deny. *)
Severity(action) ==
  CASE action = "allow" -> 0 [] action = "human_approval" -> 1 [] OTHER -> 2

(* Tighten: the stricter of a decision and a floor. *)
Tighten(d, floor) ==
  IF floor = "" \/ Severity(floor) <= Severity(d.action) THEN d
  ELSE [action |-> floor, rule |-> <<"default_action", 0>>]

(* Status.Floor *)
PinFloor(status) ==
  CASE status = "new" -> "deny" [] status = "changed" -> "human_approval" [] OTHER -> ""

(* The name a pin leaves in the decision it overrides. *)
PinRule(status) == <<status, 0>>

(* Handler.ApplyFloors: the dispatcher's, then the pin's. *)
ApplyFloors(d, tool) ==
  LET dispatched == Tighten(d, tool.dispatch)
      pinned == Tighten(dispatched, PinFloor(tool.pin))
  IN IF pinned.action = dispatched.action THEN dispatched
     ELSE [pinned EXCEPT !.rule = PinRule(tool.pin)]

(* Handler.Floor: both floors in one action. *)
Floor(tool) ==
  LET pin == PinFloor(tool.pin) IN
  CASE tool.dispatch = "" -> pin
    [] pin = "" -> tool.dispatch
    [] OTHER -> Tighten([action |-> tool.dispatch, rule |-> <<"floor", 0>>], pin).action

Ruled(d) == [action |-> d.action, rule |-> <<"policy", d.source>>]

-----------------------------------------------------------------------------
(* The paths of a call.  Grants and decisions lift an approval only, and   *)
(* no grant is looked up for a call that came over MCP.                    *)

Decision(policies, name, tool, met) == ApplyFloors(Ruled(Evaluate(policies, name, met)), tool)

Lifted(d, by) == IF d.action = "human_approval" THEN [action |-> "allow", rule |-> <<by, 0>>] ELSE d

(* Handler.handleToolCall, and handleDecide. *)
HTTPDecision(policies, name, tool, met, granted, remembered) ==
  LET d == Decision(policies, name, tool, met) IN
  IF granted THEN Lifted(d, "grant") ELSE IF remembered THEN Lifted(d, "mem7") ELSE d

(* Server.handleToolCall *)
MCPDecision(policies, name, tool, met, remembered) ==
  LET d == Decision(policies, name, tool, met) IN
  IF remembered THEN Lifted(d, "mem7") ELSE d

-----------------------------------------------------------------------------
(* Before any call. *)

(* Variant: the conditional rules are shown as the policy has them. *)
ToolDecisionUntightened(policies, name, tool) ==
  LET sd == Explain(policies, name) IN
  [decided |-> ApplyFloors(Ruled(sd.decided), tool), conditional |-> sd.conditional]

(* handleToolDecisions: the row of a tool. *)
ToolDecision(policies, name, tool) ==
  LET sd == Explain(policies, name)
      Final(c) == [c EXCEPT !.action = Tighten(Ruled(c), Floor(tool)).action]
  IN [decided |-> ApplyFloors(Ruled(sd.decided), tool),
      conditional |-> [i \in DOMAIN sd.conditional |-> Final(sd.conditional[i])]]

(* Variant: a conditional rule does not count. *)
DeniedByDefault(policies, name, tool) ==
  Tighten(Ruled(Explain(policies, name).decided), Floor(tool)).action = "deny"

(* Server.deniedOnly *)
DeniedOnly(policies, name, tool) ==
  LET sd == Explain(policies, name)
      Denied(d) == Tighten(Ruled(d), Floor(tool)).action = "deny"
  IN Denied(sd.decided) /\ \A i \in DOMAIN sd.conditional : Denied(sd.conditional[i])
=============================================================================
