------------------------------- MODULE ToolPins -------------------------------
(***************************************************************************)
(* The catalogue pins of upstream MCP tools (pin/pin.go), with the closure *)
(* that connects an upstream (cmd/mesh7/mesh.go), its retries              *)
(* (mcp/retry.go), the manager (mcp/manager.go) and the tool registry.     *)
(*                                                                         *)
(* Each upstream has one goroutine that dials it, adds its client to the   *)
(* manager, loads its tools into the registry and lets the pins observe    *)
(* them: four steps, with calls served in between when it is a retry.      *)
(* The upstream may change its catalogue and be out of reach, MaxChanges   *)
(* and MaxOutages times in all; mesh7 processes start MaxStarts times and  *)
(* may end at any moment.  A version stands for a fingerprint and the      *)
(* description that comes with it; storage_path and pin_tools are set.     *)
(***************************************************************************)
EXTENDS Naturals, FiniteSets

CONSTANTS
  Proc, Server, Tool, Version,
  Owner,      \* Tool -> the server it belongs to (its name's prefix)
  None,       \* no version: not declared, not loaded, not pinned
  DbOutcomes, \* what an INSERT into tool_pins may do: TRUE it is written
  MaxChanges, MaxOutages, MaxStarts

Versions == Version \cup {None}
Status == {"pinned", "new", "changed"}
View == [status : Status, version : Version]

ASSUME PinConstants ==
  /\ Owner \in [Tool -> Server]
  /\ None \notin Version \cup View
  /\ TRUE \in DbOutcomes /\ DbOutcomes \subseteq BOOLEAN
  /\ {MaxChanges, MaxOutages, MaxStarts} \subseteq Nat

VARIABLES
  catalogue, reachable, \* what each upstream declares now; those that answer
  row,                  \* table tool_pins: Tool -> version or None
  up,                   \* the processes that run
  stage,                \* process -> server -> where its goroutine is
  booting,              \* process -> the servers start-up still waits for
  clients, retrying,    \* mcp.Manager
  declared,             \* process -> tool -> MCPClient.tools
  registry,             \* process -> tool -> the version loaded
  pins, servers,        \* pin.Store: accepted versions, servers with a pin
  current,              \* pin.Store: tool -> its View, or None
  changes, outages, starts

world == <<catalogue, reachable, changes, outages>>
memory == <<pins, servers, current>>
manager == <<clients, retrying>>
life == <<up, starts>>
vars == <<world, row, life, stage, booting, manager, declared, registry, memory>>

Dialing == {"first", "dial"}
Stage == Dialing \cup {"off", "sleep", "add", "load", "observe", "joined"}

TypeOK ==
  /\ catalogue \in [Tool -> Versions] /\ row \in [Tool -> Versions]
  /\ reachable \subseteq Server
  /\ up \subseteq Proc
  /\ stage \in [Proc -> [Server -> Stage]]
  /\ \A g \in {booting, clients, retrying, servers} : g \in [Proc -> SUBSET Server]
  /\ \A g \in {declared, registry, pins} : g \in [Proc -> [Tool -> Versions]]
  /\ current \in [Proc -> [Tool -> View \cup {None}]]
  /\ changes \in 0 .. MaxChanges /\ outages \in 0 .. MaxOutages
  /\ starts \in 0 .. MaxStarts

ToolsOf(s) == {t \in Tool : Owner[t] = s}
Nothing == [t \in Tool |-> None]
Trusted(versions) == {Owner[t] : t \in {u \in Tool : versions[u] # None}}

(* Status.Floor, over Store.Status. *)
Floor(p, t) ==
  LET v == current[p][t] IN
  CASE v = None -> "none"
    [] v # None /\ v.status = "new" -> "deny"
    [] v # None /\ v.status = "changed" -> "human_approval"
    [] v # None /\ v.status = "pinned" -> "none"

Init ==
  /\ catalogue \in [Tool -> Version] /\ reachable = Server
  /\ row = Nothing /\ up = {}
  /\ stage = [p \in Proc |-> [s \in Server |-> "off"]]
  /\ booting = [p \in Proc |-> {}]
  /\ clients = [p \in Proc |-> {}] /\ retrying = [p \in Proc |-> {}]
  /\ declared = [p \in Proc |-> Nothing] /\ registry = [p \in Proc |-> Nothing]
  /\ pins = [p \in Proc |-> Nothing] /\ servers = [p \in Proc |-> {}]
  /\ current = [p \in Proc |-> Nothing]
  /\ changes = 0 /\ outages = 0 /\ starts = 0

-----------------------------------------------------------------------------
(* The upstreams. *)

\* A new release: tools are rewritten, added or removed.
Publish(s) ==
  /\ changes < MaxChanges /\ changes' = changes + 1
  /\ \E new \in [ToolsOf(s) -> Versions] :
       catalogue' = [t \in Tool |-> IF Owner[t] = s THEN new[t] ELSE catalogue[t]]
  /\ catalogue' # catalogue
  /\ UNCHANGED <<reachable, outages, row, life, stage, booting, manager, declared,
                 registry, memory>>

Outage(s) ==
  /\ \/ s \in reachable /\ outages < MaxOutages
        /\ reachable' = reachable \ {s} /\ outages' = outages + 1
     \/ s \notin reachable
        /\ reachable' = reachable \cup {s} /\ UNCHANGED outages
  /\ UNCHANGED <<catalogue, changes, row, life, stage, booting, manager, declared,
                 registry, memory>>

-----------------------------------------------------------------------------
(* A process. *)

(* Variant: the servers of the loaded pins are not remembered. *)
StartForgetful(p) ==
  /\ p \notin up /\ starts < MaxStarts
  /\ up' = up \cup {p} /\ starts' = starts + 1
  /\ pins' = [pins EXCEPT ![p] = row] /\ UNCHANGED <<servers, current>>
  /\ stage' = [stage EXCEPT ![p] = [s \in Server |-> "first"]]
  /\ booting' = [booting EXCEPT ![p] = Server]
  /\ UNCHANGED <<world, row, manager, declared, registry>>

(* NewStore reads the pins, and start-up dials every upstream in parallel. *)
Start(p) ==
  /\ p \notin up /\ starts < MaxStarts
  /\ up' = up \cup {p} /\ starts' = starts + 1
  /\ pins' = [pins EXCEPT ![p] = row]
  /\ servers' = [servers EXCEPT ![p] = Trusted(row)]
  /\ stage' = [stage EXCEPT ![p] = [s \in Server |-> "first"]]
  /\ booting' = [booting EXCEPT ![p] = Server]
  /\ UNCHANGED <<world, row, manager, declared, registry, current>>

(* The process ends, in good order or not: its memory is gone. *)
Stop(p) ==
  /\ p \in up /\ up' = up \ {p}
  /\ stage' = [stage EXCEPT ![p] = [s \in Server |-> "off"]]
  /\ booting' = [booting EXCEPT ![p] = {}]
  /\ clients' = [clients EXCEPT ![p] = {}] /\ retrying' = [retrying EXCEPT ![p] = {}]
  /\ declared' = [declared EXCEPT ![p] = Nothing]
  /\ registry' = [registry EXCEPT ![p] = Nothing]
  /\ pins' = [pins EXCEPT ![p] = Nothing] /\ servers' = [servers EXCEPT ![p] = {}]
  /\ current' = [current EXCEPT ![p] = Nothing]
  /\ UNCHANGED <<world, row, starts>>

Goto(p, s, where) == stage' = [stage EXCEPT ![p][s] = where]
Catalogue(p, s) ==
  [declared EXCEPT ![p] = [t \in Tool |-> IF Owner[t] = s THEN catalogue[t] ELSE @[t]]]

(* MCPClient.Connect reads the catalogue of an upstream that answers. *)
Dial(p, s) ==
  /\ stage[p][s] \in Dialing /\ s \in reachable
  /\ declared' = Catalogue(p, s)
  /\ Goto(p, s, "add")
  /\ UNCHANGED <<world, row, life, booting, manager, registry, memory>>

(* Variant: the retries end at the first failure. *)
DialFailsForGood(p, s) ==
  /\ stage[p][s] \in Dialing /\ s \notin reachable
  /\ retrying' = [retrying EXCEPT ![p] = @ \cup {s}]
  /\ booting' = [booting EXCEPT ![p] = @ \ {s}]
  /\ Goto(p, s, IF stage[p][s] = "first" THEN "sleep" ELSE "off")
  /\ UNCHANGED <<world, row, life, clients, declared, registry, memory>>

(* It failed: SetRetrying, by retry the first time, by onFail afterwards. *)
DialFails(p, s) ==
  /\ stage[p][s] \in Dialing /\ s \notin reachable
  /\ retrying' = [retrying EXCEPT ![p] = @ \cup {s}]
  /\ booting' = [booting EXCEPT ![p] = @ \ {s}]
  /\ Goto(p, s, "sleep")
  /\ UNCHANGED <<world, row, life, clients, declared, registry, memory>>

(* RetryConnect, its wait over. *)
Wake(p, s) ==
  /\ stage[p][s] = "sleep" /\ Goto(p, s, "dial")
  /\ UNCHANGED <<world, row, life, booting, manager, declared, registry, memory>>

(* Manager.Add. *)
Add(p, s) ==
  /\ stage[p][s] = "add" /\ Goto(p, s, "load")
  /\ clients' = [clients EXCEPT ![p] = @ \cup {s}]
  /\ retrying' = [retrying EXCEPT ![p] = @ \ {s}]
  /\ UNCHANGED <<world, row, life, booting, declared, registry, memory>>

(* Registry.LoadMCP, of what the client declares at this moment. *)
LoadMCP(p, s) ==
  /\ stage[p][s] = "load" /\ Goto(p, s, "observe")
  /\ registry' = [registry EXCEPT ![p] = [t \in Tool |->
                    IF Owner[t] = s /\ declared[p][t] # None THEN declared[p][t] ELSE @[t]]]
  /\ UNCHANGED <<world, row, life, booting, manager, declared, memory>>

(* The client reconnects by itself and reads the catalogue again; neither  *)
(* the registry nor the pins hear of it.                                   *)
Reconnect(p, s) ==
  /\ stage[p][s] \in {"add", "load", "observe", "joined"} /\ s \in reachable
  /\ declared' = Catalogue(p, s) /\ declared' # declared
  /\ UNCHANGED <<world, row, life, stage, booting, manager, registry, memory>>

-----------------------------------------------------------------------------
(* pin.Store. *)

(* pinLocked over tools, of which those written get their row: the first   *)
(* failure ends the loop.                                                  *)
Pin(p, tools, written, version) ==
  /\ row' = [t \in Tool |-> IF t \in written THEN version[t] ELSE row[t]]
  /\ pins' = [pins EXCEPT ![p] = [t \in Tool |-> IF t \in written THEN version[t] ELSE @[t]]]
  /\ servers' = [servers EXCEPT ![p] = @ \cup {Owner[t] : t \in written}]

Compared(accepted, version) ==
  [status |-> CASE accepted = None -> "new"
                [] accepted = version -> "pinned"
                [] OTHER -> "changed",
   version |-> version]

(* Observe: a server never seen is pinned whole, in the random order of a  *)
(* map; otherwise each tool is compared with its pin.                      *)
Observe(p, s) ==
  LET tools == {t \in ToolsOf(s) : registry[p][t] # None}
      first == s \notin servers[p]
  IN
  /\ stage[p][s] = "observe" /\ Goto(p, s, "joined")
  /\ booting' = [booting EXCEPT ![p] = @ \ {s}]
  /\ IF first
       THEN \E written \in SUBSET tools :
              /\ written = tools \/ FALSE \in DbOutcomes
              /\ Pin(p, tools, written, registry[p])
              /\ current' = [current EXCEPT ![p] = [t \in Tool |->
                   IF t \in written THEN Compared(registry[p][t], registry[p][t]) ELSE @[t]]]
       ELSE /\ current' = [current EXCEPT ![p] = [t \in Tool |->
                   IF t \in tools THEN Compared(pins[p][t], registry[p][t]) ELSE @[t]]]
            /\ UNCHANGED <<row, pins, servers>>
  /\ UNCHANGED <<world, life, manager, declared, registry>>

(* Variant: every loaded tool is shown as pinned, whatever becomes of its row. *)
AcceptAnyway(p, names) ==
  LET loaded == {t \in names : current[p][t] # None} IN
  /\ p \in up
  /\ \E written \in SUBSET loaded :
       /\ written = names \/ names # loaded \/ FALSE \in DbOutcomes
       /\ Pin(p, names, written, [t \in loaded |-> current[p][t].version])
  /\ current' = [current EXCEPT ![p] = [t \in Tool |->
                   IF t \in loaded THEN [@[t] EXCEPT !.status = "pinned"] ELSE @[t]]]
  /\ UNCHANGED <<world, life, stage, booting, manager, declared, registry>>

(* Accept: up to the first tool that is not loaded or cannot be written. *)
Accept(p, names) ==
  LET loaded == {t \in names : current[p][t] # None} IN
  /\ p \in up
  /\ \E written \in SUBSET loaded :
       /\ written = names \/ names # loaded \/ FALSE \in DbOutcomes
       /\ Pin(p, names, written, [t \in loaded |-> current[p][t].version])
       /\ current' = [current EXCEPT ![p] = [t \in Tool |->
                        IF t \in written THEN [@[t] EXCEPT !.status = "pinned"] ELSE @[t]]]
  /\ UNCHANGED <<world, life, stage, booting, manager, declared, registry>>

-----------------------------------------------------------------------------
Connecting(p, s) ==
  Dial(p, s) \/ DialFails(p, s) \/ Wake(p, s) \/ Add(p, s) \/ LoadMCP(p, s) \/ Observe(p, s)

Next ==
  \/ \E s \in Server : Publish(s) \/ Outage(s)
  \/ \E p \in Proc : Start(p) \/ Stop(p)
  \/ \E p \in Proc, s \in Server : Connecting(p, s) \/ Reconnect(p, s)
  \/ \E p \in Proc, names \in (SUBSET Tool) \ {{}} : Accept(p, names)

Spec == Init /\ [][Next]_vars

(* The goroutines run; nobody has to start a process or accept anything. *)
FairSpec == Spec /\ \A p \in Proc, s \in Server : WF_vars(Connecting(p, s))

-----------------------------------------------------------------------------
(* Properties. *)

Calls(p) == p \in up /\ booting[p] = {}

(* A tool the pins have seen runs on policy alone only in the version that *)
(* its row holds, through every order of restarts, changed catalogues and  *)
(* failing statements: what Floor lets through is what was accepted.       *)
FreeIsAccepted ==
  \A p \in up, t \in Tool :
    current[p][t] # None /\ Floor(p, t) = "none" => row[t] = registry[p][t]

(* Once a tool has a pin, only Accept moves it: no restart, and no         *)
(* catalogue an upstream comes back with, is trusted on first use again.   *)
TrustMovesByAccept ==
  [][\A t \in Tool : row[t] # None /\ row'[t] # row[t] =>
       \E p \in Proc, names \in SUBSET Tool : t \in names /\ Accept(p, names)]_vars

(* An upstream that stays within reach joins every process that lives on:  *)
(* the retries started at its first failure do not give up.                *)
EveryUpstreamJoins ==
  \A p \in Proc, s \in Server :
    <>[](p \in up /\ s \in reachable) => <>(stage[p][s] = "joined")

(* What a connected client declares and the pins did not accept is held    *)
(* back from agents: unknown to the registry, or under a floor.            *)
DeclaredIsHeldBack ==
  \A p \in up, s \in Server : stage[p][s] = "joined" =>
    \A t \in ToolsOf(s) :
      declared[p][t] # None /\ declared[p][t] # row[t] =>
        registry[p][t] = None \/ Floor(p, t) # "none"

(* The same of what the registry serves, at every moment calls are served. *)
LoadedIsHeldBack ==
  \A p \in Proc, t \in Tool : Calls(p) =>
    registry[p][t] \in {None, row[t]} \/ Floor(p, t) # "none"

(* A server some of whose tools are pinned was pinned whole: after a       *)
(* restart nothing of the catalogue trusted at first sight is denied.      *)
FirstUseIsWhole ==
  \A p \in Proc, s \in Server : stage[p][s] = "joined" =>
    (\A t \in ToolsOf(s) : registry[p][t] # None => current[p][t] # None)
=============================================================================
