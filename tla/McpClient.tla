------------------------------- MODULE McpClient -------------------------------
(***************************************************************************)
(* A client of an upstream MCP server (mcp/client.go, its transports): the *)
(* handshake, the calls in flight, the read loops, and the loops that      *)
(* reconnect when a read loop ends.                                        *)
(*                                                                         *)
(* The goroutines of a client share c.tr, c.done and the map of pending    *)
(* requests; only the map and the status are locked, so every use of c.tr  *)
(* is a step of its own and means the transport of that moment.  The       *)
(* upstream may drop a connection, refuse a start or a request, or leave   *)
(* one unanswered, in a handshake or later, MaxFaults times in all.        *)
(*                                                                         *)
(* A client has one kind of transport: a subprocess ("stdio"), an event    *)
(* stream with POSTs beside it ("sse"), or POSTs alone, each answered in   *)
(* its own response ("streamable").                                        *)
(***************************************************************************)
EXTENDS Naturals, FiniteSets

CONSTANTS
  Call,            \* tools/call requests, each made once
  Loop,            \* reconnectLoop goroutines alive at the same time, a bound
  Reader,          \* readLoop goroutines alive at the same time, a bound
  Connect,         \* the goroutine of the first connection
  Transport,       \* transports in use at the same time, numbered: a bound
  Kinds,           \* the kinds of transport there are
  MaxFaults,       \* bound on the faults of the upstream
  MaxStrays,       \* bound on the handshakes of reconnects that fail
  Refusals,        \* TRUE: the upstream may answer with an error
  Closes           \* after how many of the faults mesh7 may shut down, a bound

ASSUME ClientConstants ==
  /\ Connect \notin Loop \cup Call /\ Loop \cap Call = {}
  /\ IsFiniteSet(Loop) /\ IsFiniteSet(Reader)
  /\ Transport \subseteq Nat \ {0} /\ 1 \in Transport
  /\ Kinds \subseteq {"stdio", "sse", "streamable"}
  /\ {MaxFaults, MaxStrays} \subseteq Nat
  /\ Refusals \in BOOLEAN /\ Closes \subseteq Nat

VARIABLES
  kind,     \* the transports this client makes
  status,   \* MCPClient.status
  tr,       \* MCPClient.tr, and the done channel made with it
  line,     \* Transport -> "free", "new", "open", "lost", "closed"
  done,     \* the transports whose done channel is closed
  reader,   \* readLoop goroutine -> "off", "started", "reading", "failing"
  on,       \* readLoop goroutine -> the transport it is for, or 0
  unread,   \* the transports whose readLoop went on to read another
  pc, stage,\* goroutine -> where it is, the request it makes
  pending,  \* the goroutines with an entry in MCPClient.pending
  inbox,    \* goroutine -> the response in its channel, or "none"
  asked,    \* goroutine -> the transport an answer may come by, or 0
  awaits,   \* goroutine -> the done channel it selects on, or 0
  strays,   \* handshakes of a reconnect that failed under their read loop
  listed,   \* MCPClient.tools holds the catalogue of the upstream
  added,    \* the first connection succeeded: the manager has the client
  panicked, \* a goroutine outside the handlers used a stream that is nil
  faults

Dialer == Loop \cup {Connect}
Process == Dialer \cup Call

wires == <<kind, tr, line, done>>
readers == <<reader, on, unread>>
requests == <<pending, inbox, asked, awaits, strays>>
flags == <<listed, added, panicked, faults>>
clientVars == <<status, wires, readers, pc, stage, requests, flags>>

Handshake == {"start", "register", "write", "wait", "notify"}
ClientTypeOK ==
  /\ kind \in Kinds
  /\ status \in {"connecting", "ready", "error", "closed"}
  /\ tr \in Transport
  /\ line \in [Transport -> {"free", "new", "open", "lost", "closed"}]
  /\ done \subseteq Transport
  /\ reader \in [Reader -> {"off", "started", "reading", "failing"}]
  /\ on \in [Reader -> Transport \cup {0}] /\ unread \subseteq Transport
  /\ pc \in [Process -> Handshake \cup {"off", "sleep", "swap", "giveUp",
                                        "hangUp", "returned", "panicked"}]
  /\ stage \in [Process -> {"initialize", "list", "call"}]
  /\ pending \subseteq Process
  /\ inbox \in [Process -> {"none", "answer", "error"}]
  /\ asked \in [Process -> Transport \cup {0}]
  /\ awaits \in [Process -> Transport \cup {0}]
  /\ {listed, added, panicked} \subseteq BOOLEAN
  /\ faults \in 0 .. MaxFaults /\ strays \in 0 .. MaxStrays

-----------------------------------------------------------------------------
ClientInit ==
  /\ kind \in Kinds
  /\ status = "connecting"
  /\ tr = 1 /\ line = [t \in Transport |-> IF t = 1 THEN "new" ELSE "free"] /\ done = {}
  /\ reader = [r \in Reader |-> "off"] /\ on = [r \in Reader |-> 0] /\ unread = {}
  /\ pc = [p \in Process |-> IF p = Connect THEN "start" ELSE "off"]
  /\ stage = [p \in Process |-> IF p \in Call THEN "call" ELSE "initialize"]
  /\ pending = {} /\ inbox = [p \in Process |-> "none"]
  /\ asked = [p \in Process |-> 0] /\ awaits = [p \in Process |-> 0]
  /\ strays = 0
  /\ listed = FALSE /\ added = FALSE /\ panicked = FALSE /\ faults = 0

Goto(p, where) == pc' = [pc EXCEPT ![p] = where]
SetStatus(s) == status' = IF status = "closed" THEN "closed" ELSE s

(* The upstream fails once more. *)
Fault == faults < MaxFaults /\ faults' = faults + 1

(* Close of a transport: one that was not started has nothing to close. *)
Shut(t) == [line EXCEPT ![t] = IF @ = "new" THEN "new" ELSE "closed"]

(* readLoop goroutine r is there for transport t. *)
Serves(r, t) == reader[r] \in {"started", "reading"} /\ on[r] = t
Heard(t) == line[t] = "open" /\ \E r \in Reader : Serves(r, t)

(* failAllPending: an error for everyone waiting, unless an answer is there. *)
FailAllPending ==
  /\ inbox' = [p \in Process |->
                 IF p \in pending /\ inbox[p] = "none" THEN "error" ELSE inbox[p]]
  /\ pending' = {}

(* A panic in an HTTP handler ends the request, elsewhere the process. *)
Alive == ~panicked

-----------------------------------------------------------------------------
(* send and connectInternal. *)

(* send ends without a response: a failed attempt, a failed call.  A read  *)
(* loop that the failed handshake has started goes on.                     *)
Failed(p) ==
  /\ Goto(p, CASE p \in Call -> "returned" [] p \in Loop -> "sleep" [] p = Connect -> "giveUp")
  /\ stage' = [stage EXCEPT ![p] = IF p \in Call THEN "call" ELSE "initialize"]
  /\ pending' = pending \ {p}
  /\ inbox' = [inbox EXCEPT ![p] = "none"]
  /\ asked' = [asked EXCEPT ![p] = 0]
  /\ awaits' = [awaits EXCEPT ![p] = 0]
  /\ IF p \in Loop /\ pc[p] # "start" THEN strays < MaxStrays /\ strays' = strays + 1
                                    ELSE UNCHANGED strays

(* A nil dereference; the deferred clean-up of send still runs. *)
Panic(p) ==
  /\ panicked' = (p \notin Call)
  /\ Goto(p, IF p \in Call THEN "returned" ELSE "panicked")
  /\ pending' = pending \ {p}
  /\ inbox' = [inbox EXCEPT ![p] = "none"]
  /\ UNCHANGED <<stage, asked, awaits, strays>>

(* go c.readLoop(): the goroutine, on its way to transport t. *)
SpawnReader(t) ==
  LET r == CHOOSE r \in Reader : reader[r] = "off" IN
  /\ \E q \in Reader : reader[q] = "off"
  /\ reader' = [reader EXCEPT ![r] = "started"]
  /\ on' = [on EXCEPT ![r] = t]

(* Variant: the read loop started before the transport is known to work. *)
StartReadingFirst(p) ==
  /\ Alive /\ pc[p] = "start"
  /\ SpawnReader(tr)
  /\ \/ /\ line[tr] = "new" \/ kind = "sse"
        /\ line' = [line EXCEPT ![tr] = "open"]
        /\ Goto(p, "register")
        /\ UNCHANGED <<status, stage, requests, faults>>
     \/ /\ \/ line[tr] # "new" /\ kind = "stdio" /\ UNCHANGED <<line, faults>>
           \/ Fault /\ line' = [line EXCEPT ![tr] = "lost"]
        /\ SetStatus("error")
        /\ Failed(p)
  /\ UNCHANGED <<kind, tr, done, unread, listed, added, panicked>>

(* c.tr.Start, then the goroutine of the read loop.  An event stream may   *)
(* be opened again (it stays one line here), a process is started once;    *)
(* one that could not be started has its pipes closed, or none.            *)
Start(p) ==
  /\ Alive /\ pc[p] = "start"
  /\ \/ /\ line[tr] = "new" \/ kind = "sse"
        /\ line' = [line EXCEPT ![tr] = "open"]
        /\ SpawnReader(tr)
        /\ Goto(p, "register")
        /\ UNCHANGED <<status, stage, requests, faults>>
     \/ /\ \/ line[tr] # "new" /\ kind = "stdio" /\ UNCHANGED <<line, faults>>
           \/ /\ Fault
              /\ line' \in {line} \cup IF line[tr] = "new" THEN {[line EXCEPT ![tr] = "closed"]}
                                                          ELSE {}
        /\ SetStatus("error")
        /\ Failed(p)
        /\ UNCHANGED <<reader, on>>
  /\ UNCHANGED <<kind, tr, done, unread, listed, added, panicked>>

(* The entry in the pending map, before the write. *)
Register(p) ==
  /\ Alive /\ pc[p] = "register"
  /\ pending' = pending \cup {p}
  /\ Goto(p, "write")
  /\ UNCHANGED <<status, wires, readers, stage, inbox, asked, awaits, strays, flags>>

(* WriteRequest of c.tr.  A process takes a line while it lives, a POST    *)
(* leaves whatever became of the stream beside it; only a stdio transport  *)
(* has a stream to write to before it is started.                          *)
WriteLeaves == kind = "streamable" \/ line[tr] = "open" \/ (kind = "sse" /\ line[tr] # "new")

(* A write may fail where the line is not open, and every POST may fail. *)
WriteFails ==
  \/ kind = "stdio" /\ line[tr] \in {"lost", "closed"} /\ UNCHANGED faults
  \/ kind = "sse" /\ line[tr] # "open" /\ UNCHANGED faults
  \/ kind # "stdio" /\ Fault

WritePanics == kind = "stdio" /\ line[tr] = "new"

(* No answer can come by a stream that has ended; a POST of its own may    *)
(* end without one (an empty body, a 202, an event stream cut short).      *)
Write(p) ==
  /\ Alive /\ pc[p] = "write"
  /\ \/ /\ WriteLeaves
        /\ \/ line[tr] = "open" /\ asked' = [asked EXCEPT ![p] = tr] /\ UNCHANGED faults
           \/ line[tr] # "open" /\ asked' = [asked EXCEPT ![p] = 0] /\ UNCHANGED faults
           \/ kind = "streamable" /\ Fault /\ asked' = [asked EXCEPT ![p] = 0]
        /\ awaits' = [awaits EXCEPT ![p] = tr]
        /\ Goto(p, "wait")
        /\ UNCHANGED <<stage, pending, inbox, strays, panicked>>
     \/ WriteFails /\ Failed(p) /\ UNCHANGED panicked
     \/ WritePanics /\ Panic(p) /\ UNCHANGED faults
  /\ UNCHANGED <<status, wires, readers, listed, added>>

(* The response, whose error a handshake does not look at: initialize goes *)
(* on, tools/list reads a catalogue with nothing in it.                    *)
Receive(p) ==
  /\ Alive /\ pc[p] = "wait" /\ inbox[p] # "none"
  /\ pending' = pending \ {p}
  /\ inbox' = [inbox EXCEPT ![p] = "none"]
  /\ asked' = [asked EXCEPT ![p] = 0]
  /\ awaits' = [awaits EXCEPT ![p] = 0]
  /\ CASE stage[p] = "initialize" ->
            Goto(p, "notify") /\ UNCHANGED <<status, stage, listed, added>>
       [] stage[p] = "list" ->
            /\ Goto(p, "off")
            /\ stage' = [stage EXCEPT ![p] = "initialize"]
            /\ listed' = (inbox[p] = "answer")
            /\ SetStatus("ready")
            /\ added' = (added \/ p = Connect)
       [] stage[p] = "call" ->
            /\ Goto(p, "returned")
            /\ UNCHANGED <<status, stage, listed, added>>
  /\ UNCHANGED <<wires, readers, strays, panicked, faults>>

(* The done channel, or the deadline of a handshake; a call has none. *)
StopWaiting(p) ==
  /\ Alive /\ pc[p] = "wait"
  /\ \/ awaits[p] \in done /\ UNCHANGED faults
     \/ p \in Dialer /\ IF asked[p] # 0 /\ Heard(asked[p]) THEN Fault ELSE UNCHANGED faults
  /\ Failed(p)
  /\ UNCHANGED <<status, wires, readers, listed, added, panicked>>

(* notifications/initialized, then tools/list. *)
Notify(p) ==
  /\ Alive /\ pc[p] = "notify"
  /\ \/ /\ WriteLeaves
        /\ Goto(p, "register")
        /\ stage' = [stage EXCEPT ![p] = "list"]
        /\ UNCHANGED <<requests, panicked, faults>>
     \/ WriteFails /\ Failed(p) /\ UNCHANGED panicked
     \/ WritePanics /\ Panic(p) /\ UNCHANGED faults
  /\ UNCHANGED <<status, wires, readers, listed, added>>

(* CallTool, whatever the status, and its entry in the pending map. *)
CallTool(p) ==
  /\ Alive /\ added /\ p \in Call /\ pc[p] = "off"
  /\ pending' = pending \cup {p}
  /\ Goto(p, "write")
  /\ UNCHANGED <<status, wires, readers, stage, inbox, asked, awaits, strays, flags>>

-----------------------------------------------------------------------------
(* readLoop. *)

(* The goroutine runs and reads c.tr, which may be another one by now. *)
ReadBegins(r) ==
  /\ Alive /\ reader[r] = "started"
  /\ IF line[tr] = "new" /\ kind # "streamable"
     THEN panicked' = TRUE /\ UNCHANGED readers
     ELSE /\ reader' = [reader EXCEPT ![r] = "reading"]
          /\ on' = [on EXCEPT ![r] = tr]
          /\ unread' = IF on[r] = tr THEN unread ELSE unread \cup {on[r]}
          /\ UNCHANGED panicked
  /\ UNCHANGED <<status, wires, pc, stage, requests, listed, added, faults>>

(* The upstream answers a request it got, someone reads the answer. *)
Answer(p) ==
  /\ Alive /\ asked[p] # 0 /\ p \in pending
  /\ line[asked[p]] = "open" /\ \E r \in Reader : reader[r] = "reading" /\ on[r] = asked[p]
  /\ pending' = pending \ {p}
  /\ \/ inbox' = [inbox EXCEPT ![p] = "answer"] /\ UNCHANGED faults
     \/ Refusals /\ Fault /\ inbox' = [inbox EXCEPT ![p] = "error"]
  /\ UNCHANGED <<status, wires, readers, pc, stage, asked, awaits, strays, listed, added, panicked>>

(* The stream ends: nothing more to do for a closed client. *)
ReadEnds(r) ==
  /\ Alive /\ reader[r] = "reading" /\ line[on[r]] \in {"lost", "closed"}
  /\ IF status = "closed"
       THEN reader' = [reader EXCEPT ![r] = "off"] /\ UNCHANGED status
       ELSE reader' = [reader EXCEPT ![r] = "failing"] /\ status' = "error"
  /\ on' = [on EXCEPT ![r] = 0]
  /\ UNCHANGED <<wires, unread, pc, stage, requests, flags>>

(* go c.reconnectLoop() *)
SpawnLoop ==
  LET l == CHOOSE l \in Loop : pc[l] = "off" IN
  (\E k \in Loop : pc[k] = "off") /\ Goto(l, "sleep")

(* Variant: failAllPending forgotten. *)
ReconnectSilently(r) ==
  /\ Alive /\ reader[r] = "failing"
  /\ reader' = [reader EXCEPT ![r] = "off"]
  /\ SpawnLoop
  /\ UNCHANGED <<status, wires, on, unread, stage, requests, flags>>

(* failAllPending, then a goroutine that reconnects. *)
Reconnect(r) ==
  /\ Alive /\ reader[r] = "failing"
  /\ reader' = [reader EXCEPT ![r] = "off"]
  /\ FailAllPending
  /\ SpawnLoop
  /\ UNCHANGED <<status, wires, on, unread, stage, asked, awaits, strays, flags>>

-----------------------------------------------------------------------------
(* reconnectLoop. *)

(* The backoff is over: the old transport is closed. *)
Wake(l) ==
  /\ Alive /\ l \in Loop /\ pc[l] = "sleep"
  /\ IF status = "closed" THEN Goto(l, "off") /\ UNCHANGED line
                          ELSE Goto(l, "swap") /\ line' = Shut(tr)
  /\ UNCHANGED <<kind, status, tr, done, readers, stage, requests, flags>>

(* A transport nobody uses any more is taken again for a fresh one. *)
Reusable(t) ==
  /\ t # tr /\ ~(\E r \in Reader : Serves(r, t)) /\ line[t] # "open"
  /\ \A p \in Process : asked[p] # t /\ awaits[p] # t

Swap(l) ==
  /\ Alive /\ l \in Loop /\ pc[l] = "swap"
  /\ LET free == {t \in Transport : Reusable(t)}
         t == CHOOSE t \in free : \A u \in free : t <= u
     IN /\ free # {}
        /\ tr' = t
        /\ line' = [line EXCEPT ![t] = "new"]
        /\ done' = done \ {t} /\ unread' = unread \ {t}
  /\ Goto(l, "start")
  /\ UNCHANGED <<kind, status, reader, on, stage, requests, flags>>

-----------------------------------------------------------------------------
(* Close of the client, by Connect when it failed or by the shutdown. *)

MayClose == pc[Connect] = "giveUp" \/ (added /\ pc[Connect] = "off" /\ faults \in Closes)

CloseClient ==
  /\ Alive /\ MayClose
  /\ status' = "closed"
  /\ FailAllPending
  /\ done' = done \cup {tr}
  /\ Goto(Connect, "hangUp")
  /\ UNCHANGED <<kind, tr, line, readers, stage, asked, awaits, strays, flags>>

HangUp ==
  /\ Alive /\ pc[Connect] = "hangUp"
  /\ line' = Shut(tr)
  /\ Goto(Connect, "returned")
  /\ UNCHANGED <<kind, status, tr, done, readers, stage, requests, flags>>

-----------------------------------------------------------------------------
(* The upstream drops a connection: POSTs alone have none. *)
Drop(t) ==
  /\ Alive /\ kind # "streamable" /\ line[t] = "open" /\ Fault
  /\ line' = [line EXCEPT ![t] = "lost"]
  /\ UNCHANGED <<kind, status, tr, done, readers, pc, stage, requests, listed, added, panicked>>

Dial(p) == Start(p) \/ Register(p) \/ Write(p) \/ Receive(p) \/ StopWaiting(p) \/ Notify(p)
ReadLoop(r) == ReadBegins(r) \/ ReadEnds(r) \/ Reconnect(r)
Redial(l) == Wake(l) \/ Swap(l)

ClientNext ==
  \/ \E p \in Process : Dial(p)
  \/ \E p \in Call : CallTool(p)
  \/ \E p \in Process : Answer(p)
  \/ \E r \in Reader : ReadLoop(r)
  \/ \E l \in Loop : Redial(l)
  \/ CloseClient
  \/ HangUp
  \/ \E t \in Transport : Drop(t)

ClientSpec == ClientInit /\ [][ClientNext]_clientVars

(* What a call rests on: it takes its response, read loops run, and the    *)
(* upstream answers what it got on a connection that stays open.           *)
CallFairness ==
  /\ \A p \in Call : WF_clientVars(Dial(p)) /\ WF_clientVars(Answer(p))
  /\ \A r \in Reader : WF_clientVars(ReadLoop(r))

(* And every other goroutine runs, every timer fires. *)
ClientFairness ==
  /\ CallFairness
  /\ \A p \in Dialer : WF_clientVars(Dial(p)) /\ WF_clientVars(Answer(p))
  /\ \A l \in Loop : WF_clientVars(Redial(l))
  /\ WF_clientVars(pc[Connect] = "giveUp" /\ CloseClient) /\ WF_clientVars(HangUp)

CallSpec == ClientSpec /\ CallFairness
FairClientSpec == ClientSpec /\ ClientFairness

-----------------------------------------------------------------------------
(* The goroutines that hold a connection or work towards one. *)
Redialing == {d \in Dialer : pc[d] \in {"sleep", "swap", "start"}}
Reading == {r \in Reader : reader[r] # "off"}
GivesUp == ~Alive \/ status = "closed" \/ pc[Connect] = "giveUp"

(* A client has one goroutine that reads a connection or reconnects, until *)
(* it is closed, and exactly one more for every handshake of a reconnect   *)
(* that failed: its read loop, started before it, stays, and reconnects in *)
(* its turn (connectInternal, readLoop, reconnectLoop).                    *)
ReconnectsAreCounted ==
  ~GivesUp => Cardinality(Reading) + Cardinality(Redialing) = 1 + strays

(* The goroutines and the transports of the model suffice.                 *)
RoomLeft ==
  /\ (\E r \in Reader : reader[r] = "failing") => \E l \in Loop : pc[l] = "off"
  /\ (\E p \in Dialer : pc[p] = "start") => \E r \in Reader : reader[r] = "off"
  /\ (\E l \in Loop : pc[l] = "swap") => \E t \in Transport : Reusable(t)

(* A call that an answer may still reach returns, answered or not: nobody  *)
(* waits on a connection that is gone, through drops, failed handshakes    *)
(* and crossing reconnects, unless the read loop of that connection began  *)
(* on another, or mesh7 has closed the client or died (send, readLoop,     *)
(* failAllPending).                                                        *)
EveryCallEnds ==
  []RoomLeft =>
    \A p \in Call : pc[p] = "wait" /\ asked[p] # 0
                      ~> pc[p] # "wait" \/ asked[p] \in unread \/ status = "closed" \/ ~Alive

(* Every call returns: over an event stream that has ended, or after a     *)
(* POST without an answer, it does not.                                    *)
EveryWaitEnds ==
  []RoomLeft =>
    \A p \in Call : pc[p] = "wait" ~> pc[p] # "wait" \/ status = "closed" \/ ~Alive

(* One goroutine reconnects at a time.                                     *)
OneReconnect == Cardinality({l \in Loop : pc[l] # "off"}) <= 1

(* Once the upstream stays up, the client settles on a connection          *)
(* (readLoop, reconnectLoop).                                              *)
ReconnectSettles ==
  [](RoomLeft /\ strays < MaxStrays) => <>[](status \in {"ready", "closed"} \/ ~Alive)

(* A ready client has the tools of its upstream (connectInternal).         *)
ReadyHasTools == status = "ready" => listed

(* Nothing is written to or read from a transport before it is started     *)
(* (send, readLoop, the swap of reconnectLoop).                            *)
OnlyStartedIsUsed == Alive /\ \A p \in Process : pc[p] = "write" => ~WritePanics

(* A closed client has no connection left open (Close).                    *)
NothingOutlivesClose ==
  <>[](status = "closed") => <>[](\A t \in Transport : line[t] # "open")

-----------------------------------------------------------------------------
(* The inductive invariant behind these properties (McpProofs).            *)

(* Who is where: a call never dials, a dialer never calls.                 *)
StagesHold ==
  /\ DOMAIN stage = Process
  /\ \A p \in Process : stage[p] \in IF p \in Call THEN {"call"} ELSE {"initialize", "list"}
PlacesHold ==
  /\ StagesHold
  /\ tr \in Transport /\ DOMAIN line = Transport /\ strays \in Nat
  /\ DOMAIN pc = Process /\ DOMAIN reader = Reader /\ DOMAIN on = Reader
  /\ \A p \in Call : pc[p] \notin {"start", "register", "notify"}
  /\ pc[Connect] \notin {"sleep", "swap"}
  /\ pc[Connect] \in {"hangUp", "returned"} => status = "closed"
  /\ \A r \in Reader : reader[r] \in {"off", "started", "reading", "failing"}

ClientIInv == PlacesHold /\ ReconnectsAreCounted

(* What EveryCallEnds rests on: a request that waits for an answer is in   *)
(* the map, and the connection it went out on has a reader, or one that    *)
(* has ended is about to fail the map (send, readLoop, failAllPending).    *)
SomeoneFails == \E r \in Reader : reader[r] = "failing"
Read(t) == \E r \in Reader : Serves(r, t)
WaitersAreServed ==
  Alive /\ status # "closed" =>
    \A p \in Process : pc[p] = "wait" /\ asked[p] # 0 /\ inbox[p] = "none" =>
      p \in pending /\ (SomeoneFails \/ Read(asked[p]) \/ asked[p] \in unread)

(* Who writes has an entry or an answer, and an open line is read, unless  *)
(* its reader went elsewhere.                                              *)
ServedIInv ==
  /\ PlacesHold
  /\ DOMAIN inbox = Process /\ DOMAIN asked = Process
  /\ \A p \in Process : pc[p] \in {"write", "wait"} => p \in pending \/ inbox[p] # "none"
  /\ Alive /\ status # "closed" =>
       \A t \in Transport : line[t] = "open" => Read(t) \/ t \in unread
  /\ WaitersAreServed
=============================================================================
