---------------------------- MODULE ToolPinsProofs ----------------------------
(***************************************************************************)
(* What holds of the catalogue pins with one mesh7 process on the          *)
(* database, for any upstreams, tools and catalogues, however often the    *)
(* process stops and whatever becomes of its statements.                   *)
(***************************************************************************)
EXTENDS ToolPins, TLAPS

OneProcess == \A p, q \in Proc : p = q

(* A running process holds the rows, and knows their servers.              *)
PinsAreRows == \A p \in up : pins[p] = row /\ servers[p] = Trusted(row)

(* A process that does not run has no goroutine.                           *)
DownIsIdle == \A p \in Proc \ up, s \in Server : stage[p][s] = "off"

(* The pins have not seen a tool whose server they have not observed.      *)
UnobservedIsUnseen ==
  \A p \in Proc, t \in Tool : stage[p][Owner[t]] # "joined" => current[p][t] = None

(* What they have seen is what the registry holds; pinned, it has its row. *)
SeenIsLoaded ==
  \A p \in up, t \in Tool : current[p][t] # None =>
    /\ current[p][t].version = registry[p][t]
    /\ current[p][t].status = "pinned" => row[t] = registry[p][t]

IInv == TypeOK /\ PinsAreRows /\ DownIsIdle /\ UnobservedIsUnseen /\ SeenIsLoaded

-----------------------------------------------------------------------------
USE PinConstants

(* Initially no process runs and nothing is pinned.                        *)
LEMMA InitIInv == Init => IInv
  BY DEF Init, IInv, TypeOK, PinsAreRows, DownIsIdle, UnobservedIsUnseen, SeenIsLoaded,
     Nothing, Stage, Versions

(* Pinning some tools in the version given for them keeps the types.       *)
LEMMA PinType ==
  ASSUME TypeOK, NEW p \in Proc, NEW tools, NEW written \in SUBSET Tool, NEW version,
         \A t \in written : version[t] \in Version, Pin(p, tools, written, version)
  PROVE  /\ row' \in [Tool -> Versions]
         /\ pins' \in [Proc -> [Tool -> Versions]]
         /\ servers' \in [Proc -> SUBSET Server]
  <1>1. row' \in [Tool -> Versions]
    BY DEF TypeOK, Pin, Versions
  <1>2. pins' \in [Proc -> [Tool -> Versions]]
    BY DEF TypeOK, Pin, Versions
  <1>3. {Owner[t] : t \in written} \in SUBSET Server
    OBVIOUS
  <1>4. servers' \in [Proc -> SUBSET Server]
    BY <1>3 DEF TypeOK, Pin
  <1> QED
    BY <1>1, <1>2, <1>4

(* With one process, its memory of the pins stays that of the rows.        *)
LEMMA PinAgrees ==
  ASSUME OneProcess, TypeOK, PinsAreRows, NEW p \in up, NEW tools,
         NEW written \in SUBSET Tool, NEW version,
         \A t \in written : version[t] \in Version, Pin(p, tools, written, version), up' = up
  PROVE  PinsAreRows'
  <1> SUFFICES pins'[p] = row' /\ servers'[p] = Trusted(row')
    BY DEF PinsAreRows, OneProcess, TypeOK
  <1>1. pins'[p] = row'
    BY DEF PinsAreRows, TypeOK, Pin
  <1>2. {t \in Tool : row'[t] # None} = {t \in Tool : row[t] # None} \cup written
    BY DEF Pin, TypeOK
  <1>3. Trusted(row') = Trusted(row) \cup {Owner[t] : t \in written}
    BY <1>2 DEF Trusted
  <1> QED
    BY <1>1, <1>3 DEF PinsAreRows, TypeOK, Pin

-----------------------------------------------------------------------------
(* Types. *)

LEMMA TypeStep == TypeOK /\ [Next]_vars => TypeOK'
  <1> SUFFICES ASSUME TypeOK, [Next]_vars PROVE TypeOK'
    OBVIOUS
  <1> USE DEF TypeOK, world, memory, manager, life
  <1>1. ASSUME NEW s \in Server, Publish(s) PROVE TypeOK'
    <2>1. PICK new \in [ToolsOf(s) -> Versions] :
            catalogue' = [t \in Tool |-> IF Owner[t] = s THEN new[t] ELSE catalogue[t]]
      BY <1>1 DEF Publish
    <2>2. catalogue' \in [Tool -> Versions]
      BY <2>1 DEF ToolsOf
    <2>3. changes' \in 0 .. MaxChanges
      BY <1>1 DEF Publish
    <2> QED
      BY <1>1, <2>2, <2>3 DEF Publish
  <1>2. ASSUME NEW s \in Server, Outage(s) PROVE TypeOK'
    <2>1. outages' \in 0 .. MaxOutages /\ reachable' \subseteq Server
      BY <1>2 DEF Outage
    <2> QED
      BY <1>2, <2>1 DEF Outage
  <1>3. ASSUME NEW p \in Proc, Start(p) PROVE TypeOK'
    <2>1. starts' \in 0 .. MaxStarts
      BY <1>3 DEF Start
    <2>2. Trusted(row) \in SUBSET Server
      BY DEF Trusted
    <2>3. /\ stage' \in [Proc -> [Server -> Stage]]
          /\ booting' \in [Proc -> SUBSET Server]
      BY <1>3 DEF Start, Stage, Dialing
    <2> QED
      BY <1>3, <2>1, <2>2, <2>3 DEF Start
  <1>4. ASSUME NEW p \in Proc, Stop(p) PROVE TypeOK'
    <2>1. stage' \in [Proc -> [Server -> Stage]]
      BY <1>4 DEF Stop, Stage, Dialing
    <2>2. current' \in [Proc -> [Tool -> View \cup {None}]]
      BY <1>4 DEF Stop, Nothing
    <2>3. Nothing \in [Tool -> Versions]
      BY DEF Nothing, Versions
    <2> QED
      BY <1>4, <2>1, <2>2, <2>3 DEF Stop
  <1>5. ASSUME NEW p \in Proc, NEW s \in Server, Connecting(p, s) \/ Reconnect(p, s)
        PROVE TypeOK'
    <2>1. Catalogue(p, s) \in [Proc -> [Tool -> Versions]]
      BY DEF Catalogue
    <2>2. \A where \in Stage : Goto(p, s, where) => stage' \in [Proc -> [Server -> Stage]]
      BY DEF Goto
    <2>3. CASE Dial(p, s)
      <3>1. stage' \in [Proc -> [Server -> Stage]]
        BY <2>2, <2>3 DEF Dial, Stage
      <3> QED
        BY <2>1, <2>3, <3>1 DEF Dial
    <2>4. CASE DialFails(p, s)
      <3>1. stage' \in [Proc -> [Server -> Stage]]
        BY <2>2, <2>4 DEF DialFails, Stage
      <3>2. /\ retrying' \in [Proc -> SUBSET Server]
            /\ booting' \in [Proc -> SUBSET Server]
        BY <2>4 DEF DialFails
      <3> QED
        BY <2>4, <3>1, <3>2 DEF DialFails
    <2>5. CASE Wake(p, s)
      <3>1. stage' \in [Proc -> [Server -> Stage]]
        BY <2>2, <2>5 DEF Wake, Stage, Dialing
      <3> QED
        BY <2>5, <3>1 DEF Wake
    <2>6. CASE Add(p, s)
      <3>1. stage' \in [Proc -> [Server -> Stage]]
        BY <2>2, <2>6 DEF Add, Stage
      <3>2. /\ clients' \in [Proc -> SUBSET Server]
            /\ retrying' \in [Proc -> SUBSET Server]
        BY <2>6 DEF Add
      <3> QED
        BY <2>6, <3>1, <3>2 DEF Add
    <2>7. CASE LoadMCP(p, s)
      <3>1. stage' \in [Proc -> [Server -> Stage]]
        BY <2>2, <2>7 DEF LoadMCP, Stage
      <3>2. registry' \in [Proc -> [Tool -> Versions]]
        BY <2>7 DEF LoadMCP
      <3> QED
        BY <2>7, <3>1, <3>2 DEF LoadMCP
    <2>8. CASE Observe(p, s)
      <3> DEFINE tools == {t \in ToolsOf(s) : registry[p][t] # None}
      <3>1. tools \in SUBSET Tool /\ \A t \in tools : registry[p][t] \in Version
        BY DEF ToolsOf, Versions
      <3>2. stage' \in [Proc -> [Server -> Stage]]
        BY <2>2, <2>8 DEF Observe, Stage
      <3>3. booting' \in [Proc -> SUBSET Server]
        BY <2>8 DEF Observe
      <3>4. /\ row' \in [Tool -> Versions] /\ pins' \in [Proc -> [Tool -> Versions]]
            /\ servers' \in [Proc -> SUBSET Server]
            /\ current' \in [Proc -> [Tool -> View \cup {None}]]
        <4>1. CASE s \notin servers[p]
          <5>1. PICK written \in SUBSET tools :
                  /\ Pin(p, tools, written, registry[p])
                  /\ current' = [current EXCEPT ![p] = [t \in Tool |->
                       IF t \in written THEN Compared(registry[p][t], registry[p][t]) ELSE @[t]]]
            BY <2>8, <4>1 DEF Observe
          <5>2. \A t \in written : Compared(registry[p][t], registry[p][t]) \in View
            BY <3>1 DEF Compared, View, Status
          <5>3. current' \in [Proc -> [Tool -> View \cup {None}]]
            BY <5>1, <5>2
          <5> QED
            BY <3>1, <5>1, <5>3, PinType
        <4>2. CASE s \in servers[p]
          <5>1. \A t \in tools : Compared(pins[p][t], registry[p][t]) \in View
            BY <3>1 DEF Compared, View, Status
          <5>2. current' = [current EXCEPT ![p] = [t \in Tool |->
                       IF t \in tools THEN Compared(pins[p][t], registry[p][t]) ELSE @[t]]]
            BY <2>8, <4>2 DEF Observe
          <5> QED
            BY <2>8, <4>2, <5>1, <5>2 DEF Observe
        <4> QED
          BY <4>1, <4>2
      <3> QED
        BY <2>8, <3>2, <3>3, <3>4 DEF Observe
    <2>9. CASE Reconnect(p, s)
      BY <2>1, <2>9 DEF Reconnect
    <2> QED
      BY <1>5, <2>3, <2>4, <2>5, <2>6, <2>7, <2>8, <2>9 DEF Connecting
  <1>6. ASSUME NEW p \in Proc, NEW names \in SUBSET Tool, Accept(p, names) PROVE TypeOK'
    <2> DEFINE loaded == {t \in names : current[p][t] # None}
    <2>1. PICK written \in SUBSET loaded :
            /\ Pin(p, names, written, [t \in loaded |-> current[p][t].version])
            /\ current' = [current EXCEPT ![p] = [t \in Tool |->
                 IF t \in written THEN [@[t] EXCEPT !.status = "pinned"] ELSE @[t]]]
      BY <1>6 DEF Accept
    <2>2. \A t \in loaded : current[p][t] \in View
      OBVIOUS
    <2>3. \A t \in written : [t_1 \in loaded |-> current[p][t_1].version][t] \in Version
      BY <2>2 DEF View
    <2>4. /\ row' \in [Tool -> Versions] /\ pins' \in [Proc -> [Tool -> Versions]]
          /\ servers' \in [Proc -> SUBSET Server]
      BY <2>1, <2>3, PinType
    <2>5. \A t \in written : [current[p][t] EXCEPT !.status = "pinned"] \in View
      BY <2>2 DEF View, Status
    <2>6. current' \in [Proc -> [Tool -> View \cup {None}]]
      BY <2>1, <2>5
    <2> QED
      BY <1>6, <2>4, <2>6 DEF Accept
  <1>7. CASE UNCHANGED vars
    BY <1>7 DEF vars
  <1> QED
    BY <1>1, <1>2, <1>3, <1>4, <1>5, <1>6, <1>7 DEF Next

-----------------------------------------------------------------------------
(* The inductive invariant. *)

(* A step that leaves the pins, the rows and the registry alone and moves  *)
(* no goroutine of a server that was observed.                             *)
LEMMA QuietStep ==
  ASSUME IInv, NEW p \in up, NEW s \in Server, NEW where \in Stage,
         stage[p][s] # "joined", Goto(p, s, where), where # "off",
         UNCHANGED <<row, up, registry, memory>>
  PROVE  (PinsAreRows /\ DownIsIdle /\ UnobservedIsUnseen /\ SeenIsLoaded)'
  <1> USE DEF IInv, TypeOK, memory
  <1>1. PinsAreRows'
    BY DEF PinsAreRows, Trusted
  <1>2. DownIsIdle'
    BY DEF DownIsIdle, Goto
  <1>3. UnobservedIsUnseen'
    BY DEF UnobservedIsUnseen, Goto
  <1>4. SeenIsLoaded'
    BY DEF SeenIsLoaded
  <1> QED
    BY <1>1, <1>2, <1>3, <1>4

(* Observe at first sight: the server has no pin, what it declares gets    *)
(* one unless its row cannot be written.                                   *)
LEMMA FirstSight ==
  ASSUME OneProcess, IInv, NEW p \in up, NEW s \in Server, Observe(p, s), s \notin servers[p]
  PROVE  (PinsAreRows /\ DownIsIdle /\ UnobservedIsUnseen /\ SeenIsLoaded)'
  <1> USE DEF IInv
  <1> DEFINE tools == {t \in ToolsOf(s) : registry[p][t] # None}
  <1>1. PICK written \in SUBSET tools :
          /\ Pin(p, tools, written, registry[p])
          /\ current' = [current EXCEPT ![p] = [t \in Tool |->
               IF t \in written THEN Compared(registry[p][t], registry[p][t]) ELSE @[t]]]
    BY DEF Observe
  <1>2. \A t \in written : t \in Tool /\ Owner[t] = s /\ registry[p][t] \in Version
    BY DEF ToolsOf, TypeOK, Versions
  <1>3. up' = up /\ registry' = registry /\ stage[p][s] = "observe"
    BY DEF Observe, life
  <1>4. stage' = [stage EXCEPT ![p][s] = "joined"]
    BY DEF Observe, Goto
  <1>5. PinsAreRows'
    BY <1>1, <1>2, <1>3, PinAgrees
  <1>6. DownIsIdle'
    BY <1>3, <1>4 DEF DownIsIdle, TypeOK
  <1>7. UnobservedIsUnseen'
    BY <1>1, <1>2, <1>3, <1>4 DEF UnobservedIsUnseen, TypeOK
  <1>8. SeenIsLoaded'
    <2> SUFFICES ASSUME NEW t \in Tool, current'[p][t] # None
                 PROVE  /\ current'[p][t].version = registry[p][t]
                        /\ current'[p][t].status = "pinned" => row'[t] = registry[p][t]
      BY <1>3 DEF SeenIsLoaded, OneProcess, TypeOK
    <2>1. CASE t \in written
      BY <1>1, <1>2, <2>1 DEF Compared, Pin, TypeOK
    <2>2. CASE t \notin written
      BY <1>1, <2>2 DEF SeenIsLoaded, Pin, TypeOK
    <2> QED
      BY <2>1, <2>2
  <1> QED
    BY <1>5, <1>6, <1>7, <1>8

(* Observe of a server with pins: its tools are compared with them.        *)
LEMMA LaterSight ==
  ASSUME OneProcess, IInv, NEW p \in up, NEW s \in Server, Observe(p, s), s \in servers[p]
  PROVE  (PinsAreRows /\ DownIsIdle /\ UnobservedIsUnseen /\ SeenIsLoaded)'
  <1> USE DEF IInv
  <1> DEFINE tools == {t \in ToolsOf(s) : registry[p][t] # None}
  <1>1. current' = [current EXCEPT ![p] = [t \in Tool |->
               IF t \in tools THEN Compared(pins[p][t], registry[p][t]) ELSE @[t]]]
    BY DEF Observe
  <1>2. UNCHANGED <<up, registry, row, pins, servers>> /\ stage[p][s] = "observe"
    BY DEF Observe, life
  <1>3. stage' = [stage EXCEPT ![p][s] = "joined"]
    BY DEF Observe, Goto
  <1>4. PinsAreRows'
    BY <1>2 DEF PinsAreRows, Trusted
  <1>5. DownIsIdle'
    BY <1>2, <1>3 DEF DownIsIdle, TypeOK
  <1>6. UnobservedIsUnseen'
    <2>1. \A t \in tools : t \in Tool /\ Owner[t] = s
      BY DEF ToolsOf
    <2> QED
      BY <1>1, <1>2, <1>3, <2>1 DEF UnobservedIsUnseen, TypeOK
  <1>7. SeenIsLoaded'
    <2> SUFFICES ASSUME NEW t \in Tool, current'[p][t] # None
                 PROVE  /\ current'[p][t].version = registry[p][t]
                        /\ current'[p][t].status = "pinned" => row[t] = registry[p][t]
      BY <1>2 DEF SeenIsLoaded, OneProcess, TypeOK
    <2>1. CASE t \in tools
      <3>1. current'[p][t] = Compared(row[t], registry[p][t])
        BY <1>1, <2>1 DEF PinsAreRows, TypeOK
      <3> QED
        BY <3>1, <2>1 DEF Compared
    <2>2. CASE t \notin tools
      BY <1>1, <2>2 DEF SeenIsLoaded, TypeOK
    <2> QED
      BY <2>1, <2>2
  <1> QED
    BY <1>4, <1>5, <1>6, <1>7

(* Accept, of some loaded tools.                                           *)
LEMMA AcceptStep ==
  ASSUME OneProcess, IInv, NEW p \in Proc, NEW names \in SUBSET Tool, Accept(p, names)
  PROVE  (PinsAreRows /\ DownIsIdle /\ UnobservedIsUnseen /\ SeenIsLoaded)'
  <1> USE DEF IInv
  <1> DEFINE loaded == {t \in names : current[p][t] # None}
             version == [t \in loaded |-> current[p][t].version]
  <1>1. PICK written \in SUBSET loaded :
          /\ Pin(p, names, written, version)
          /\ current' = [current EXCEPT ![p] = [t \in Tool |->
               IF t \in written THEN [@[t] EXCEPT !.status = "pinned"] ELSE @[t]]]
    BY DEF Accept
  <1>2. p \in up /\ UNCHANGED <<up, registry, stage>>
    BY DEF Accept, life
  <1>3. \A t \in loaded : current[p][t] \in View
    BY DEF TypeOK
  <1>4. \A t \in written : version[t] \in Version
    BY <1>3 DEF View
  <1>5. PinsAreRows'
    BY <1>1, <1>2, <1>4, PinAgrees
  <1>6. DownIsIdle'
    BY <1>2 DEF DownIsIdle
  <1>7. \A t \in Tool : current'[p][t] # None => current[p][t] # None
    BY <1>1 DEF TypeOK
  <1>8. UnobservedIsUnseen'
    BY <1>2, <1>7 DEF UnobservedIsUnseen, OneProcess
  <1>9. SeenIsLoaded'
    <2> SUFFICES ASSUME NEW t \in Tool, current'[p][t] # None
                 PROVE  /\ current'[p][t].version = registry[p][t]
                        /\ current'[p][t].status = "pinned" => row'[t] = registry[p][t]
      BY <1>2 DEF SeenIsLoaded, OneProcess, TypeOK
    <2>1. CASE t \in written
      <3>1. current'[p][t] = [current[p][t] EXCEPT !.status = "pinned"]
        BY <1>1, <2>1 DEF TypeOK
      <3>2. current'[p][t].version = current[p][t].version
        BY <3>1, <1>3, <2>1 DEF View
      <3>3. row'[t] = current[p][t].version
        BY <1>1, <2>1 DEF Pin, TypeOK
      <3> QED
        BY <1>2, <1>3, <2>1, <3>2, <3>3 DEF SeenIsLoaded
    <2>2. CASE t \notin written
      BY <1>1, <1>2, <2>2 DEF SeenIsLoaded, Pin, TypeOK
    <2> QED
      BY <2>1, <2>2
  <1> QED
    BY <1>5, <1>6, <1>8, <1>9

LEMMA InvStep == OneProcess /\ IInv /\ [Next]_vars => IInv'
  <1> SUFFICES ASSUME OneProcess, IInv, [Next]_vars
               PROVE  (PinsAreRows /\ DownIsIdle /\ UnobservedIsUnseen /\ SeenIsLoaded)'
    BY TypeStep DEF IInv
  <1> USE DEF IInv
  <1>1. ASSUME NEW s \in Server, Publish(s) \/ Outage(s)
        PROVE  (PinsAreRows /\ DownIsIdle /\ UnobservedIsUnseen /\ SeenIsLoaded)'
    BY <1>1 DEF Publish, Outage, life, memory, PinsAreRows, Trusted, DownIsIdle,
       UnobservedIsUnseen, SeenIsLoaded
  <1>2. ASSUME NEW p \in Proc, Start(p)
        PROVE  (PinsAreRows /\ DownIsIdle /\ UnobservedIsUnseen /\ SeenIsLoaded)'
    <2>1. UNCHANGED <<row, registry, current>> /\ up' = up \cup {p} /\ p \notin up
      BY <1>2 DEF Start
    <2>2. \A t \in Tool : current[p][t] = None
      BY <2>1 DEF DownIsIdle, UnobservedIsUnseen, TypeOK
    <2>3. PinsAreRows'
      BY <1>2, <2>1 DEF Start, PinsAreRows, Trusted, OneProcess, TypeOK
    <2>4. DownIsIdle'
      BY <1>2, <2>1 DEF Start, DownIsIdle, OneProcess, TypeOK
    <2>5. UnobservedIsUnseen'
      BY <2>1, <2>2 DEF UnobservedIsUnseen, OneProcess
    <2>6. SeenIsLoaded'
      BY <2>1, <2>2 DEF SeenIsLoaded, OneProcess, TypeOK
    <2> QED
      BY <2>3, <2>4, <2>5, <2>6
  <1>3. ASSUME NEW p \in Proc, Stop(p)
        PROVE  (PinsAreRows /\ DownIsIdle /\ UnobservedIsUnseen /\ SeenIsLoaded)'
    <2>1. up' = {}
      BY <1>3 DEF Stop, OneProcess, TypeOK
    <2>2. \A s \in Server : stage'[p][s] = "off"
      BY <1>3 DEF Stop, TypeOK
    <2>3. \A t \in Tool : current'[p][t] = None
      BY <1>3 DEF Stop, Nothing, TypeOK
    <2> QED
      BY <2>1, <2>2, <2>3 DEF PinsAreRows, DownIsIdle, UnobservedIsUnseen, SeenIsLoaded, OneProcess
  <1>4. ASSUME NEW p \in Proc, NEW s \in Server, Connecting(p, s) \/ Reconnect(p, s)
        PROVE  (PinsAreRows /\ DownIsIdle /\ UnobservedIsUnseen /\ SeenIsLoaded)'
    <2>1. p \in up
      BY <1>4 DEF DownIsIdle, Connecting, Dial, DialFails, Wake, Add, LoadMCP, Observe, Reconnect,
         Dialing
    <2>2. CASE Dial(p, s)
      BY <2>1, <2>2, QuietStep DEF Dial, Dialing, Stage, life
    <2>3. CASE DialFails(p, s)
      BY <2>1, <2>3, QuietStep DEF DialFails, Dialing, Stage, life
    <2>4. CASE Wake(p, s)
      BY <2>1, <2>4, QuietStep DEF Wake, Dialing, Stage, life
    <2>5. CASE Add(p, s)
      BY <2>1, <2>5, QuietStep DEF Add, Stage, life
    <2>6. CASE LoadMCP(p, s)
      <3>1. stage[p][s] = "load" /\ stage' = [stage EXCEPT ![p][s] = "observe"]
        BY <2>6 DEF LoadMCP, Goto
      <3>2. UNCHANGED <<row, up, pins, servers, current>>
        BY <2>6 DEF LoadMCP, life, memory
      <3>3. \A t \in Tool : Owner[t] = s => current[p][t] = None
        BY <3>1 DEF UnobservedIsUnseen, TypeOK
      <3>4. \A t \in Tool : Owner[t] # s => registry'[p][t] = registry[p][t]
        BY <2>6 DEF LoadMCP, TypeOK
      <3>5. PinsAreRows'
        BY <3>2 DEF PinsAreRows, Trusted
      <3>6. DownIsIdle' /\ UnobservedIsUnseen'
        BY <2>1, <3>1, <3>2 DEF DownIsIdle, UnobservedIsUnseen, TypeOK
      <3>7. SeenIsLoaded'
        BY <2>1, <3>2, <3>3, <3>4 DEF SeenIsLoaded, OneProcess, TypeOK
      <3> QED
        BY <3>5, <3>6, <3>7
    <2>7. CASE Observe(p, s)
      BY <2>1, <2>7, FirstSight, LaterSight
    <2>8. CASE Reconnect(p, s)
      BY <2>8 DEF Reconnect, life, memory, PinsAreRows, Trusted, DownIsIdle,
         UnobservedIsUnseen, SeenIsLoaded
    <2> QED
      BY <1>4, <2>2, <2>3, <2>4, <2>5, <2>6, <2>7, <2>8 DEF Connecting
  <1>5. ASSUME NEW p \in Proc, NEW names \in SUBSET Tool, Accept(p, names)
        PROVE  (PinsAreRows /\ DownIsIdle /\ UnobservedIsUnseen /\ SeenIsLoaded)'
    BY <1>5, AcceptStep
  <1>6. CASE UNCHANGED vars
    BY <1>6 DEF vars, life, memory, PinsAreRows, Trusted, DownIsIdle, UnobservedIsUnseen, SeenIsLoaded
  <1> QED
    BY <1>1, <1>2, <1>3, <1>4, <1>5, <1>6 DEF Next

-----------------------------------------------------------------------------
(* Theorems. *)

(* Every reachable state is type correct, for any number of processes:     *)
(* what Observe and Accept store is a version or nothing.                  *)
THEOREM PinTypes == Spec => []TypeOK
  <1>1. Init => TypeOK
    BY InitIInv DEF IInv
  <1> QED
    BY <1>1, TypeStep, PTL DEF Spec

(* IInv is an invariant when one process uses the database.                *)
THEOREM PinInvariant ==
  ASSUME OneProcess
  PROVE  Spec => []IInv
  <1>1. IInv /\ [Next]_vars => IInv'
    BY InvStep
  <1> QED
    BY <1>1, InitIInv, PTL DEF Spec

(* What Floor lets through is the version that was accepted: the status    *)
(* pinned is given only to what the row holds.                             *)
THEOREM FreeWasAccepted ==
  ASSUME OneProcess
  PROVE  Spec => []FreeIsAccepted
  <1>1. IInv => FreeIsAccepted
    <2> SUFFICES ASSUME IInv, NEW p \in up, NEW t \in Tool, current[p][t] # None,
                        Floor(p, t) = "none"
                 PROVE  row[t] = registry[p][t]
      BY DEF FreeIsAccepted
    <2>1. current[p][t] \in View
      BY DEF IInv, TypeOK
    <2>2. current[p][t].status = "pinned"
      BY <2>1 DEF Floor, View, Status
    <2> QED
      BY <2>2 DEF IInv, SeenIsLoaded
  <1> QED
    BY <1>1, PinInvariant, PTL

(* A pin moves by Accept alone: Observe pins at first sight only, and a    *)
(* process that runs knows the servers of every row.                       *)
THEOREM TrustIsMovedByAccept ==
  ASSUME OneProcess
  PROVE  Spec => TrustMovesByAccept
  <1>1. IInv /\ [Next]_vars =>
          [\A t \in Tool : row[t] # None /\ row'[t] # row[t] =>
             \E p \in Proc, names \in SUBSET Tool : t \in names /\ Accept(p, names)]_vars
    <2> SUFFICES ASSUME IInv, Next, NEW t \in Tool, row[t] # None, row'[t] # row[t]
                 PROVE  \E p \in Proc, names \in SUBSET Tool : t \in names /\ Accept(p, names)
      OBVIOUS
    <2>1. ASSUME NEW p \in Proc, NEW s \in Server, Observe(p, s) PROVE FALSE
      <3>1. p \in up
        BY <2>1 DEF IInv, DownIsIdle, Observe
      <3>2. s \notin servers[p]
        BY <2>1 DEF Observe
      <3>3. PICK written \in SUBSET ToolsOf(s) : Pin(p, ToolsOf(s), written, registry[p])
        BY <2>1, <3>2 DEF Observe, Pin
      <3>4. Owner[t] = s
        BY <3>3 DEF Pin, ToolsOf
      <3>5. Owner[t] \in servers[p]
        BY <3>1 DEF IInv, PinsAreRows, Trusted
      <3> QED
        BY <3>2, <3>4, <3>5
    <2>2. PICK p \in Proc, names \in SUBSET Tool : Accept(p, names)
      BY <2>1 DEF Next, Connecting, Publish, Outage, Start, Stop, Dial, DialFails, Wake, Add,
         LoadMCP, Reconnect, world, life
    <2>3. t \in names
      BY <2>2 DEF Accept, Pin
    <2> QED
      BY <2>2, <2>3
  <1> QED
    BY <1>1, PinInvariant, PTL DEF Spec, TrustMovesByAccept
=============================================================================
