------------------------------- MODULE McpProofs -------------------------------
(***************************************************************************)
(* What holds of the two ends of MCP over any connection: of the client,   *)
(* for any kind of transport, any calls, goroutines and transports, and    *)
(* any faults of the upstream, in a handshake or later; of the sessions of *)
(* the server, for any clients, shuttles, credentials and postures,        *)
(* however requests overlap, sessions are closed, keys rotate and the      *)
(* daemon restarts.                                                        *)
(***************************************************************************)
EXTENDS Sessions, McpClient, FiniteSetTheorems, TLAPS

-----------------------------------------------------------------------------
(* The client: its goroutines *)

(* Both are finite, so one more or one less is seen in the number.         *)
LEMMA FinitelyMany ==
  /\ IsFiniteSet(Reading) /\ IsFiniteSet(Redialing)
  /\ Cardinality(Reading) \in Nat /\ Cardinality(Redialing) \in Nat
<1>1. IsFiniteSet(Dialer)
  BY ClientConstants, FS_AddElement DEF Dialer
<1>2. Reading \in SUBSET Reader /\ Redialing \in SUBSET Dialer
  BY DEF Reading, Redialing
<1> QED
  BY <1>1, <1>2, ClientConstants, FS_Subset, FS_CardinalityType

(* The first connection is the one goroutine of a new client.              *)
LEMMA ClientStarts == ClientInit => ClientIInv
<1> SUFFICES ASSUME ClientInit PROVE ClientIInv
  OBVIOUS
<1>1. PlacesHold
  BY ClientConstants DEF ClientInit, PlacesHold, StagesHold, Process, Dialer
<1>2. Reading = {} /\ Redialing = {Connect} /\ strays = 0
  BY ClientConstants DEF ClientInit, Reading, Redialing, Process, Dialer
<1>3. Cardinality(Reading) = 0 /\ Cardinality(Redialing) = 1
  BY <1>2, FS_EmptySet, FS_Singleton
<1>4. ReconnectsAreCounted
  BY <1>2, <1>3 DEF ReconnectsAreCounted
<1> QED
  BY <1>1, <1>4 DEF ClientIInv

(* A goroutine that may hold nothing but a place in the count goes on.     *)
Turns(p, where) ==
  /\ p \in Process /\ Goto(p, where)
  /\ p \in Call => where \notin {"start", "register", "notify"}
  /\ p = Connect => /\ where \notin {"sleep", "swap"}
                    /\ where \in {"hangUp", "returned"} => status' = "closed"
  /\ status = "closed" => status' = "closed"
  /\ panicked => panicked'
  /\ tr' \in Transport /\ DOMAIN line' = Transport /\ StagesHold'

(* It leaves every other goroutine where it is.                            *)
LEMMA TurnKeepsPlaces ==
  ASSUME PlacesHold, NEW p, NEW where, Turns(p, where), UNCHANGED <<reader, on>>, strays' \in Nat
  PROVE  PlacesHold'
BY ClientConstants DEF PlacesHold, Turns, Goto, Process, Dialer

(* The dialers after it.                                                   *)
LEMMA TurnMovesOne ==
  ASSUME PlacesHold, NEW p, NEW where, Turns(p, where)
  PROVE  /\ p \notin Dialer => Redialing' = Redialing
         /\ p \in Dialer /\ where \in {"sleep", "swap", "start"} => Redialing' = Redialing \cup {p}
         /\ where \notin {"sleep", "swap", "start"} => Redialing' = Redialing \ {p}
<1>1. \A d \in Dialer : pc'[d] = IF d = p THEN where ELSE pc[d]
  BY DEF PlacesHold, Turns, Goto, Process
<1> QED
  BY <1>1 DEF Redialing

(* A client that gave up does not come back.                               *)
LEMMA TurnKeepsGivenUp ==
  ASSUME PlacesHold, NEW p, NEW where, Turns(p, where),
         p = Connect => pc[Connect] # "giveUp" \/ status' = "closed"
  PROVE  GivesUp => GivesUp'
BY DEF PlacesHold, Turns, Goto, GivesUp, Alive, Process, Dialer

(* A step of a call, or of a dialer that stays on its side, counts as      *)
(* before.                                                                 *)
LEMMA TurnKeepsCount ==
  ASSUME ClientIInv, NEW p, NEW where, Turns(p, where), UNCHANGED <<reader, on, strays>>,
         p = Connect => pc[Connect] # "giveUp" \/ status' = "closed",
         \/ GivesUp'
         \/ p \notin Dialer
         \/ p \in Redialing /\ where \in {"sleep", "swap", "start"}
         \/ p \notin Redialing /\ where \notin {"sleep", "swap", "start"}
  PROVE  ClientIInv'
<1>1. PlacesHold'
  BY TurnKeepsPlaces DEF ClientIInv, PlacesHold
<1>2. GivesUp => GivesUp'
  BY TurnKeepsGivenUp DEF ClientIInv
<1>3. ASSUME ~GivesUp' PROVE Redialing' = Redialing
  <2>1. p \in Redialing => p \in Dialer
    BY DEF Redialing
  <2> QED
    BY <1>3, <2>1, TurnMovesOne DEF ClientIInv
<1>4. Reading' = Reading
  BY DEF Reading
<1>5. ReconnectsAreCounted'
  BY <1>2, <1>3, <1>4 DEF ClientIInv, ReconnectsAreCounted
<1> QED
  BY <1>1, <1>5 DEF ClientIInv

(* An attempt of a reconnect that fails: before its transport is started   *)
(* it is as if it had not been made, afterwards there is one more.         *)
LEMMA FailedStep ==
  ASSUME ClientIInv, Alive, NEW p \in Process, Failed(p),
         pc[p] \in Handshake, pc[p] = "start" => p \in Dialer,
         UNCHANGED <<tr, reader, on, panicked>>, DOMAIN line' = Transport,
         status = "closed" <=> status' = "closed"
  PROVE  ClientIInv'
<1> USE ClientConstants
<1>1. tr' \in Transport /\ StagesHold'
  BY DEF ClientIInv, PlacesHold, StagesHold, Failed
<1>2. CASE p \in Call
  <2>1. Turns(p, "returned") /\ strays' = strays /\ p \notin Dialer /\ p # Connect
    BY <1>1, <1>2 DEF Failed, Turns, Dialer
  <2> QED
    BY <2>1, TurnKeepsCount
<1>3. CASE p = Connect
  <2>1. Turns(p, "giveUp") /\ strays' = strays /\ p \notin Loop
    BY <1>1, <1>3 DEF Failed, Turns
  <2>2. pc[p] # "giveUp"
    BY DEF Handshake
  <2>3. GivesUp'
    BY <1>3, <2>1 DEF ClientIInv, PlacesHold, Turns, Goto, GivesUp
  <2> QED
    BY <1>3, <2>1, <2>2, <2>3, TurnKeepsCount
<1>4. CASE p \in Loop
  <2>1. Turns(p, "sleep") /\ p \in Dialer /\ p # Connect
    BY <1>1, <1>4 DEF Failed, Turns, Dialer
  <2>2. CASE pc[p] = "start"
    <3>1. p \in Redialing /\ strays' = strays
      BY <2>1, <2>2 DEF Redialing, Failed
    <3> QED
      BY <2>1, <3>1, TurnKeepsCount
  <2>3. CASE pc[p] # "start"
    <3>1. strays' = strays + 1
      BY <1>4, <2>3 DEF Failed
    <3>2. p \notin Redialing
      BY <2>3 DEF Redialing, Handshake
    <3>3. PlacesHold'
      BY <2>1, <3>1, TurnKeepsPlaces DEF ClientIInv, PlacesHold
    <3>4. Redialing' = Redialing \cup {p} /\ Reading' = Reading
      BY <2>1, TurnMovesOne DEF ClientIInv, Reading
    <3>5. Cardinality(Redialing') = Cardinality(Redialing) + 1
      BY <3>2, <3>4, FinitelyMany, FS_AddElement
    <3>6. GivesUp => GivesUp'
      BY <2>1, TurnKeepsGivenUp DEF ClientIInv
    <3>7. ReconnectsAreCounted'
      BY <3>1, <3>4, <3>5, <3>6, FinitelyMany DEF ClientIInv, ReconnectsAreCounted, PlacesHold
    <3> QED
      BY <3>3, <3>7 DEF ClientIInv
  <2> QED
    BY <2>2, <2>3
<1> QED
  BY <1>2, <1>3, <1>4 DEF Process, Dialer

(* A panic ends a handler, or the daemon.                                  *)
LEMMA PanicStep ==
  ASSUME ClientIInv, Alive, NEW p \in Process, Panic(p), pc[p] \in Handshake,
         UNCHANGED <<tr, reader, on>>, DOMAIN line' = Transport, status' = status
  PROVE  ClientIInv'
<1> USE ClientConstants
<1>1. tr' \in Transport /\ StagesHold' /\ strays' = strays /\ pc[p] # "giveUp"
  BY DEF ClientIInv, PlacesHold, StagesHold, Panic, Handshake
<1>2. CASE p \in Call
  <2>1. Turns(p, "returned") /\ p \notin Dialer /\ p # Connect
    BY <1>1, <1>2 DEF Panic, Turns, Alive, Dialer
  <2> QED
    BY <1>1, <2>1, TurnKeepsCount
<1>3. CASE p \notin Call
  <2>1. Turns(p, "panicked") /\ GivesUp'
    BY <1>1, <1>3 DEF Panic, Turns, Alive, GivesUp
  <2> QED
    BY <1>1, <2>1, TurnKeepsCount
<1> QED
  BY <1>2, <1>3

(* A transport that starts: its dialer is done waiting, a reader is there. *)
LEMMA StartStep ==
  ASSUME ClientIInv, NEW p \in Process, Start(p)
  PROVE  ClientIInv'
<1> USE ClientConstants
<1>0. /\ Alive /\ pc[p] = "start" /\ p \in Dialer /\ p \notin Call
      /\ UNCHANGED <<tr, panicked>> /\ tr' \in Transport
  BY DEF Start, ClientIInv, PlacesHold, Process, Dialer
<1>1. CASE SpawnReader(tr) /\ Goto(p, "register") /\ line' = [line EXCEPT ![tr] = "open"]
           /\ UNCHANGED <<status, stage, requests, faults>>
  <2>1. PICK r \in Reader : /\ reader[r] = "off" /\ reader' = [reader EXCEPT ![r] = "started"]
                            /\ on' = [on EXCEPT ![r] = tr]
    BY <1>1 DEF SpawnReader
  <2>2. DOMAIN line' = Transport /\ strays' = strays /\ StagesHold'
    BY <1>1 DEF ClientIInv, PlacesHold, StagesHold, requests
  <2>3. Turns(p, "register")
    BY <1>0, <1>1, <2>2 DEF Turns
  <2>4. PlacesHold'
    BY <1>0, <1>1, <2>1, <2>2 DEF ClientIInv, PlacesHold, Goto, Process, Dialer
  <2>5. Redialing' = Redialing \ {p} /\ p \in Redialing
    BY <1>0, <2>3, TurnMovesOne DEF ClientIInv, Redialing
  <2>6. Reading' = Reading \cup {r} /\ r \notin Reading
    BY <2>1 DEF ClientIInv, PlacesHold, Reading
  <2>7. /\ Cardinality(Redialing') = Cardinality(Redialing) - 1
        /\ Cardinality(Reading') = Cardinality(Reading) + 1
    BY <2>5, <2>6, FinitelyMany, FS_AddElement, FS_RemoveElement
  <2>8. GivesUp => GivesUp'
    BY <1>0, <2>3, TurnKeepsGivenUp DEF ClientIInv
  <2>9. ReconnectsAreCounted'
    BY <2>2, <2>7, <2>8, FinitelyMany DEF ClientIInv, ReconnectsAreCounted, PlacesHold
  <2> QED
    BY <2>4, <2>9 DEF ClientIInv
<1>2. CASE SetStatus("error") /\ Failed(p) /\ UNCHANGED <<reader, on>>
  <2>1. DOMAIN line' = Transport
    BY <1>0, <1>2 DEF Start, ClientIInv, PlacesHold
  <2>2. status = "closed" <=> status' = "closed"
    BY <1>2 DEF SetStatus
  <2> QED
    BY <1>0, <1>2, <2>1, <2>2, FailedStep DEF Handshake
<1> QED
  BY <1>1, <1>2 DEF Start

(* The steps of a handshake or a call after that.                          *)
LEMMA DialStep ==
  ASSUME ClientIInv, NEW p \in Process, Dial(p)
  PROVE  ClientIInv'
<1> USE ClientConstants
<1>0. tr \in Transport /\ DOMAIN line = Transport /\ StagesHold
  BY DEF ClientIInv, PlacesHold
<1>1. CASE Start(p)
  BY <1>1, StartStep
<1>2. CASE Register(p)
  <2>1. /\ Turns(p, "write") /\ UNCHANGED <<reader, on, strays>> /\ pc[p] = "register"
    BY <1>0, <1>2 DEF Register, Turns, StagesHold, wires, readers, flags
  <2>2. p \notin Redialing
    BY <2>1 DEF Redialing
  <2> QED
    BY <2>1, <2>2, TurnKeepsCount
<1>3. CASE Write(p) \/ Notify(p)
  <2>1. /\ Alive /\ pc[p] \in {"write", "notify"} /\ UNCHANGED <<status, tr, line, reader, on>>
        /\ DOMAIN line' = Transport
    BY <1>0, <1>3 DEF Write, Notify, wires, readers
  <2>2. CASE \E where \in {"wait", "register"} :
               /\ Goto(p, where) /\ UNCHANGED <<strays, panicked>> /\ StagesHold'
               /\ where = "register" => p \notin Call
    <3>1. PICK where \in {"wait", "register"} :
               /\ Goto(p, where) /\ UNCHANGED <<strays, panicked>> /\ StagesHold'
               /\ where = "register" => p \notin Call
      BY <2>2
    <3>2. Turns(p, where) /\ p \notin Redialing /\ pc[p] # "giveUp"
      BY <1>0, <2>1, <3>1 DEF Turns, Redialing
    <3> QED
      BY <2>1, <3>1, <3>2, TurnKeepsCount
  <2>3. CASE Failed(p) /\ UNCHANGED panicked
    BY <2>1, <2>3, FailedStep DEF Handshake
  <2>4. CASE Panic(p)
    BY <2>1, <2>4, PanicStep DEF Handshake
  <2>5. pc[p] = "notify" => p \notin Call
    BY DEF ClientIInv, PlacesHold
  <2>6. Write(p) => \/ Goto(p, "wait") /\ UNCHANGED <<strays, panicked>> /\ StagesHold'
                    \/ Failed(p) /\ UNCHANGED panicked
                    \/ Panic(p)
    BY <1>0 DEF Write, StagesHold
  <2>7. Notify(p) => \/ /\ pc[p] = "notify" /\ Goto(p, "register")
                        /\ UNCHANGED <<strays, panicked>> /\ StagesHold'
                     \/ Failed(p) /\ UNCHANGED panicked
                     \/ Panic(p)
    BY <1>0, <2>5 DEF Notify, StagesHold, requests
  <2> QED
    BY <1>3, <2>2, <2>3, <2>4, <2>5, <2>6, <2>7
<1>4. CASE Receive(p)
  <2>1. /\ pc[p] = "wait" /\ UNCHANGED <<tr, line, reader, on, strays, panicked>>
        /\ stage[p] \in {"initialize", "list", "call"}
    BY <1>0, <1>4 DEF Receive, StagesHold, wires, readers
  <2>2. \/ stage[p] = "initialize" /\ Goto(p, "notify") /\ UNCHANGED <<status, stage>>
        \/ stage[p] = "list" /\ Goto(p, "off") /\ stage' = [stage EXCEPT ![p] = "initialize"]
                             /\ SetStatus("ready")
        \/ stage[p] = "call" /\ Goto(p, "returned") /\ UNCHANGED <<status, stage>>
    BY <1>4, <2>1 DEF Receive
  <2>3. StagesHold' /\ (status = "closed" => status' = "closed")
    BY <1>0, <2>2 DEF StagesHold, SetStatus
  <2>4. PICK where \in {"notify", "off", "returned"} : Turns(p, where)
    BY <1>0, <2>1, <2>2, <2>3 DEF StagesHold, Turns, Dialer
  <2>5. p \notin Redialing /\ pc[p] # "giveUp"
    BY <2>1 DEF Redialing
  <2> QED
    BY <2>1, <2>4, <2>5, TurnKeepsCount
<1>5. CASE StopWaiting(p)
  <2>1. /\ Alive /\ pc[p] = "wait" /\ Failed(p) /\ UNCHANGED <<status, tr, line, reader, on, panicked>>
    BY <1>5 DEF StopWaiting, wires, readers
  <2> QED
    BY <1>0, <2>1, FailedStep DEF Handshake
<1> QED
  BY <1>1, <1>2, <1>3, <1>4, <1>5 DEF Dial

(* The read loop: it begins, ends, and hands over to a reconnect.          *)
LEMMA ReadStep ==
  ASSUME ClientIInv, NEW r \in Reader, ReadLoop(r)
  PROVE  ClientIInv'
<1> USE ClientConstants
<1>0. PlacesHold
  BY DEF ClientIInv
<1>1. CASE ReadBegins(r)
  <2>1. /\ reader[r] = "started" /\ UNCHANGED <<status, tr, line, pc, stage, strays>>
        /\ \/ panicked' = TRUE /\ UNCHANGED <<reader, on>>
           \/ /\ reader' = [reader EXCEPT ![r] = "reading"] /\ on' = [on EXCEPT ![r] = tr]
              /\ UNCHANGED panicked
    BY <1>1 DEF ReadBegins, wires, requests, readers
  <2>2. PlacesHold'
    BY <1>0, <2>1 DEF PlacesHold, StagesHold
  <2>3. Reading' = Reading /\ Redialing' = Redialing /\ (GivesUp => GivesUp')
    BY <1>0, <2>1 DEF PlacesHold, Reading, Redialing, GivesUp, Alive
  <2> QED
    BY <2>1, <2>2, <2>3 DEF ClientIInv, ReconnectsAreCounted
<1>2. CASE ReadEnds(r)
  <2>1. /\ reader[r] = "reading" /\ UNCHANGED <<tr, line, pc, stage, strays, panicked>>
        /\ on' = [on EXCEPT ![r] = 0]
        /\ \/ status = "closed" /\ status' = "closed" /\ reader' = [reader EXCEPT ![r] = "off"]
           \/ status # "closed" /\ status' = "error" /\ reader' = [reader EXCEPT ![r] = "failing"]
    BY <1>2 DEF ReadEnds, wires, requests, flags
  <2>2. PlacesHold'
    <3>1. pc[Connect] \in {"hangUp", "returned"} => status = "closed"
      BY <1>0 DEF PlacesHold
    <3>2. /\ DOMAIN reader' = Reader /\ DOMAIN on' = Reader
          /\ \A q \in Reader : reader'[q] \in {"off", "started", "reading", "failing"}
      BY <1>0, <2>1 DEF PlacesHold
    <3> QED
      BY <1>0, <2>1, <3>1, <3>2 DEF PlacesHold, StagesHold
  <2>3. ASSUME ~GivesUp' PROVE Reading' = Reading /\ Redialing' = Redialing /\ ~GivesUp
    BY <1>0, <2>1, <2>3 DEF PlacesHold, Reading, Redialing, GivesUp, Alive
  <2> QED
    BY <2>1, <2>2, <2>3 DEF ClientIInv, ReconnectsAreCounted
<1>3. CASE Reconnect(r)
  <2>1. /\ Alive /\ reader[r] = "failing" /\ reader' = [reader EXCEPT ![r] = "off"]
        /\ UNCHANGED <<status, tr, line, on, stage, strays, panicked>>
    BY <1>3 DEF Reconnect, wires, flags
  <2>2. PICK l \in Loop : pc[l] = "off" /\ Goto(l, "sleep")
    BY <1>3 DEF Reconnect, SpawnLoop
  <2>3. Turns(l, "sleep") /\ l \in Dialer /\ l # Connect
    BY <1>0, <2>1, <2>2 DEF Turns, PlacesHold, StagesHold, Process, Dialer
  <2>4. PlacesHold'
    BY <1>0, <2>1, <2>2 DEF PlacesHold, StagesHold, Goto, Process, Dialer
  <2>5. Redialing' = Redialing \cup {l} /\ l \notin Redialing
    BY <1>0, <2>2, <2>3, TurnMovesOne DEF Redialing
  <2>6. Reading' = Reading \ {r} /\ r \in Reading
    BY <1>0, <2>1 DEF PlacesHold, Reading
  <2>7. /\ Cardinality(Redialing') = Cardinality(Redialing) + 1
        /\ Cardinality(Reading') = Cardinality(Reading) - 1
    BY <2>5, <2>6, FinitelyMany, FS_AddElement, FS_RemoveElement
  <2>8. GivesUp => GivesUp'
    BY <1>0, <2>3, TurnKeepsGivenUp
  <2>9. ReconnectsAreCounted'
    BY <2>1, <2>7, <2>8, FinitelyMany DEF ClientIInv, ReconnectsAreCounted, PlacesHold
  <2> QED
    BY <2>4, <2>9 DEF ClientIInv
<1> QED
  BY <1>1, <1>2, <1>3 DEF ReadLoop

(* The transport that Swap takes is one of them.                           *)
LEMMA SwapTakesOne ==
  ASSUME NEW free \in SUBSET Transport, free # {}
  PROVE  (CHOOSE t \in free : \A u \in free : t <= u) \in free
<1>1. free \subseteq Nat
  BY ClientConstants
<1>2. PICK t \in free : \A u \in free : ~ (<<u, t>> \in OpToRel(<, Nat))
  BY <1>1, NatLessThanWellFounded, WFMin
<1>3. \A u \in free : ~ (u < t)
  BY <1>1, <1>2 DEF OpToRel
<1>4. \E x \in free : \A u \in free : x <= u
  BY <1>1, <1>3
<1> QED
  BY <1>4

(* What it does with it. *)
LEMMA SwapTakes ==
  ASSUME NEW l, Swap(l)
  PROVE  \E t \in Transport : /\ Reusable(t) /\ tr' = t
                              /\ line' = [line EXCEPT ![t] = "new"] /\ unread' = unread \ {t}
<1> DEFINE free == {t \in Transport : Reusable(t)}
           taken == CHOOSE t \in free : \A u \in free : t <= u
<1>1. /\ free # {} /\ tr' = taken
      /\ line' = [line EXCEPT ![taken] = "new"] /\ unread' = unread \ {taken}
  BY DEF Swap
<1>2. free \in SUBSET Transport /\ \A t \in free : Reusable(t)
  OBVIOUS
<1> HIDE DEF free
<1>3. taken \in free
  BY <1>1, <1>2, SwapTakesOne
<1> HIDE DEF taken
<1> QED
  BY <1>1, <1>2, <1>3

(* The loop that reconnects, before it dials.                              *)
LEMMA RedialStep ==
  ASSUME ClientIInv, NEW l \in Loop, Redial(l)
  PROVE  ClientIInv'
<1> USE ClientConstants
<1>1. /\ Alive /\ pc[l] \in {"sleep", "swap"}
      /\ UNCHANGED <<status, reader, on, stage, strays, panicked>>
  BY DEF Redial, Wake, Swap, readers, requests, flags
<1>2. PICK where \in {"off", "swap", "start"} : Goto(l, where) /\ (where = "off" => status = "closed")
  BY DEF Redial, Wake, Swap
<1>3. tr' \in Transport /\ DOMAIN line' = Transport
  <2>1. CASE Wake(l)
    BY <2>1 DEF Wake, Shut, ClientIInv, PlacesHold
  <2>2. CASE Swap(l)
    BY <2>2, SwapTakes DEF ClientIInv, PlacesHold
  <2> QED
    BY <2>1, <2>2 DEF Redial
<1>4. Turns(l, where) /\ l \in Dialer /\ l # Connect /\ l \in Redialing
  BY <1>1, <1>2, <1>3 DEF Turns, ClientIInv, PlacesHold, StagesHold, Redialing, Process, Dialer
<1>5. where = "off" => GivesUp'
  BY <1>1, <1>2 DEF GivesUp
<1> QED
  BY <1>1, <1>2, <1>4, <1>5, TurnKeepsCount

(* Close, by the goroutine of the first connection, and a lost connection. *)
LEMMA CloseStep ==
  ASSUME ClientIInv, CloseClient \/ HangUp \/ (\E t \in Transport : Drop(t))
  PROVE  ClientIInv'
<1> USE ClientConstants
<1>0. PlacesHold
  BY DEF ClientIInv
<1>1. CASE CloseClient \/ HangUp
  <2>1. PICK where \in {"hangUp", "returned"} :
          /\ Goto(Connect, where) /\ status' = "closed" /\ DOMAIN line' = Transport
          /\ UNCHANGED <<tr, reader, on, stage, strays, panicked>> /\ Alive
    BY <1>0, <1>1 DEF CloseClient, HangUp, Shut, PlacesHold, readers, requests, flags
  <2>2. Turns(Connect, where)
    BY <1>0, <2>1 DEF Turns, PlacesHold, StagesHold, Process, Dialer
  <2> QED
    BY <2>1, <2>2, TurnKeepsCount DEF GivesUp
<1>2. ASSUME NEW t \in Transport, Drop(t) PROVE ClientIInv'
  BY <1>2 DEF Drop, readers, requests, ClientIInv, PlacesHold, StagesHold, ReconnectsAreCounted,
              Reading, Redialing, GivesUp, Alive
<1> QED
  BY <1>1, <1>2

(* Every step keeps the invariant. *)
LEMMA ClientStep ==
  ASSUME ClientIInv, [ClientNext]_clientVars
  PROVE  ClientIInv'
<1> USE ClientConstants
<1>1. ASSUME NEW p \in Call, CallTool(p) PROVE ClientIInv'
  <2>1. /\ Goto(p, "write") /\ UNCHANGED <<status, tr, line, reader, on, stage, strays, panicked>>
    BY <1>1 DEF CallTool, wires, readers, flags
  <2>2. Turns(p, "write") /\ p \notin Dialer /\ p # Connect
    BY <2>1 DEF Turns, ClientIInv, PlacesHold, StagesHold, Process, Dialer
  <2> QED
    BY <2>1, <2>2, TurnKeepsCount
<1>2. ASSUME NEW p \in Process, Answer(p) PROVE ClientIInv'
  BY <1>2 DEF Answer, wires, readers, ClientIInv, PlacesHold, StagesHold, ReconnectsAreCounted,
              Reading, Redialing, GivesUp, Alive
<1>3. CASE UNCHANGED clientVars
  BY <1>3 DEF clientVars, wires, readers, requests, flags, ClientIInv, PlacesHold, StagesHold,
              ReconnectsAreCounted, Reading, Redialing, GivesUp, Alive
<1> QED
  BY <1>1, <1>2, <1>3, DialStep, ReadStep, RedialStep, CloseStep DEF ClientNext

(* Who reads, who dials and who waits to, for any number of goroutines and *)
(* any faults of the upstream.                                             *)
THEOREM ClientInvariant == ClientSpec => []ClientIInv
BY ClientStarts, ClientStep, PTL DEF ClientSpec

(* A client that has not given up has one goroutine that reads or          *)
(* reconnects, and exactly one more for each handshake of a reconnect that *)
(* failed: none is lost, so a client that lost its connection reconnects,  *)
(* and nothing else makes them pile up (connectInternal, readLoop,         *)
(* reconnectLoop).                                                         *)
THEOREM ReconnectsCounted == ClientSpec => []ReconnectsAreCounted
<1>1. ClientIInv => ReconnectsAreCounted
  BY DEF ClientIInv
<1> QED
  BY <1>1, ClientInvariant, PTL

-----------------------------------------------------------------------------
(* The client: its requests *)

(* Nobody waits before anything was asked.                                 *)
LEMMA ServedAtStart == ClientInit => ServedIInv
<1> SUFFICES ASSUME ClientInit PROVE ServedIInv
  OBVIOUS
<1>1. PlacesHold
  BY ClientStarts DEF ClientIInv
<1>2. /\ DOMAIN inbox = Process /\ DOMAIN asked = Process
      /\ \A p \in Process : pc[p] \notin {"write", "wait"}
      /\ \A t \in Transport : line[t] # "open"
  BY DEF ClientInit
<1> QED
  BY <1>1, <1>2 DEF ServedIInv, WaitersAreServed

(* Who reads after a step, and what it means for those who wait.           *)
ReadNext(t) == \E r \in Reader : reader'[r] \in {"started", "reading"} /\ on'[r] = t
LEMMA ReadersNext == \A t : Read(t)' = ReadNext(t)
BY DEF Read, Serves, ReadNext

LEMMA WaitersNext ==
  ASSUME Alive' /\ status' # "closed" =>
           \A q \in Process : pc'[q] = "wait" /\ asked'[q] # 0 /\ inbox'[q] = "none" =>
             q \in pending' /\ (SomeoneFails' \/ ReadNext(asked'[q]) \/ asked'[q] \in unread')
  PROVE  WaitersAreServed'
BY DEF WaitersAreServed, Read, Serves, ReadNext

(* A goroutine on its way: it waits only for what it wrote to an open      *)
(* line, or for nothing, and touches nothing of the others.                *)
OnItsWay(p) ==
  /\ p \in Process
  /\ \A q \in Process \ {p} :
       /\ pc'[q] = pc[q] /\ inbox'[q] = inbox[q] /\ asked'[q] = asked[q]
       /\ q \in pending => q \in pending'
  /\ DOMAIN inbox' = DOMAIN inbox /\ DOMAIN asked' = DOMAIN asked
  /\ \/ pc'[p] \notin {"write", "wait"}
     \/ pc'[p] = "write" /\ p \in pending'
     \/ /\ pc[p] = "write" /\ inbox'[p] = inbox[p] /\ (p \in pending => p \in pending')
        /\ asked'[p] = 0 \/ (line[tr] = "open" /\ asked'[p] = tr)

(* No connection opens, and whoever reads goes on.                         *)
LinesStay ==
  /\ UNCHANGED readers
  /\ \A t \in Transport : line'[t] = "open" => line[t] = "open"
  /\ status = "closed" => status' = "closed"

(* Then nobody is left alone. *)
LEMMA WayKeepsServed ==
  ASSUME ServedIInv, PlacesHold', NEW p, OnItsWay(p), Alive, LinesStay
  PROVE  ServedIInv'
<1>1. (\A t : ReadNext(t) = Read(t)) /\ SomeoneFails' = SomeoneFails /\ unread' = unread
  BY DEF LinesStay, readers, Read, Serves, ReadNext, SomeoneFails
<1>2. DOMAIN inbox' = Process /\ DOMAIN asked' = Process
  BY DEF OnItsWay, ServedIInv
<1>3. \A q \in Process : pc'[q] \in {"write", "wait"} => q \in pending' \/ inbox'[q] # "none"
  BY DEF OnItsWay, ServedIInv
<1>4. Alive' /\ status' # "closed" =>
        \A t \in Transport : line'[t] = "open" => ReadNext(t) \/ t \in unread'
  BY <1>1 DEF ServedIInv, LinesStay
<1>5. WaitersAreServed'
  <2> SUFFICES ASSUME Alive', status' # "closed",
                      NEW q \in Process, pc'[q] = "wait", asked'[q] # 0, inbox'[q] = "none"
               PROVE  q \in pending' /\ (SomeoneFails' \/ ReadNext(asked'[q]) \/ asked'[q] \in unread')
    BY WaitersNext
  <2>1. status # "closed"
    BY DEF LinesStay
  <2>2. CASE q # p
    <3>1. pc[q] = "wait" /\ asked'[q] = asked[q] /\ inbox[q] = "none" /\ (q \in pending => q \in pending')
      BY <2>2 DEF OnItsWay
    <3>2. q \in pending /\ (SomeoneFails \/ Read(asked[q]) \/ asked[q] \in unread)
      BY <2>1, <3>1 DEF ServedIInv, WaitersAreServed
    <3> QED
      BY <1>1, <3>1, <3>2 DEF Read, Serves, ReadNext
  <2>3. CASE q = p
    <3>1. line[tr] = "open" /\ asked'[p] = tr /\ tr \in Transport
      BY <2>3 DEF OnItsWay, ServedIInv, PlacesHold
    <3>2. Read(tr) \/ tr \in unread
      BY <2>1, <3>1 DEF ServedIInv
    <3> QED
      BY <1>1, <1>3, <2>3, <3>1, <3>2 DEF Read, Serves, ReadNext
  <2> QED
    BY <2>2, <2>3
<1> QED
  BY <1>2, <1>3, <1>4, <1>5, ReadersNext DEF ServedIInv

(* A goroutine that fails or panics is on its way. *)
LEMMA FailedIsOnItsWay ==
  ASSUME ServedIInv, NEW p \in Process, Failed(p) \/ Panic(p)
  PROVE  OnItsWay(p)
<1>0. DOMAIN pc = Process /\ DOMAIN inbox = Process /\ DOMAIN asked = Process
  BY DEF ServedIInv, PlacesHold
<1>1. PICK where : where \notin {"write", "wait"} /\ Goto(p, where)
  BY DEF Failed, Panic, Process, Dialer
<1>2. /\ pending' = pending \ {p} /\ inbox' = [inbox EXCEPT ![p] = "none"]
      /\ asked' = asked \/ asked' = [asked EXCEPT ![p] = 0]
  BY DEF Failed, Panic
<1> QED
  BY <1>0, <1>1, <1>2 DEF Goto, OnItsWay

(* A transport that starts has a reader, in whatever else goes on.         *)
LEMMA StartKeepsServed ==
  ASSUME ServedIInv, PlacesHold', NEW p \in Process, Start(p)
  PROVE  ServedIInv'
<1> USE ClientConstants
<1>0. DOMAIN pc = Process /\ DOMAIN line = Transport /\ tr \in Transport
      /\ DOMAIN reader = Reader /\ DOMAIN on = Reader
  BY DEF ServedIInv, PlacesHold
<1>1. CASE SetStatus("error") /\ Failed(p) /\ UNCHANGED <<reader, on>>
           /\ \/ line' = line \/ line' = [line EXCEPT ![tr] = "closed"]
  <2>1. LinesStay /\ Alive
    <3>1. \A t \in Transport : line'[t] = "open" => line[t] = "open"
      BY <1>0, <1>1
    <3>2. Alive /\ unread' = unread
      BY DEF Start
    <3> QED
      BY <1>1, <3>1, <3>2 DEF SetStatus, LinesStay, readers
  <2> QED
    BY <1>1, <2>1, FailedIsOnItsWay, WayKeepsServed
<1>2. CASE SpawnReader(tr) /\ Goto(p, "register") /\ line' = [line EXCEPT ![tr] = "open"]
           /\ UNCHANGED <<status, stage, requests, faults>>
  <2>1. PICK r \in Reader : /\ reader[r] = "off" /\ reader' = [reader EXCEPT ![r] = "started"]
                            /\ on' = [on EXCEPT ![r] = tr]
    BY <1>2 DEF SpawnReader
  <2>2. UNCHANGED <<status, tr, unread, panicked, pending, inbox, asked>> /\ pc[p] = "start"
    BY <1>2 DEF Start, requests
  <2>3. /\ ReadNext(tr) /\ (\A t : Read(t) => ReadNext(t)) /\ (SomeoneFails => SomeoneFails')
    BY <1>0, <2>1 DEF Read, Serves, ReadNext, SomeoneFails
  <2>4. pc'[p] = "register" /\ \A q \in Process : q # p => pc'[q] = pc[q]
    BY <1>0, <1>2 DEF Goto
  <2>5. \A t \in Transport : line'[t] = "open" => t = tr \/ line[t] = "open"
    BY <1>0, <1>2
  <2>6. \A q \in Process : pc'[q] \in {"write", "wait"} => q \in pending' \/ inbox'[q] # "none"
    BY <2>2, <2>4 DEF ServedIInv
  <2>7. Alive' /\ status' # "closed" =>
          \A t \in Transport : line'[t] = "open" => ReadNext(t) \/ t \in unread'
    BY <2>2, <2>3, <2>5 DEF ServedIInv, Alive
  <2>8. WaitersAreServed'
    <3> SUFFICES ASSUME Alive', status' # "closed",
                        NEW q \in Process, pc'[q] = "wait", asked'[q] # 0, inbox'[q] = "none"
                 PROVE  q \in pending' /\ (SomeoneFails' \/ ReadNext(asked'[q]) \/ asked'[q] \in unread')
      BY WaitersNext
    <3>1. q \in pending /\ (SomeoneFails \/ Read(asked[q]) \/ asked[q] \in unread)
      BY <2>2, <2>4 DEF ServedIInv, WaitersAreServed, Alive
    <3>2. Read(asked[q]) => ReadNext(asked'[q])
      BY <2>2, <2>3 DEF Read, Serves, ReadNext
    <3> QED
      BY <2>2, <2>3, <3>1, <3>2
  <2> QED
    BY <2>2, <2>6, <2>7, <2>8, ReadersNext DEF ServedIInv
<1> QED
  BY <1>1, <1>2 DEF Start

(* The steps of a handshake or a call. *)
LEMMA DialKeepsServed ==
  ASSUME ServedIInv, PlacesHold', NEW p \in Process, Dial(p)
  PROVE  ServedIInv'
<1> USE ClientConstants
<1>0. DOMAIN pc = Process /\ DOMAIN inbox = Process /\ DOMAIN asked = Process
  BY DEF ServedIInv, PlacesHold
<1>1. CASE Start(p)
  BY <1>1, StartKeepsServed
<1>2. CASE Register(p)
  <2>1. OnItsWay(p) /\ LinesStay /\ Alive
    BY <1>0, <1>2 DEF Register, Goto, OnItsWay, LinesStay, wires
  <2> QED
    BY <2>1, WayKeepsServed
<1>3. CASE Write(p)
  <2>1. Alive /\ LinesStay /\ pc[p] = "write"
    BY <1>3 DEF Write, LinesStay, wires
  <2>2. Failed(p) \/ Panic(p) => OnItsWay(p)
    BY FailedIsOnItsWay
  <2>3. ASSUME Goto(p, "wait"), UNCHANGED <<pending, inbox>>,
               \/ line[tr] = "open" /\ asked' = [asked EXCEPT ![p] = tr]
               \/ asked' = [asked EXCEPT ![p] = 0]
        PROVE  OnItsWay(p)
    BY <1>0, <2>1, <2>3 DEF Goto, OnItsWay
  <2>4. OnItsWay(p)
    BY <1>3, <2>2, <2>3 DEF Write
  <2> QED
    BY <2>1, <2>4, WayKeepsServed
<1>4. CASE Receive(p)
  <2>1. /\ Alive /\ UNCHANGED <<wires, readers>> /\ pending' = pending \ {p}
        /\ inbox' = [inbox EXCEPT ![p] = "none"] /\ asked' = [asked EXCEPT ![p] = 0]
        /\ stage[p] \in {"initialize", "list", "call"}
    BY <1>4 DEF Receive, ServedIInv, PlacesHold, StagesHold
  <2>2. PICK where : where \notin {"write", "wait"} /\ Goto(p, where)
    BY <1>4, <2>1 DEF Receive
  <2>3. status = "closed" => status' = "closed"
    BY <1>4, <2>1 DEF Receive, SetStatus
  <2>4. OnItsWay(p) /\ LinesStay
    BY <1>0, <2>1, <2>2, <2>3 DEF Goto, OnItsWay, LinesStay, wires
  <2> QED
    BY <2>1, <2>4, WayKeepsServed
<1>5. CASE StopWaiting(p)
  <2>1. OnItsWay(p) /\ LinesStay /\ Alive
    BY <1>5, FailedIsOnItsWay DEF StopWaiting, LinesStay, wires
  <2> QED
    BY <2>1, WayKeepsServed
<1>6. CASE Notify(p)
  <2>1. Alive /\ LinesStay
    BY <1>6 DEF Notify, LinesStay, wires
  <2>2. Failed(p) \/ Panic(p) => OnItsWay(p)
    BY FailedIsOnItsWay
  <2>3. ASSUME Goto(p, "register"), UNCHANGED requests PROVE OnItsWay(p)
    BY <1>0, <2>3 DEF Goto, OnItsWay, requests
  <2>4. OnItsWay(p)
    BY <1>6, <2>2, <2>3 DEF Notify
  <2> QED
    BY <2>1, <2>4, WayKeepsServed
<1> QED
  BY <1>1, <1>2, <1>3, <1>4, <1>5, <1>6 DEF Dial

(* failAllPending leaves nobody without an answer. *)
LEMMA FailedAllIsServed ==
  ASSUME ServedIInv, PlacesHold', FailAllPending, asked' = asked,
         \A q \in Process : pc'[q] = pc[q] \/ pc'[q] \notin {"write", "wait"},
         Alive' /\ status' # "closed" =>
           \A t \in Transport : line'[t] = "open" => ReadNext(t) \/ t \in unread'
  PROVE  ServedIInv'
<1>1. DOMAIN inbox' = Process
      /\ \A q \in Process : inbox'[q] = IF q \in pending /\ inbox[q] = "none" THEN "error" ELSE inbox[q]
  BY DEF FailAllPending
<1>2. \A q \in Process : pc'[q] \in {"write", "wait"} => inbox'[q] # "none"
  BY <1>1 DEF ServedIInv
<1>3. WaitersAreServed'
  BY <1>2, WaitersNext
<1> QED
  BY <1>1, <1>2, <1>3, ReadersNext DEF ServedIInv

(* The reader goes to another connection only by leaving one unread, and   *)
(* fails the map of a connection that ended.                               *)
LEMMA ReaderKeepsServed ==
  ASSUME ServedIInv, PlacesHold', NEW r \in Reader, ReadLoop(r)
  PROVE  ServedIInv'
<1> USE ClientConstants
<1>0. /\ DOMAIN pc = Process /\ DOMAIN inbox = Process /\ DOMAIN asked = Process
      /\ DOMAIN reader = Reader /\ DOMAIN on = Reader /\ tr \in Transport
  BY DEF ServedIInv, PlacesHold
<1>1. CASE ReadBegins(r)
  <2>1. UNCHANGED <<status, tr, line, pc, pending, inbox, asked>> /\ reader[r] = "started" /\ Alive
    BY <1>1 DEF ReadBegins, wires, requests
  <2>2. ASSUME Alive'
        PROVE  /\ reader' = [reader EXCEPT ![r] = "reading"] /\ on' = [on EXCEPT ![r] = tr]
               /\ unread' = IF on[r] = tr THEN unread ELSE unread \cup {on[r]}
    BY <1>1, <2>2 DEF ReadBegins, Alive
  <2>3. ASSUME Alive'
        PROVE  /\ \A t : Read(t) \/ t \in unread => ReadNext(t) \/ t \in unread'
               /\ SomeoneFails => SomeoneFails'
    BY <1>0, <2>1, <2>2, <2>3 DEF Read, Serves, ReadNext, SomeoneFails
  <2>4. \A q \in Process : asked'[q] = asked[q] /\ ReadNext(asked'[q]) = Read(asked[q])'
    BY <2>1 DEF Read, Serves, ReadNext
  <2>5. \A q \in Process : pc'[q] \in {"write", "wait"} => q \in pending' \/ inbox'[q] # "none"
    BY <2>1 DEF ServedIInv
  <2>6. Alive' /\ status' # "closed" =>
          \A t \in Transport : line'[t] = "open" => ReadNext(t) \/ t \in unread'
    BY <2>1, <2>3 DEF ServedIInv
  <2>7. WaitersAreServed'
    BY <2>1, <2>3, <2>4 DEF ServedIInv, WaitersAreServed
  <2> QED
    BY <1>0, <2>1, <2>5, <2>6, <2>7, ReadersNext DEF ServedIInv
<1>2. CASE ReadEnds(r)
  <2>1. /\ UNCHANGED <<tr, line, unread, pc, pending, inbox, asked, panicked>>
        /\ reader[r] = "reading" /\ line[on[r]] \in {"lost", "closed"}
        /\ on' = [on EXCEPT ![r] = 0]
        /\ \/ status = "closed" /\ status' = "closed"
           \/ status # "closed" /\ status' = "error" /\ reader' = [reader EXCEPT ![r] = "failing"]
    BY <1>2 DEF ReadEnds, wires, requests, flags
  <2>2. \A q \in Process : pc'[q] \in {"write", "wait"} => q \in pending' \/ inbox'[q] # "none"
    BY <2>1 DEF ServedIInv
  <2>3. CASE status = "closed"
    BY <1>0, <2>1, <2>2, <2>3 DEF ServedIInv, WaitersAreServed
  <2>4. CASE status # "closed"
    <3>1. SomeoneFails' /\ \A t \in Transport : line[t] = "open" /\ Read(t) => ReadNext(t)
      BY <1>0, <2>1, <2>4 DEF Read, Serves, ReadNext, SomeoneFails
    <3>2. Alive' => \A t \in Transport : line'[t] = "open" => ReadNext(t) \/ t \in unread'
      BY <2>1, <2>4, <3>1 DEF ServedIInv, Alive
    <3>3. WaitersAreServed'
      BY <2>1, <2>4, <3>1 DEF ServedIInv, WaitersAreServed, Alive
    <3> QED
      BY <1>0, <2>1, <2>2, <3>2, <3>3, ReadersNext DEF ServedIInv
  <2> QED
    BY <2>3, <2>4
<1>3. CASE Reconnect(r)
  <2>1. /\ UNCHANGED <<status, line, on, unread, asked, panicked>> /\ FailAllPending
        /\ reader[r] = "failing" /\ reader' = [reader EXCEPT ![r] = "off"]
    BY <1>3 DEF Reconnect, wires, flags
  <2>2. PICK l \in Loop : Goto(l, "sleep")
    BY <1>3 DEF Reconnect, SpawnLoop
  <2>3. \A q \in Process : pc'[q] = pc[q] \/ pc'[q] \notin {"write", "wait"}
    BY <1>0, <2>2 DEF Goto
  <2>4. \A t : Read(t) => ReadNext(t)
    BY <1>0, <2>1 DEF Read, Serves, ReadNext
  <2>5. Alive' /\ status' # "closed" =>
          \A t \in Transport : line'[t] = "open" => ReadNext(t) \/ t \in unread'
    BY <2>1, <2>4 DEF ServedIInv, Alive
  <2> QED
    BY <2>1, <2>3, <2>5, FailedAllIsServed
<1> QED
  BY <1>1, <1>2, <1>3 DEF ReadLoop

(* What changes the lines alone leaves who waits for what: nobody waits    *)
(* for a transport that is taken again.                                    *)
LEMMA LinesKeepServed ==
  ASSUME ServedIInv, PlacesHold', UNCHANGED <<reader, on, requests>>,
         \A q \in Process : pc'[q] = pc[q] \/ pc'[q] \notin {"write", "wait"},
         \A t \in Transport : line'[t] = "open" => line[t] = "open",
         \A t \in unread : t \in unread' \/ (Reusable(t) /\ line'[t] # "open"),
         status = "closed" => status' = "closed", panicked => panicked'
  PROVE  ServedIInv'
<1>1. (\A t : ReadNext(t) <=> Read(t)) /\ (SomeoneFails' <=> SomeoneFails) /\ UNCHANGED <<pending, inbox, asked>>
  BY DEF Read, Serves, ReadNext, SomeoneFails, requests
<1>2. \A q \in Process : pc'[q] \in {"write", "wait"} => q \in pending' \/ inbox'[q] # "none"
  BY <1>1 DEF ServedIInv
<1>3. Alive' /\ status' # "closed" =>
        \A t \in Transport : line'[t] = "open" => ReadNext(t) \/ t \in unread'
  BY <1>1 DEF ServedIInv, Alive
<1>4. WaitersAreServed'
  <2> SUFFICES ASSUME Alive', status' # "closed",
                      NEW q \in Process, pc'[q] = "wait", asked'[q] # 0, inbox'[q] = "none"
               PROVE  q \in pending' /\ (SomeoneFails' \/ ReadNext(asked'[q]) \/ asked'[q] \in unread')
    BY WaitersNext
  <2>1. q \in pending /\ (SomeoneFails \/ Read(asked[q]) \/ asked[q] \in unread)
    BY <1>1 DEF ServedIInv, WaitersAreServed, Alive
  <2>2. asked[q] \in unread => asked[q] \in unread'
    BY DEF Reusable
  <2>3. ReadNext(asked'[q]) <=> Read(asked[q])
    BY <1>1 DEF Read, Serves, ReadNext
  <2> QED
    BY <1>1, <2>1, <2>2, <2>3
<1> QED
  BY <1>1, <1>2, <1>3, <1>4, ReadersNext DEF ServedIInv

(* The loop that reconnects, Close, and a lost connection. *)
LEMMA WiringKeepsServed ==
  ASSUME ServedIInv, PlacesHold',
         (\E l \in Loop : Redial(l)) \/ CloseClient \/ HangUp \/ (\E t \in Transport : Drop(t))
  PROVE  ServedIInv'
<1> USE ClientConstants
<1>0. DOMAIN pc = Process /\ DOMAIN line = Transport /\ tr \in Transport
  BY DEF ServedIInv, PlacesHold
<1>1. ASSUME NEW l \in Loop, Wake(l) PROVE ServedIInv'
  <2>1. /\ UNCHANGED <<reader, on, unread, requests, status, panicked>>
        /\ line' = line \/ line' = Shut(tr)
        /\ Goto(l, "off") \/ Goto(l, "swap")
    BY <1>1 DEF Wake, readers, flags
  <2>2. \A t \in Transport : line'[t] = "open" => line[t] = "open"
    BY <1>0, <2>1 DEF Shut
  <2>3. \A q \in Process : pc'[q] = pc[q] \/ pc'[q] \notin {"write", "wait"}
    BY <1>0, <2>1 DEF Goto
  <2> QED
    BY <2>1, <2>2, <2>3, LinesKeepServed
<1>2. ASSUME NEW l \in Loop, Swap(l) PROVE ServedIInv'
  <2>1. PICK t \in Transport : /\ Reusable(t) /\ line' = [line EXCEPT ![t] = "new"]
                               /\ unread' = unread \ {t}
    BY <1>2, SwapTakes
  <2>2. UNCHANGED <<reader, on, requests, status, panicked>> /\ Goto(l, "start")
    BY <1>2 DEF Swap, flags
  <2>3. \A u \in Transport : line'[u] = "open" => line[u] = "open"
    BY <1>0, <2>1
  <2>4. \A u \in unread : u \in unread' \/ (Reusable(u) /\ line'[u] # "open")
    BY <1>0, <2>1
  <2>5. \A q \in Process : pc'[q] = pc[q] \/ pc'[q] \notin {"write", "wait"}
    BY <1>0, <2>2 DEF Goto
  <2> QED
    BY <2>2, <2>3, <2>4, <2>5, LinesKeepServed
<1>3. CASE CloseClient
  <2>1. status' = "closed" /\ FailAllPending /\ Goto(Connect, "hangUp") /\ asked' = asked
    BY <1>3 DEF CloseClient
  <2>2. \A q \in Process : pc'[q] = pc[q] \/ pc'[q] \notin {"write", "wait"}
    BY <1>0, <2>1 DEF Goto
  <2> QED
    BY <2>1, <2>2, FailedAllIsServed
<1>4. CASE HangUp
  <2>1. /\ UNCHANGED <<reader, on, unread, requests, status, panicked>> /\ line' = Shut(tr)
        /\ Goto(Connect, "returned")
    BY <1>4 DEF HangUp, readers, flags
  <2>2. \A t \in Transport : line'[t] = "open" => line[t] = "open"
    BY <1>0, <2>1 DEF Shut
  <2>3. \A q \in Process : pc'[q] = pc[q] \/ pc'[q] \notin {"write", "wait"}
    BY <1>0, <2>1 DEF Goto
  <2> QED
    BY <2>1, <2>2, <2>3, LinesKeepServed
<1>5. ASSUME NEW t \in Transport, Drop(t) PROVE ServedIInv'
  <2>1. UNCHANGED <<reader, on, unread, pc, requests, status, panicked>>
        /\ line' = [line EXCEPT ![t] = "lost"]
    BY <1>5 DEF Drop, readers
  <2>2. \A u \in Transport : line'[u] = "open" => line[u] = "open"
    BY <1>0, <2>1
  <2> QED
    BY <2>1, <2>2, LinesKeepServed
<1> QED
  BY <1>1, <1>2, <1>3, <1>4, <1>5 DEF Redial

(* Every step keeps the requests in sight. *)
LEMMA ServedStep ==
  ASSUME ServedIInv, PlacesHold', [ClientNext]_clientVars
  PROVE  ServedIInv'
<1>0. DOMAIN pc = Process /\ DOMAIN inbox = Process /\ DOMAIN asked = Process
  BY DEF ServedIInv, PlacesHold
<1>1. ASSUME NEW p \in Call, CallTool(p) PROVE ServedIInv'
  <2>1. OnItsWay(p) /\ LinesStay /\ Alive
    BY <1>0, <1>1 DEF CallTool, Goto, OnItsWay, LinesStay, wires, Process
  <2> QED
    BY <2>1, WayKeepsServed
<1>2. ASSUME NEW p \in Process, Answer(p) PROVE ServedIInv'
  <2>1. /\ UNCHANGED <<status, wires, readers, pc, asked, panicked>> /\ pending' = pending \ {p}
        /\ \E x \in {"answer", "error"} : inbox' = [inbox EXCEPT ![p] = x]
    BY <1>2 DEF Answer
  <2>2. /\ DOMAIN inbox' = Process
        /\ \A q \in Process : \/ q # p /\ inbox'[q] = inbox[q] /\ (q \in pending => q \in pending')
                              \/ inbox'[q] # "none"
    BY <1>0, <2>1
  <2>3. (\A t : ReadNext(t) = Read(t)) /\ SomeoneFails' = SomeoneFails
    BY <2>1 DEF readers, Read, Serves, ReadNext, SomeoneFails
  <2>4. \A q \in Process : ReadNext(asked'[q]) = Read(asked[q])
    BY <2>1 DEF readers, Read, Serves, ReadNext
  <2>5. UNCHANGED <<line, unread>>
    BY <2>1 DEF wires, readers
  <2>6. WaitersAreServed'
    <3> SUFFICES ASSUME Alive', status' # "closed",
                        NEW q \in Process, pc'[q] = "wait", asked'[q] # 0, inbox'[q] = "none"
                 PROVE  q \in pending' /\ (SomeoneFails' \/ ReadNext(asked'[q]) \/ asked'[q] \in unread')
      BY WaitersNext
    <3>1. inbox[q] = "none" /\ (q \in pending => q \in pending')
      BY <2>2
    <3>2. q \in pending /\ (SomeoneFails \/ Read(asked[q]) \/ asked[q] \in unread)
      BY <2>1, <3>1 DEF ServedIInv, WaitersAreServed, Alive
    <3> QED
      BY <2>1, <2>3, <2>4, <2>5, <3>1, <3>2
  <2>7. Alive' /\ status' # "closed" =>
          \A t \in Transport : line'[t] = "open" => ReadNext(t) \/ t \in unread'
    BY <2>1, <2>3, <2>5 DEF ServedIInv, Alive
  <2> QED
    BY <1>0, <2>1, <2>2, <2>6, <2>7, ReadersNext DEF ServedIInv
<1>3. CASE UNCHANGED clientVars
  BY <1>3, LinesKeepServed DEF clientVars, wires, readers, flags
<1> QED
  BY <1>1, <1>2, <1>3, DialKeepsServed, ReaderKeepsServed, WiringKeepsServed DEF ClientNext

(* Nobody waits in vain: until Close, a request that an answer may reach   *)
(* is in the map of pending ones, and its connection has a reader that     *)
(* will hand it over or fail the map, unless that reader began on another  *)
(* connection (send, readLoop, failAllPending).                            *)
THEOREM WaitersServed == ClientSpec => []WaitersAreServed
<1>1. ServedIInv /\ ClientIInv' /\ [ClientNext]_clientVars => ServedIInv'
  BY ServedStep DEF ClientIInv
<1>2. ServedIInv => WaitersAreServed
  BY DEF ServedIInv
<1> QED
  BY <1>1, <1>2, ServedAtStart, ClientInvariant, PTL DEF ClientSpec

-----------------------------------------------------------------------------
(* The sessions: the two lock sections of handlePost together serve a      *)
(* request under its own identity, in a session that was there when it     *)
(* arrived or is new.                                                      *)

USE SessionConstants

(* Initially nobody has a session and nobody asks for one.                 *)
LEMMA InitIInv == Init => IInv
  BY DEF Init, IInv, TypeOK, TableHolds, RequestHolds, Request, Idle, Identities

(* A credential resolves to an identity of its own.                        *)
LEMMA ResolveType ==
  /\ \A c \in Client : Resolve(Cred[c]) \subseteq Identities
  /\ Resolve(NoCredential) \subseteq Identities
  BY DEF Resolve, Identities, Anonymous, NoCredential

-----------------------------------------------------------------------------
(* The steps of the sessions *)

(* A request that arrives, whatever it names, is admitted as someone.      *)
LEMMA ArriveStep ==
  ASSUME IInv, NEW c \in Client, NEW op \in {"initialize", "call", "delete"},
         NEW s \in minted \cup {NoSid}, NEW cred, Resolve(cred) \subseteq Identities,
         Arrive(c, op, s, cred)
  PROVE  IInv'
  <1> USE DEF IInv
  <1>1. PICK i \in Admitted(op, s, cred) :
          req' = [req EXCEPT ![c] =
            [at |-> CASE op = "initialize" -> "open" [] op = "call" -> "lookup"
                      [] OTHER -> "close",
             op |-> op,
             asked |-> IF op = "initialize" THEN NoSid ELSE s,
             who |-> i, srv |-> NoSid,
             closed |-> op = "call" /\ s \notin live]]
    BY DEF Arrive
  <1>2. i \in Identities /\ (op # "initialize" => s # NoSid)
    BY DEF Admitted
  <1>3. s \in Sid \cup {NoSid}
    BY DEF TypeOK
  <1>4. req' \in [Client -> Request]
    BY <1>1, <1>2, <1>3 DEF TypeOK, Request
  <1>5. TypeOK' /\ TableHolds'
    BY <1>4 DEF Arrive, TypeOK, TableHolds, authVars, tableVars
  <1>6. ASSUME NEW d \in Client PROVE RequestHolds(req[d])'
    <2>1. CASE d = c
      BY <1>1, <1>2, <2>1 DEF Arrive, RequestHolds, TypeOK, tableVars
    <2>2. CASE d # c
      <3>1. req'[d] = req[d]
        BY <1>1, <2>2 DEF TypeOK
      <3> QED
        BY <3>1 DEF Arrive, RequestHolds, tableVars
    <2> QED
      BY <2>1, <2>2
  <1> QED
    BY <1>5, <1>6

(* When a request ends and the table loses sessions at most, the requests  *)
(* of the others go on.                                                    *)
LEMMA OverStep ==
  ASSUME IInv, NEW c \in Client, Over(c),
         UNCHANGED <<owner, minted>>, live' \subseteq live
  PROVE  /\ req' \in [Client -> Request]
         /\ \A d \in Client : RequestHolds(req[d])'
  <1> DEFINE ended == [req[c] EXCEPT !.at = "exited"]
  <1>1. /\ req[c] \in Request
        /\ RequestHolds(req[c])
    BY DEF IInv, TypeOK
  <1>2. Idle \in Request /\ ended \in Request
    BY <1>1 DEF Request, Idle
  <1>3. \/ req' = [req EXCEPT ![c] = ended] /\ req[c].op = "delete"
        \/ req' = [req EXCEPT ![c] = Idle]
    BY DEF Over
  <1>4. req' \in [Client -> Request]
    BY <1>2, <1>3 DEF IInv, TypeOK
  <1>5. ASSUME NEW d \in Client PROVE RequestHolds(req[d])'
    <2>1. CASE d # c
      <3>1. req'[d] = req[d] /\ RequestHolds(req[d])
        BY <1>3, <2>1 DEF IInv, TypeOK
      <3> QED
        BY <3>1 DEF RequestHolds
    <2>2. CASE d = c /\ req' = [req EXCEPT ![c] = Idle]
      <3>1. req'[d] = Idle
        BY <2>2 DEF IInv, TypeOK
      <3> QED
        BY <3>1 DEF RequestHolds, Idle
    <2>3. CASE d = c /\ req' = [req EXCEPT ![c] = ended] /\ req[c].op = "delete"
      <3>1. req'[d] = ended
        BY <2>3 DEF IInv, TypeOK
      <3>2. /\ ended.at = "exited" /\ ended.asked = req[c].asked
            /\ ended.closed = req[c].closed
        BY <1>1 DEF Request
      <3>3. ~req[c].closed
        BY <1>1, <2>3 DEF RequestHolds
      <3> QED
        BY <1>1, <3>1, <3>2, <3>3 DEF RequestHolds
    <2> QED
      BY <1>3, <2>1, <2>2, <2>3
  <1> QED
    BY <1>4, <1>5

(* Every step of a handler keeps the invariant.                            *)
LEMMA HandlerStepIInv ==
  ASSUME IInv, NEW c \in Client, HandlerStep(c)
  PROVE  IInv'
  <1> DEFINE r == req[c]
  <1>0. r \in Request /\ RequestHolds(r)
    BY DEF IInv, TypeOK
  <1>1. CASE Lookup(c)
    <2>1. CASE Over(c)
      BY <1>1, <2>1, OverStep DEF Lookup, IInv, TypeOK, TableHolds, authVars, tableVars
    <2>2. CASE Step(c, "open") /\ r.asked \in live /\ owner[r.asked] = r.who
      <3>1. req' = [req EXCEPT ![c] = [r EXCEPT !.at = "open"]]
        BY <2>2 DEF Step, IInv, TypeOK, Request
      <3>2. [r EXCEPT !.at = "open"] \in Request
        BY <1>0 DEF Request
      <3>3. ~r.closed
        BY <1>0, <2>2 DEF RequestHolds
      <3>4. RequestHolds([r EXCEPT !.at = "open"])
        BY <1>0, <2>2, <3>3 DEF RequestHolds, Request
      <3>5. TypeOK' /\ TableHolds'
        BY <1>1, <3>1, <3>2 DEF Lookup, IInv, TypeOK, TableHolds, authVars, tableVars
      <3>6. \A d \in Client : RequestHolds(req[d])'
        BY <1>1, <3>1, <3>4 DEF Lookup, IInv, TypeOK, RequestHolds, tableVars
      <3> QED
        BY <3>5, <3>6 DEF IInv
    <2> QED
      BY <1>1, <2>1, <2>2 DEF Lookup
  <1>2. CASE GetSession(c)
    <2> DEFINE now == [r EXCEPT !.at = "serve", !.srv = r.asked]
    <2>1. req' = [req EXCEPT ![c] = now]
      BY <1>2 DEF GetSession, IInv, TypeOK, Request
    <2>2. r.asked \in minted /\ r.asked # NoSid /\ owner[r.asked] = r.who /\ ~r.closed
      BY <1>0, <1>2 DEF GetSession, IInv, TypeOK, TableHolds, RequestHolds
    <2>3. now \in Request /\ RequestHolds(now)
      BY <1>0, <2>2 DEF Request, RequestHolds
    <2>4. TypeOK' /\ TableHolds'
      BY <1>2, <2>1, <2>3 DEF GetSession, IInv, TypeOK, TableHolds, authVars, tableVars
    <2>5. \A d \in Client : RequestHolds(req[d])'
      BY <1>2, <2>1, <2>3 DEF GetSession, IInv, TypeOK, RequestHolds, tableVars
    <2> QED
      BY <2>4, <2>5 DEF IInv
  <1>3. CASE CreateSession(c)
    <2>1. PICK s \in Sid \ minted :
            /\ live' = live \cup {s}
            /\ owner' = [owner EXCEPT ![s] = r.who]
            /\ minted' = minted \cup {s}
            /\ req' = [req EXCEPT ![c].at = "serve", ![c].srv = s]
      BY <1>3 DEF CreateSession
    <2> DEFINE now == [r EXCEPT !.at = "serve", !.srv = s]
    <2>2. req' = [req EXCEPT ![c] = now]
      BY <2>1 DEF IInv, TypeOK, Request
    <2>3. now \in Request /\ now.asked = r.asked /\ now.at = "serve" /\ now.srv = s
          /\ now.who = r.who /\ now.closed = r.closed
      BY <1>0 DEF Request
    <2>4. ~r.closed
      BY <1>0, <1>3 DEF RequestHolds, CreateSession
    <2> HIDE DEF now
    <2>7. r.who \in Identities \cup {NoOne}
      BY <1>0 DEF Request
    <2>8. req' \in [Client -> Request]
      BY <2>2, <2>3 DEF IInv, TypeOK
    <2>9. owner' \in [Sid -> Identities \cup {NoOne}]
      BY <2>1, <2>7 DEF IInv, TypeOK
    <2>5. TypeOK' /\ TableHolds'
      BY <1>3, <2>1, <2>8, <2>9 DEF CreateSession, IInv, TypeOK, TableHolds, authVars
    <2>6. ASSUME NEW d \in Client PROVE RequestHolds(req[d])'
      <3>1. CASE d = c
        <4>1. req'[d] = now /\ owner'[s] = r.who
          BY <2>1, <2>2, <3>1 DEF IInv, TypeOK
        <4>2. now.asked \in minted' \cup {NoSid}
          BY <1>0, <2>1, <2>3 DEF RequestHolds
        <4> QED
          <5>1. now.at = "serve" /\ now.srv \in minted' /\ owner'[now.srv] = now.who
            BY <2>1, <2>3, <4>1
          <5> QED
            BY <2>3, <2>4, <4>1, <4>2, <5>1 DEF RequestHolds
      <3>2. CASE d # c
        <4>1. req'[d] = req[d] /\ RequestHolds(req[d]) /\ req[d] \in Request
          BY <2>2, <3>2 DEF IInv, TypeOK
        <4>2. \A t \in minted : owner'[t] = owner[t]
          BY <2>1 DEF IInv, TypeOK
        <4>3. minted \subseteq minted' /\ \A t \in minted : t \notin live => t \notin live'
          BY <2>1
        <4> QED
          BY <4>1, <4>2, <4>3 DEF RequestHolds
      <3> QED
        BY <3>1, <3>2
    <2> QED
      BY <2>5, <2>6 DEF IInv
  <1>4. CASE NoSessionLeft(c)
    BY <1>4, OverStep DEF NoSessionLeft, IInv, TypeOK, TableHolds, authVars, tableVars
  <1>5. CASE Serve(c)
    <2>1. sid' \in [Shuttle -> Sid \cup {NoSid}]
          /\ \A d \in Shuttle : sid'[d] \in minted \cup {NoSid}
      BY <1>0, <1>5 DEF Serve, IInv, TypeOK, TableHolds, RequestHolds, Request
    <2> QED
      BY <1>5, <2>1, OverStep DEF Serve, IInv, TypeOK, TableHolds, authVars, tableVars
  <1>6. CASE Close(c)
    <2>1. live' \subseteq live /\ UNCHANGED <<owner, minted>> /\ Over(c)
      BY <1>6 DEF Close
    <2> QED
      BY <1>6, <2>1, OverStep DEF Close, IInv, TypeOK, TableHolds, authVars
  <1> QED
    BY <1>1, <1>2, <1>3, <1>4, <1>5, <1>6 DEF HandlerStep

(* So does every step of the clients, the shuttles, the issuer and the     *)
(* daemon.                                                                 *)
LEMMA StepIInv == IInv /\ [Next]_vars => IInv'
  <1> SUFFICES ASSUME IInv, [Next]_vars PROVE IInv'
    OBVIOUS
  <1>1. ASSUME NEW c \in Client, HandlerStep(c) PROVE IInv'
    BY <1>1, HandlerStepIInv
  <1>2. ASSUME NEW c \in Client, NEW op \in {"initialize", "call", "delete"},
               NEW s \in minted \cup {NoSid}, Send(c, op, s)
        PROVE IInv'
    BY <1>2, ArriveStep, ResolveType DEF Send
  <1>3. ASSUME NEW c \in Shuttle, ShuttleStep(c) PROVE IInv'
    <2>1. sid[c] \in minted \cup {NoSid}
      BY DEF IInv, TableHolds
    <2>2. ASSUME NEW op \in {"initialize", "call"}, ShuttleSend(c, op) PROVE IInv'
      BY <2>1, <2>2, ArriveStep, ResolveType DEF ShuttleSend
    <2>3. CASE Arrive(c, "delete", sid[c], NoCredential)
      BY <2>1, <2>3, ArriveStep, ResolveType
    <2>4. ASSUME NEW gone \in Request, gone.asked = NoSid, ~gone.closed, gone.at = "exited",
                 req' = [req EXCEPT ![c] = gone],
                 UNCHANGED <<authVars, up, tableVars, sid, restarts>>
          PROVE IInv'
      BY <2>4 DEF IInv, TypeOK, TableHolds, RequestHolds, authVars, tableVars
    <2>5. /\ [Idle EXCEPT !.at = "exited", !.op = "delete"] \in Request
          /\ [Idle EXCEPT !.at = "exited"] \in Request
      BY DEF Idle, Request
    <2>6. CASE ShuttleEnds(c)
      BY <2>3, <2>4, <2>5, <2>6 DEF ShuttleEnds, Idle
    <2>7. CASE Unreachable(c)
      BY <2>4, <2>5, <2>7 DEF Unreachable, Idle
    <2> QED
      BY <1>3, <2>2, <2>6, <2>7 DEF ShuttleStep
  <1>4. ASSUME NEW response \in SUBSET Key, Rotate(response) PROVE IInv'
    BY <1>4 DEF Rotate, IInv, TypeOK, TableHolds, RequestHolds, tableVars
  <1>5. CASE FetchKeys \/ StoreKeys
    BY <1>5 DEF FetchKeys, StoreKeys, IInv, TypeOK, TableHolds, RequestHolds, tableVars
  <1>6. CASE Crash
    <2>1. \A c \in Client : req'[c] \in {Idle, [Idle EXCEPT !.at = "exited"]}
      BY <1>6 DEF Crash
    <2>2. Idle \in Request /\ [Idle EXCEPT !.at = "exited"] \in Request
      BY DEF Idle, Request
    <2>3. req' \in [Client -> Request]
      BY <1>6, <2>2 DEF Crash
    <2>5. restarts' \in 0 .. MaxRestarts
      BY <1>6 DEF Crash, IInv, TypeOK
    <2>6. live' \subseteq minted /\ live' \in SUBSET Sid
          /\ keys' \in SUBSET Key /\ fetched' \in SUBSET Key /\ up' \in BOOLEAN
      BY <1>6 DEF Crash
    <2>7. TypeOK' /\ TableHolds'
      BY <1>6, <2>3, <2>5, <2>6 DEF Crash, IInv, TypeOK, TableHolds
    <2>4. \A c \in Client : RequestHolds(req[c])'
      BY <1>6, <2>1 DEF Crash, RequestHolds, Idle
    <2> QED
      BY <2>4, <2>7 DEF IInv
  <1>7. CASE Restart
    BY <1>7 DEF Restart, IInv, TypeOK, TableHolds, RequestHolds, tableVars
  <1>8. CASE UNCHANGED vars
    BY <1>8 DEF vars, authVars, tableVars, IInv, TypeOK, TableHolds, RequestHolds
  <1> QED
    BY <1>1, <1>2, <1>3, <1>4, <1>5, <1>6, <1>7, <1>8 DEF Next

-----------------------------------------------------------------------------
(* The theorems on the sessions *)

(* IInv is an invariant of the sessions.                                   *)
THEOREM SessionInvariant == Spec => []IInv
  BY InitIInv, StepIInv, PTL DEF Spec

(* handlePost serves every request under the identity its own credential   *)
(* resolves to, whatever session id it names.                              *)
THEOREM RequestsServedAsThemselves == Spec => []ServedAsItself
  <1>1. IInv => ServedAsItself
    BY DEF IInv, RequestHolds, ServedAsItself
  <1> QED
    BY <1>1, SessionInvariant, PTL

(* A session that handleDelete removed serves nothing that arrives later.  *)
THEOREM ClosedSessionsStayClosed == Spec => []ClosedStaysClosed
  <1>1. IInv => ClosedStaysClosed
    BY DEF IInv, RequestHolds, ClosedStaysClosed
  <1> QED
    BY <1>1, SessionInvariant, PTL

=============================================================================
