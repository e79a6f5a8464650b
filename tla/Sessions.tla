------------------------------- MODULE Sessions -------------------------------
(***************************************************************************)
(* The MCP sessions of the HTTP door (mcp.HTTPHandler) with what they rest *)
(* on: the identity every request is resolved to (auth.ResolveIdentity),   *)
(* the key cache behind it (auth.Validator), and the shuttle that carries  *)
(* the stdio of a local client to the daemon (runStdioProxyWith).          *)
(*                                                                         *)
(* handlePost takes the table's lock twice, to look the session up and to  *)
(* get or create it: each section is an action, and requests of others run *)
(* in between.  A token is its claims and the key that signed it; one that *)
(* has expired is refused like one whose key is gone, and left out.        *)
(***************************************************************************)
EXTENDS Naturals, FiniteSets

CONSTANTS
  Sid,         \* session ids (trace.NewID, never the same twice)
  Client,      \* who talks to the daemon, one request at a time
  Shuttle,     \* the clients that are shuttles
  Cred,        \* Client -> the credential it presents
  Key,         \* the token issuer's signing keys, of a kind toPublicKey knows
  Postures,    \* the configurations of package auth to consider
  MaxRestarts, \* bound on the restarts of the daemon
  NoSid, NoUser, NoKey, NoOne

Anonymous == [agent |-> "anonymous", user |-> NoUser]
NoCredential ==
  [kind |-> "none", agent |-> "anonymous", user |-> NoUser, key |-> NoKey]

ASSUME SessionConstants ==
  /\ Shuttle \subseteq Client
  /\ \A c \in Client : Cred[c].kind \in {"none", "agent", "name", "jwt"}
  /\ Postures \subseteq [validator : BOOLEAN, legacy : BOOLEAN, require : BOOLEAN]
  /\ MaxRestarts \in Nat
  /\ NoSid \notin Sid

VARIABLES
  posture,   \* the configuration: a validator, allow_legacy, RequireAuth
  published, \* the keys a fetch would get now, none when the issuer is out of
             \* reach or publishes nothing of use
  keys,      \* Validator.keys
  fetched,   \* what refreshLoop has read and not yet stored
  up,        \* the daemon serves
  live,      \* the ids in HTTPHandler.sessions
  owner,     \* Sid -> the identity of the Server behind it
  minted,    \* the ids ever used
  req,       \* Client -> the request it waits for
  sid,       \* Shuttle -> the session it remembers
  restarts

authVars == <<posture, published, keys, fetched>>
tableVars == <<live, owner, minted>>
vars == <<authVars, up, tableVars, req, sid, restarts>>

Identities ==
  {Anonymous} \cup
  {[agent |-> Cred[c].agent, user |-> Cred[c].user] : c \in Client} \cup
  {[agent |-> Cred[c].agent, user |-> NoUser] : c \in Client}
Idle == [at |-> "idle", op |-> "none", asked |-> NoSid, who |-> NoOne,
         srv |-> NoSid, closed |-> FALSE]
Request ==
  [at : {"idle", "lookup", "open", "serve", "close", "exited"},
   op : {"none", "initialize", "call", "delete"},
   asked : Sid \cup {NoSid},
   who : Identities \cup {NoOne},
   srv : Sid \cup {NoSid},
   closed : BOOLEAN]

TypeOK ==
  /\ posture \in Postures
  /\ published \in SUBSET Key
  /\ keys \in SUBSET Key
  /\ fetched \in SUBSET Key
  /\ up \in BOOLEAN
  /\ live \in SUBSET Sid
  /\ owner \in [Sid -> Identities \cup {NoOne}]
  /\ minted \in SUBSET Sid
  /\ req \in [Client -> Request]
  /\ sid \in [Shuttle -> Sid \cup {NoSid}]
  /\ restarts \in 0 .. MaxRestarts

Init ==
  /\ posture \in Postures
  /\ published \in SUBSET Key
  /\ posture.validator => published # {}
  /\ keys = IF posture.validator THEN published ELSE {}
  /\ fetched = {}
  /\ up = TRUE
  /\ live = {}
  /\ owner = [s \in Sid |-> NoOne]
  /\ minted = {}
  /\ req = [c \in Client |-> Idle]
  /\ sid = [c \in Shuttle |-> NoSid]
  /\ restarts = 0

------------------------------------------------------------------------------
(* Identity *)

\* ResolveIdentity: the identities a credential yields, none when refused.
Resolve(cred) ==
  LET claimed == [agent |-> cred.agent, user |-> NoUser]
  IN CASE cred.kind = "none" -> {Anonymous}
       [] posture.validator /\ cred.kind = "jwt" ->
            IF cred.key \in keys
              THEN {[agent |-> cred.agent, user |-> cred.user]} ELSE {}
       [] posture.validator /\ cred.kind = "agent" /\ posture.legacy -> {claimed}
       [] ~posture.validator /\ cred.kind \in {"agent", "name"} -> {claimed}
       [] OTHER -> {}

\* The issuer publishes and withdraws keys, or cannot be reached.
Rotate(response) ==
  /\ published' = response
  /\ UNCHANGED <<posture, keys, fetched, up, tableVars, req, sid, restarts>>

\* fetchKeys of refreshLoop, every five minutes: the response is read ...
FetchKeys ==
  /\ up /\ posture.validator
  /\ fetched = {}
  /\ published # {}
  /\ fetched' = published
  /\ UNCHANGED <<posture, published, keys, up, tableVars, req, sid, restarts>>

\* Variant: new keys are added to the old ones.
StoreKeysAdded ==
  /\ fetched # {}
  /\ keys' = keys \cup fetched
  /\ fetched' = {}
  /\ UNCHANGED <<posture, published, up, tableVars, req, sid, restarts>>

\* ... and replaces the cache.  A fetch that fails or brings no usable key
\* leaves the cache as it was: no step.
StoreKeys ==
  /\ fetched # {}
  /\ keys' = fetched
  /\ fetched' = {}
  /\ UNCHANGED <<posture, published, up, tableVars, req, sid, restarts>>

------------------------------------------------------------------------------
(* Requests *)

\* handlePost and handleDelete up to the lock: whom a request is admitted as,
\* nobody when it is refused whatever the table holds.
Admitted(op, s, cred) ==
  {i \in Resolve(cred) : /\ op # "initialize" => s # NoSid
                         /\ posture.require => i.agent # "anonymous"}

\* A request arrives and is admitted.  An initialize drops the id it carries.
\* (A refused one changes nothing.)
Arrive(c, op, s, cred) ==
  /\ up
  /\ req[c] = Idle
  /\ \E i \in Admitted(op, s, cred) :
       req' = [req EXCEPT ![c] =
         [at |-> CASE op = "initialize" -> "open" [] op = "call" -> "lookup"
                   [] OTHER -> "close",
          op |-> op,
          asked |-> IF op = "initialize" THEN NoSid ELSE s,
          who |-> i, srv |-> NoSid,
          closed |-> op = "call" /\ s \notin live]]
  /\ UNCHANGED <<authVars, up, tableVars, sid, restarts>>

\* A client sends a request, with the id of any session it may have heard of
\* (an id of its own invention is no session's: 64 random bits).
Send(c, op, s) == c \notin Shuttle /\ Arrive(c, op, s, Cred[c])

Step(c, at) == req' = [req EXCEPT ![c].at = at]

\* The request is over; with the DELETE the shuttle is, too.
Over(c) ==
  req' = [req EXCEPT ![c] = IF c \in Shuttle /\ @.op = "delete"
                              THEN [@ EXCEPT !.at = "exited"] ELSE Idle]

\* Variant: the agent half of the identity is compared, not the user.
LookupAgent(c) ==
  /\ req[c].at = "lookup"
  /\ IF /\ req[c].asked \in live
        /\ owner[req[c].asked].agent = req[c].who.agent
       THEN Step(c, "open") ELSE Over(c)
  /\ UNCHANGED <<authVars, up, tableVars, sid, restarts>>

\* handlePost, first lock section: unknown sessions and those of others.
Lookup(c) ==
  /\ req[c].at = "lookup"
  /\ IF req[c].asked \in live /\ owner[req[c].asked] = req[c].who
       THEN Step(c, "open") ELSE Over(c)
  /\ UNCHANGED <<authVars, up, tableVars, sid, restarts>>

\* getOrCreateSession: the session asked for, when it is still there ...
GetSession(c) ==
  /\ req[c].at = "open"
  /\ req[c].asked \in live
  /\ req' = [req EXCEPT ![c].at = "serve", ![c].srv = req[c].asked]
  /\ UNCHANGED <<authVars, up, tableVars, sid, restarts>>

\* Variant: the id the client sent is taken when there is one.
CreateSessionAsked(c) ==
  /\ req[c].at = "open"
  /\ req[c].asked \notin live
  /\ \E s \in IF req[c].asked = NoSid THEN Sid \ minted ELSE {req[c].asked} :
       /\ live' = live \cup {s}
       /\ owner' = [owner EXCEPT ![s] = req[c].who]
       /\ minted' = minted \cup {s}
       /\ req' = [req EXCEPT ![c].at = "serve", ![c].srv = s]
  /\ UNCHANGED <<authVars, up, sid, restarts>>

\* ... or a new one under an id of the server's: for an initialize, and for a
\* call whose session was closed since it was looked up.
CreateSession(c) ==
  /\ req[c].at = "open"
  /\ req[c].asked \notin live
  /\ \E s \in Sid \ minted :
       /\ live' = live \cup {s}
       /\ owner' = [owner EXCEPT ![s] = req[c].who]
       /\ minted' = minted \cup {s}
       /\ req' = [req EXCEPT ![c].at = "serve", ![c].srv = s]
  /\ UNCHANGED <<authVars, up, sid, restarts>>

\* Bound on the ids: with none left the client gives up.
NoSessionLeft(c) ==
  /\ req[c].at = "open"
  /\ req[c].asked \notin live
  /\ Sid \subseteq minted
  /\ Over(c)
  /\ UNCHANGED <<authVars, up, tableVars, sid, restarts>>

\* HandleRequestWith in that session, and the answer with its id: a shuttle
\* remembers it.
Serve(c) ==
  /\ req[c].at = "serve"
  /\ sid' = IF c \in Shuttle THEN [sid EXCEPT ![c] = req[c].srv] ELSE sid
  /\ Over(c)
  /\ UNCHANGED <<authVars, up, tableVars, restarts>>

\* handleDelete, its one lock section: only the owner closes a session.
Close(c) ==
  /\ req[c].at = "close"
  /\ live' = IF owner[req[c].asked] = req[c].who THEN live \ {req[c].asked}
             ELSE live
  /\ Over(c)
  /\ UNCHANGED <<authVars, up, owner, minted, sid, restarts>>

------------------------------------------------------------------------------
(* The shuttle and the daemon *)

\* A line of the client's stdin goes out with the session remembered.
ShuttleSend(c, op) == Arrive(c, op, sid[c], Cred[c])

\* End of stdin: the session, when there is one, is released by a DELETE that
\* carries no credential.  Refused or not, the shuttle is done.
ShuttleEnds(c) ==
  \/ sid[c] # NoSid /\ Arrive(c, "delete", sid[c], NoCredential)
  \/ /\ up
     /\ req[c] = Idle
     /\ sid[c] = NoSid \/ Admitted("delete", sid[c], NoCredential) = {}
     /\ req' = [req EXCEPT ![c] = [Idle EXCEPT !.at = "exited", !.op = "delete"]]
     /\ UNCHANGED <<authVars, up, tableVars, sid, restarts>>

\* client.Do fails (the daemon is gone): the shuttle stops, releasing nothing.
Unreachable(c) ==
  /\ ~up
  /\ req[c] = Idle
  /\ req' = [req EXCEPT ![c] = [Idle EXCEPT !.at = "exited"]]
  /\ UNCHANGED <<authVars, up, tableVars, sid, restarts>>

\* The daemon dies with its table, its key cache and every request.
Crash ==
  /\ up
  /\ restarts < MaxRestarts
  /\ restarts' = restarts + 1
  /\ up' = FALSE
  /\ live' = {}
  /\ keys' = {}
  /\ fetched' = {}
  /\ req' = [c \in Client |->
       IF c \in Shuttle /\ req[c] # Idle THEN [Idle EXCEPT !.at = "exited"]
       ELSE Idle]
  /\ UNCHANGED <<posture, published, owner, minted, sid>>

\* NewValidator: without a first answer from the issuer it does not start.
Restart ==
  /\ ~up
  /\ posture.validator => published # {}
  /\ keys' = IF posture.validator THEN published ELSE {}
  /\ up' = TRUE
  /\ UNCHANGED <<posture, published, fetched, tableVars, req, sid, restarts>>

------------------------------------------------------------------------------
HandlerStep(c) ==
  \/ Lookup(c) \/ GetSession(c) \/ CreateSession(c)
  \/ NoSessionLeft(c) \/ Serve(c) \/ Close(c)

ShuttleStep(c) ==
  \/ \E op \in {"initialize", "call"} : ShuttleSend(c, op)
  \/ ShuttleEnds(c)
  \/ Unreachable(c)

Next ==
  \/ \E c \in Client :
       \/ HandlerStep(c)
       \/ \E op \in {"initialize", "call", "delete"}, s \in minted \cup {NoSid} :
            Send(c, op, s)
  \/ \E c \in Shuttle : ShuttleStep(c)
  \/ \E response \in SUBSET Key : Rotate(response)
  \/ FetchKeys \/ StoreKeys
  \/ Crash \/ Restart

Spec == Init /\ [][Next]_vars

\* net/http runs every handler, and the ticker of refreshLoop keeps ticking.
Fairness ==
  /\ \A c \in Client : WF_vars(HandlerStep(c))
  /\ WF_vars(FetchKeys)
  /\ WF_vars(StoreKeys)

FairSpec == Spec /\ Fairness

------------------------------------------------------------------------------
(* Properties *)

\* "The session ID is not a credential" (http_server.go:125): whatever id a
\* request names and whoever closes sessions meanwhile, it is served under the
\* agent and the user its own credential stands for.
ServedAsItself ==
  \A c \in Client : req[c].at = "serve" => owner[req[c].srv] = req[c].who

\* A session that was closed serves nothing that arrives later, not even
\* through a request that was between the two lock sections.
ClosedStaysClosed ==
  \A c \in Client : req[c].at = "serve" => ~req[c].closed

\* A key the issuer has withdrawn stops opening doors, those of sessions
\* opened with it included, once the issuer keeps answering with usable keys.
WithdrawnKeyIsShutOut ==
  \A k \in Key :
    <>[](published # {} /\ k \notin published) =>
      <>[](\A c \in Client : req[c].at = "serve" /\ posture.validator
                               /\ Cred[c].kind = "jwt" => Cred[c].key # k)

\* docs/ONE_PAGER.md: the shuttle "releases it on exit".
ShuttleReleases ==
  \A c \in Shuttle :
    req[c].at = "exited" /\ req[c].op = "delete" => sid[c] \notin live

\* A call runs in the session it names, or not at all.
CallStaysInItsSession ==
  \A c \in Client :
    req[c].at = "serve" /\ req[c].op = "call" => req[c].srv = req[c].asked

\* The last key an issuer withdraws is shut out as well.
LastKeyIsShutOut ==
  \A k \in Key :
    <>[](k \notin published) =>
      <>[](\A c \in Client : req[c].at = "serve" /\ posture.validator
                               /\ Cred[c].kind = "jwt" => Cred[c].key # k)

------------------------------------------------------------------------------
(* The inductive invariant behind them (McpProofs) *)

\* A session in the table has an id that was minted, and so has the one a
\* shuttle remembers.
TableHolds ==
  /\ live \subseteq minted
  /\ \A c \in Shuttle : sid[c] \in minted \cup {NoSid}

\* A request that names a session past the first lock section is its owner's;
\* one that names a closed session does not get there.
RequestHolds(r) ==
  /\ r.asked \in minted \cup {NoSid}
  /\ r.closed => /\ r.op = "call" /\ r.at = "lookup"
                 /\ r.asked # NoSid /\ r.asked \notin live
  /\ r.at = "open" /\ r.asked # NoSid => owner[r.asked] = r.who
  /\ r.at = "serve" => r.srv \in minted /\ owner[r.srv] = r.who

IInv == TypeOK /\ TableHolds /\ \A c \in Client : RequestHolds(req[c])
==============================================================================
