# A verification of flux7-mesh in TLA+

flux7-mesh (`mesh7`) stands between AI agents and the tools they call. A
call goes through a pipeline: emergency stop, registry, rate limiter (over HTTP;
`handleToolsCall` of the MCP server asks none), policy, temporal grants (over HTTP),
precedents, human approval, backend; and leaves a line in a hash-chained trace.
This directory holds TLA+ models of the parts of it where
goroutines, processes, crashes and failures meet, the TLC configurations that
check them, and proofs checked by TLAPS. Paths below are relative to the root of
the repository.

## 1. The system

| component | state | operations | hard behaviour | what makes it correct |
|---|---|---|---|---|
| approval store (`approval/store.go`, `persist.go`) | a map of approvals, one channel and one timer goroutine each, the claimed ids, the rows of table `approvals` | Submit, Resolve, the timeout, Receive, ClaimApproved / ClaimDenied / Claim, FindPending, Apply, LoadAll | people, timer, stop and retries race for one approval; the row is written outside the lock; restart | an answer is given once, never changed, reaches its caller, and agrees with the row; nothing pends without an alarm |
| tool-call pipeline (`proxy/handler.go`, `mcp/server.go`) | the calls being served | HTTP call (blocks on the approval), MCP call (short wait, then retries), supervised MCP call, `approval.resolve` | a retry, the first call and the supervisor all hold the same yes | one yes, one run; no call hangs; retries do not pile up |
| emergency stop (`halt/halt.go`, `proxy/halts.go`) | rows of table `halts`, a copy in each process | Start, Resume, Match, RecordRevoked, deny pass | copies up to one second old, several processes, reload without the lock | a stop is known everywhere in time and until lifted; grants taken away come back |
| temporal grants (`grant/`) | a map and rows | Add, Check, Revoke, RevokeWhere, Restore, LoadAll | saves outside the lock, failing deletes | see emergency stop |
| trace store (`trace/store.go`, `integrity.go`) | a ring of entries, a chained file, one rotation | Record, Update, rotate, load, Verify | failing or cut writes, restarts, rotation, shared trace ids, readers with limits (1 and 16 MiB a line) the writer does not have | the chain verifies, a loss shows, a restart reads back what memory held up to a line too long |
| rate limiter (`ratelimit/limiter.go`) | per agent: call times, total, recent calls | Check, Record, gc, eviction, ReplaceLimits | check and record are apart; collector; window boundaries | rate, budget and loop limits hold |
| MCP client (`mcp/client.go`, three transports) | transport, pending requests, status | connect, CallTool, readLoop, reconnectLoop, Close | goroutines share the transport without a lock, handshakes fail half way | no reconnection is lost and none appears but for a failed handshake, no call an answer may still reach waits for ever |
| upstream manager (`mcp/manager.go`, `retry.go`, closure in `cmd/mesh7/mesh.go`) | the clients, those being retried | Add, SetRetrying, RetryConnect, CloseAll | first connection against shutdown | a server that comes up joins |
| tool pins (`pin/`, `proxy/pins.go`) | accepted fingerprints, what is loaded | Observe, Accept, Floor | half-pinned catalogue, window before Observe | a changed tool is held back |
| policy engine and floors (`policy/engine.go`, `tighten.go`, `proxy/handler.go`) | the sorted policies | Evaluate, Explain, Reload, Tighten, ApplyFloors | first match, specificity, what is told of a tool before a call is computed apart | the documented decision, floors only tighten, what is told is what calls get |
| policy editing, hot reload (`policy/edit.go`, `watcher.go`, `proxy/policy_edit.go`) | files, the policies in force | edit, debounced reload | a late reload undoes an edit | files and memory agree in the end |
| OTLP exporter (`trace/otel.go`) | bounded queue, batch, counters | Export, run, send, Close | full queue, retries, shutdown, an endpoint no request can be built for | every span in one place, and what Stats leaves out known |
| MCP HTTP sessions (`mcp/http_server.go`, `cmd/mesh7/proxy_stdio.go`) | the session table; the id a stdio shuttle remembers | POST (looks the session up, then gets or creates it), DELETE, the shuttle's lines and its end | a session closed between the two looks, requests under other identities, restarts | a session serves its owner only, a closed one nobody |
| identity (`auth/identity.go`, `jwt.go`) | the cache of the issuer's keys | ResolveIdentity, the refresh every five minutes | keys withdrawn, an issuer out of reach | a withdrawn key is shut out |
| decision memory (`approval/memory.go`) | facts in a remote memory, one goroutine per write, the threshold | WriteDecision, AutoResolve, ForgetPrecedents, Precedents | writes late or lost, two queries, settings changed meanwhile | automatic decisions are no precedents, a refusal blocks |
| approval settings (`proxy/approval_settings.go`, `config/edit.go`) | config file, store settings | PUT: compare, write, read back, apply or restore | people edit the same file, any write may fail | what was accepted survives a restart, valid changes are accepted |

The pipeline calls the approval store, the stop store, the grants, the limiter (HTTP
only) and the trace store, each under its own lock and never two locks at once. The timer,
the collector, the read loops and the reconnect loops are goroutines of their
own. The approvals, stops and grants share one SQLite file, which other mesh7
processes (the stdio proxies) may share too; only the stop store reads it again
while running.

Not modelled, because there is no interleaving or state in them worth it:
configuration parsing, registry parsers (OpenAPI, CLI), signatures and claims of
tokens, the CLI runner, the content filters of the supervisor, notification posts,
the command line but for the stdio shuttle, the SSRF guard, the read-only endpoints.
`PROJECT.json` lists each with its files.

## 2. The modules

**`ApprovalStore`** models `approval.Store` for any number of processes on one
database. What the mutex covers is one action; `SubmitWithTrace` is three
(`Submit` inserts, `SaveRead` reads the fields without the lock, `SaveRow` writes
and starts the timer), so that an answer may overtake the INSERT. A statement that
fails is the choice `Written`. `Crash` forgets all but the rows and `Restart` is
`LoadAll`. An approval's id, agent, tool and arguments are one value `Call`;
notification and memory hooks are left out.

**`ToolCalls`** extends it with the calls: `Arrive`, then for the MCP path
`TryApproved`, `TryDenied`, `TryPending`, then `OpenApproval`, `RecordTrace`, and
waiting (`GetAnswer`, `ClaimOwn`, `StopWaiting`) and `Run`. Beside them people
(`Answer`), the supervisor (`ApproveAndReplay`, `Replay`), and the operator
(`StartHalt`, then the deny pass `ReadTraces`, `ListWaiting`, `DenyNext`,
`DenyDone`, and `ResumeHalt`). What policy, grants, precedents and terminal decide
is a choice made in `Arrive`; only calls that need an approval go on. The stop is
checked in `Arrive` only, as in the code.

**`Ledger`** is what an approval promises: opened once, answered once, used at
most once and after a yes. `ToolCalls` implements it (`ImplementsLedger`) under the
mapping `LedgerAnswer` where all calls block or none does; the supervisor's replay, a
crash, or the two paths together break it (section 4).

**`HaltStore`** models the stops and the grants. A request is a thread that
synchronises (`SkipReload`, or `QueryHalts` without the lock and `SwapHalts` under
it, or `QueryFails`), then acts (`Match`, `StartStop`, `ResumeStop`...), then goes on
to the grants one call at a time (`RevokeGrants`, `RecordRevoked`, `RestoreGrant`,
`SaveGrant`). Any number of requests run at a time, in one process or several. `owed` is a
ghost: the grants on a stop's record when the clock last moved, less those a process that
died was about to give back and those a resume that could not read the rows did not see.

**`TraceChain`** models the trace file line by line. A line is the entry, the
envelope (sequence number, previous hash, key) and a form: whole, cut short, without
its newline, or merged with the one before. Hashes are ranks: two lines never
share one. `AppendLocked` advances the head whatever becomes of the write.
A line also has a size: `short`, `long` (over the 1 MiB `loadFromFile` scans,
store.go:533) or `huge` (over the 16 MiB of `verifyReader` and `lastEnvelope`, and enough
to fill a file of 10 MiB alone); nothing bounds what the writer writes. `Verifies` is the
walk of `verifyReader`, which fails on a huge line, `LoadFromFile` the fold of the lines
before the first long or huge one (`Read`), because the scanner of `loadFromFile` stops
there. `mishap` is a ghost that says a write or a rotation has failed, or a huge line was
written.

**`RateLimiter`** models `Check` and `Record` as the two lock sections they are, with
the collector, the eviction and reloads between. `runs`, `seen`, `sinceRest` and
`crowdedOut` are ghosts the properties are about. A run is a record with its number, and
what the table remembers of an agent (`calls`, `recent`) is a set of runs: the code's
slices hold times, which two calls at one moment share.

**`McpClient`** models the goroutines of one client: `Connect`, the reconnect loops
and the calls, each use of `c.tr` a step. Transports are numbers that are taken
again when nobody uses them. The upstream answers, refuses, drops a connection, or fails a
start or a request, in a handshake or later, `MaxFaults` times in all. A transport is what
its Start, WriteRequest, ReadLoop and Close do to a connection, and a client has one of
three kinds (`kind`): `stdio`, a subprocess started once, whose failed start closes its
pipes; `sse`, a stream with POSTs beside it that leave whatever has become of the stream (a
POST that waits for the endpoint event in vain is one that fails); `streamable`, POSTs
alone, each answered in its own response or left without an answer (an empty body, a 202,
an event stream cut short), with a read loop that ends on Close only. The session id of the
streamable transport is left out. `strays` counts the handshakes of a reconnect that failed
after their read loop was started, `asked` is the connection an answer to a request may
come by.

**`ToolPins`** models how an upstream joins: the goroutine per upstream that dials it
(`Dial`, `DialFails`, `Wake`), adds the client (`Add`), loads its tools into the
registry (`LoadMCP`) and lets the pins compare them (`Observe`), four steps with calls
served in between, beside `Reconnect` of a client, `Accept` of the operator, `Start`
and `Stop` of the process and upstreams that publish other tools or go away. A version
stands for a fingerprint. An INSERT may fail; `Observe` pins a new server in the random
order of a map and stops at the first failure, so `written` is any set of tools.

**`Sessions`** models the HTTP door for MCP clients. A request is resolved to an identity
and admitted (`Arrive`), then takes the lock of the table twice, to look its session up
(`Lookup`) and to get or create it (`GetSession`, `CreateSession`), or once to close it
(`Close`), and is served (`Serve`). A token is its claims and the key that signed it; the
issuer rotates its keys (`Rotate`), the validator reads and stores them in two steps
(`FetchKeys`, `StoreKeys`). A shuttle carries a local client's lines and closes its
session at the end of input (`ShuttleSend`, `ShuttleEnds`, `Unreachable`). `Crash` and
`Restart` lose the table and fetch the keys anew. `closed` is a ghost: the request names
a session that was closed when it arrived. A shuttle whose request takes five minutes or
whose token expires ends like one whose daemon is gone, and has no step of its own;
sessions never expire in the code.

**`PolicyEngine`** is `Evaluate`, `Explain`, the order of the policies and the edits of a
file's rules, as operators. A rule names a set of tools, may have a condition (true or
false by choice, `met`) and may carry the console's mark. The sorted list of the engine is
an order on the places of the rules (`Before`), and walking it is taking the first place
of those that apply (`First`), so that no recursion is needed. **`PolicyFiles`** puts it to
work: files edited by hand (`EditByHand`) and from the console (`EditRead`, `EditWrite`,
`EditLoad`), the debounced watcher (`Fire`), and every reload, which swaps the policies
(`ApplyPolicies`) and then the limits (`ApplyLimits`) with no lock over both. A set of
policies in force is the text it was read from.

**`Decisions`** lies between them: what becomes of a call once the policy has spoken. It
gives `Tighten`, the floors of a CLI dispatcher and of a pin (`ApplyFloors`, `Floor`), what
grants and precedents lift on the two paths of a call (`HTTPDecision`, `MCPDecision`; over
MCP no grant is looked up, as docs/approval-flow.md:131-137 says), and what is told
before any call: the rows of `GET /tools/decisions` (`ToolDecision`) and the tools hidden
from `tools/list` (`DeniedOnly`).

**`OtelExporter`** models the queue, the goroutine `run` (`Take`, `Flush`, `SeeDone`,
`Drained`), each POST of a batch with its outcomes (`PostAccepted`, `PostRefused`,
`PostFails`, where the spans may have arrived all the same, and `PostUnbuilt`, where
`http.NewRequest` fails and the batch is dropped without a count, otel.go:229-233) and
`Close` with its deadline. `parses` says whether the endpoint is a URL at all; `StatsTotal`
is what `Stats` tells of: sent, failed, dropped and the length of the queue. Spans are
numbers in the order of `Export`.

**`Precedents`** models automatic approval. mem7 is a bag of tagged facts, `writing` the
bag of those whose goroutine is not done. A call goes through `Ask` (auto_approve),
`Eligible` (the tool reads, no injection), `CountApprovals`, `CountRefusals` and
`Verdict`, one request or one lock section each, and then to people (`Answer`, `Expire`)
unless it was only a question to `/decide`. `Forget` and a change of the settings may come
between any two. `given`, `fresh` and `barred` are ghosts: what people really decided.

**`ApprovalSettings`**, which `Precedents` extends, models a change of the settings: a PUT
compares what is asked with what is in force and edits the differing values of the file's
text (`PutRead`, `SetScalars`), replaces the file (`PutWrite`), reads the whole of it back and
either applies or restores (`PutCheck`); people edit the file at any moment (`HandEdit`). The
file is its values and whether it loads.

The `MC*` modules hold the values and the symmetry sets of the runs. In every module,
an operator introduced by a comment `Variant` is not part of the specification: it
is a plausible mistake in the code (a dropped guard, an off-by-one, a step left
out), kept to show that the property it breaks depends on that code.

## 3. The checks

| run | what it asks | instance |
|---|---|---|
| `ToolCalls_retries` | one run per yes (`ImplementsLedger`), no pile of approvals | 2 goroutines, 2 approvals of one call, clock to 3 |
| `ToolCalls_stop` | answers and rows final, channel and alarm there, runs accounted for, a finished stop left no one waiting, every approval and call answered | 1 handler, 1 approval, timeouts 1 and 2, clock to 2, HTTP and MCP, supervisor, failing statements, both scopes with one stop at a time, 1 crash |
| `HaltStore` | a stop reaches every process in time and, once settled, stays; grants on its record not lost | 2 processes, 2 requests at a time in any of them, 1 stop, 1 grant, clock to 2, failing statements, 1 crash |
| `TraceChain` | chain verifies, restart reads back memory up to a line too long, loss shows | 5 lines, 3 per file, ring of 2, 2 trace ids, 2 keys, lines of 3 sizes, every outcome of writes and rotations, 1 restart |
| `RateLimiter` | rate, budget and loop limits up to overlap | 2 agents, room for 1, 2 policies, 2 requests at a time, clock to 5, 5 calls, limits reloaded |
| `McpClient` | reconnections are counted, a call an answer may reach ends | each kind of transport, 1 call, 2 reconnect loops, 2 read loops, 2 transports at a time, 2 faults anywhere, 1 failed handshake of a reconnect, errors from the upstream, shutdown before or after a first fault |
| `ToolPins` | nothing runs on policy alone that was not accepted, only Accept moves trust, upstreams join | 1 process started twice, 2 upstreams with 3 tools, 2 versions, 1 change, 1 outage, failing INSERTs |
| `PolicyFiles` | a console edit decides and disturbs no other tool, what is told of a tool is what calls get, the files win | 2 files, 43 rule lists over 2 tools and 3 actions, every floor, 2 hand edits, 1 console edit, 2 reload goroutines |
| `OtelExporter` | every span in one place and counted once, the queue drained | 4 spans, queue 2, batch 2, 3 attempts, an endpoint that is a URL or not, Close at any moment |
| `Precedents` | automatic approvals rest on people's, a refusal in the memory blocks, settings survive a restart | 2 calls, a tool that reads and one that writes, a memory that may hold a person's approval, thresholds 1 and 2, 1 forget, 2 PUTs, 1 hand edit, answers by people and by a supervisor |
| `Sessions` | a request is served as itself, a closed session serves nobody, a withdrawn key is shut out | 2 clients with tokens for one agent and user, a shuttle that declares that agent, 2 session ids, 2 keys, every posture of the identity, 1 restart |
| `ApprovalSettings_nomemory` | expects a violation (section 4) | no memory, thresholds 1 and 2, 2 PUTs, 1 hand edit |

Why these bounds are enough to be of use:

- *ToolCalls*: the properties of `ApprovalStore` speak of one approval each, so one id
  meets every interleaving, here with the calls and the stops around it; the theorems of
  section 5 cover any number. `ApprovalStore.cfg` checks the store alone with a longer
  clock and two sorts of calls. Double use needs two goroutines on one approval
  (`ToolCalls_retries`); a second approval is what a retry could open wrongly. At the bound on the clock any timer may ring, so
  the bound hides no order of events (`Due`).
- *HaltStore*: staleness needs two processes and a clock that passes `SyncEvery`. Two
  requests are what a race needs: one reads the rows, the other starts, records or resumes,
  the first swaps in what it read; both may be in one process or in two. A stop has a
  row of its own and begins once; what two of them do to each other is `NoStackedStops`
  (section 4), and the theorems of section 5 are about any number.
- *TraceChain*: 5 lines at 3 per file pass a rotation, a full ring, and lines on both
  sides of a restart; two trace ids tell own updates from others'; each line has any of the
  three sizes, so a line too long for a reader stands at every place. `TraceChain_readback.cfg`
  is another instance for the two restart properties (7 lines, 2 restarts, no failures).
- *RateLimiter*: the windows are 1, 2 and 3 units with a clock to 5, so each is passed
  and its boundary hit; two requests overlap; a second agent evicts the first.
- *McpClient*: a fault is a dropped connection, a start or a request that fails, or an answer
  that does not come, at any step, within a handshake too. Two of them are a drop and a
  handshake that fails after it, which leaves a read loop behind and two reconnect loops at
  work. The bounds are `MaxStrays` (such handshakes), the numbers of goroutines and transports
  alive at a time (`RoomLeft` is the premise that they sufficed; it fails in some behaviours of
  this instance and those are not judged), and `Closes` (after how many faults mesh7 may shut
  down). `ReconnectsAreCounted` and `WaitersAreServed` are proved without bounds.
- *ToolPins*: an upstream with two tools can be pinned half, a second one runs beside
  it; one change and one outage each fall at every point of two lives of the process.
- *PolicyFiles*: two rules over a file of the agent and one shared below it are enough
  for every place an edit may take (before, at and after the deciding rule, under a
  condition, over a glob); a third reload adds no overlap two do not have.
- *OtelExporter*: four spans fill a queue and a batch of two each; the real sizes differ
  in number only. An endpoint that is no URL stays one for the life of the process.
- *Precedents*: the memory may start with a person's approval, so two calls give an
  automatic approval and the call that would feed on it once the threshold is raised to
  2; the second PUT is the one that a hand edit meets in a file written before.
- *Sessions*: two clients with one identity let one close what the other is between the
  two lock sections of, the shuttle is the same agent without the user; two ids give one
  to close and one to open, and two keys one to withdraw while the issuer still answers.

The runs of `ToolCalls`, `HaltStore` and `Sessions` check for deadlock: nothing may stop
there. In the others the bounds (calls, lines, faults, edits, spans) let everything end.
A type invariant is stated in every module and is not among the runs' properties, where it
tells nothing the others do not; it is proved for all but `McpClient`, where the proofs
of section 5 need only part of it.

Premises written in the properties, and why: `RateHeld`, `BudgetHeld` and `LoopBroken`
allow as many calls more as may be past the check at once, because `Check` and `Record`
are two sections, and exclude agents the full table ever threw out; the first two speak of
configurations that give every policy the limit in question.

`KnownOnceSettled` speaks of stops that are `SyncEvery` old: before that a reload that
read the rows before the stop began may swap it out of the memory of its own process
(`KnownUntilResumed`, section 4). `GrantsNotLost` speaks of what was on a stop's record
when the clock last moved: a reload that crosses `RecordRevoked` may keep grants off the
record altogether (`TakenIsRecorded`, section 4), a process that dies while it restores
takes what it had in hand with it, and a resume whose query failed gives back what its
copy lists. Both rest on `Tick`: a request is past its check (`SkipReload` to `Match`,
`StartStop` or `ResumeStop`) within `SyncEvery` of its arrival.

`ChainVerifies` and the two restart properties speak of files every write reached with no
line over 16 MiB (`~mishap`); `LossIsDetected` has no such premise. What a restart reads
back ends at the first line over 1 MiB: `RestartKeepsTheEntries` speaks of files without
one, `LatestRevisionIsLoaded` of entries whose lines all come before it, and the outcomes
after it are lost (`OutcomesSurvive`, section 4).

`EveryCallEnds` speaks of a call that an answer may still reach (`asked`): over SSE and
streamable HTTP a call may wait for one that cannot come. It excuses a connection whose
read loop went to read another (`unread`), which happens over stdio too (`EveryWaitEnds`,
section 4, is violated over each kind), a client that mesh7 has closed, and a process that
has died.

`FilesWin` assumes `Prompt`: a set that was read is in force before the next debounce of
200 ms has ended (section 4 shows the late reload without it), and reads all files in one
step. `EditDecides` and `OthersUndisturbed` speak of moments when memory and files agree.

`GroundedInHumans` leaves out a call whose couple was forgotten between its question and
its verdict, and counts approvals still being written when the couple was forgotten;
`RefusalBlocks` speaks of refusals mem7 holds. `StaticTellsCalls` and `HiddenIsUncallable`
compare what is told with calls made under the same policies; a reload may come between
any two requests. `SettingsSurviveRestart` holds from an accepted PUT until the next hand
edit (`own`). `WithdrawnKeyIsShutOut` assumes that the issuer ends up answering with
usable keys; a key set that cannot be fetched leaves the old one in place.

**Fairness.** `ApprovalStore` and `ToolCalls`: the Go scheduler runs every runnable
goroutine (a submission finishes, a due timer fires, a handler takes its next step),
and time passes. Nobody is assumed to answer, retry, stop or resume. A call that runs is
assumed to return (`Run`): a CLI tool has a deadline, but `forwardMCP` passes
`context.Background()` (proxy/handler.go:798), so that over MCP it is the upstream that must
answer, which is `McpClient`'s matter. `McpClient`: `EveryCallEnds` assumes no more than
`CallFairness`: a call takes the response that is there, read loops run, and the upstream
answers what it got on a connection that stays open. Dialling, reconnecting and Close may stop
at any point. The counterexamples of section 4 assume `ClientFairness`, under which they run
too; that the upstream drops or refuses is never fair. `ToolPins`: the goroutines that
connect run and their waits end; nobody has to start a process or accept anything.
`PolicyFiles`: the timer fires and goroutines run to their end; nobody has to edit.
`OtelExporter`: `run` keeps running, because every POST has a timeout and the ticker
ticks. `Sessions`: net/http runs every handler and the ticker of the key refresh keeps
ticking; nobody has to send a request, and the issuer is never fair. The other modules are checked for safety only.

## 4. Disagreements between the code and its documents

The run `ApprovalSettings_nomemory` expects a violation and has a finding in
`PROJECT.json`: without `memory.url` a PUT of the approval settings is refused, unless
the file says `auto_approve: false` (proxy/approval_settings.go:119, docs/approval-flow.md:63).
Further configurations here, outside the listed runs, reproduce others:
`tlc -config <name>.cfg MC<module>` (`McpClient` and `OtelExporter` need no `MC` module) stops
with a counterexample.

| configuration | property | what it shows |
|---|---|---|
| `ToolCalls_replay` | `OneRunPerApproval` | `approval.resolve` runs the tool without claiming the approval, a retry runs it again (docs/approval-flow.md:59) |
| `ToolCalls_crash` | `OneRunPerApproval` | the claimed ids are lost in a restart, an approved row is used again (docs/approval-flow.md:59) |
| `ToolCalls_twopaths` | `OneRunPerApproval` | the HTTP path runs on its answer without claiming it; the same call over MCP claims it too |
| `ToolCalls_late` | `LateApprovalDoesNotRun` | a call approved after a stop runs, the stop is not asked again (halt/halt.go:88) |
| `HaltStore_racing` | `KnownUntilResumed` | a reload that read before a stop began replaces the list that holds it: calls pass in the very process that was asked to stop them, until its next reload (halt/halt.go:232-256, docs/emergency-stop.md:3-5) |
| `HaltStore_grants` | `TakenIsRecorded` | such a reload also hides the stop from `RecordRevoked`, which returns without a word: the grants the stop took away are on no record, and its resume gives nothing back (halt/halt.go:145-156, docs/emergency-stop.md:34) |
| `TraceChain_long` | `OutcomesSurvive` | a call whose line is over 1 MiB: `loadFromFile` stops at it, its outcome and every later entry are not read back (trace/store.go:533, 568, against 432-434) |
| `RateLimiter_life` | `BudgetForLife` | an idle agent is collected and gets its lifetime total back (ratelimit/limiter.go:237) |
| `McpClient_flapping` | `ReconnectSettles` | a handshake that fails under its read loop leaves two reconnect loops at work; each closes the transport the other has just brought up, and they can take turns without end (mcp/client.go:118-162, 286, 310); `OneReconnect` fails there too |
| `ToolPins_reconnect` | `DeclaredIsHeldBack` | a client that reconnects declares other tools than registry and pins hold (mcp/client.go:315) |
| `Precedents_mcp` | `GroundedInHumans` | an approval a supervisor gives through `approval.resolve` (resolved_by `mcp:...`, mcp/server.go:820) is tagged `by:human` and counts as a precedent (approval/memory.go:101) |
| `Sessions_release` | `ShuttleReleases` | the DELETE a shuttle sends at its end carries no credential, is refused, and leaves the session in the table (cmd/mesh7/proxy_stdio.go:138-142, docs/ONE_PAGER.md:87) |

Others need only a change of constants, or of the property alone, in one of these files:

| from | change | property | what it shows |
|---|---|---|---|
| `ApprovalStore` | `Timeouts = {1}`, `MaxNow = 2` | `DecisionSaved` | an answer that overtakes the INSERT is written as pending and stays so on disk (docs/ONE_PAGER.md:25) |
| `ApprovalStore` | `Proc = {p1, p2}`, one call, `MaxNow = 3` | `RowDecisionFinal` | with two processes on one database the second's timer overwrites the first's answer (approval/store.go:259) |
| `ToolCalls_retries` | one goroutine, `MaxNow = 2` | `RetryMeetsItsApproval` | a yes given between ClaimApproved and FindPending makes the retry open a second approval (approval/store.go:397-399) |
| `ToolCalls_stop` | `Paths = {"http"}`, no supervisor, session scope, `MaxNow = 2` | `SessionHaltAnswersWaiting` | an approval submitted and not yet traced escapes a session stop (docs/emergency-stop.md:13) |
| `ToolCalls_stop` | `Paths = {"mcp"}`, agent scope, no crash, `MaxNow = 2` | `VirtualToolsRunNothing` | `approval.resolve`, open during a stop, runs a tool (mcp/server.go:493-494) |
| `HaltStore` | one process, one stop, `MaxNow = 0` | `RevokedStaysRevoked` | a grant revoked before its save is back after a restart (grant/store.go:103) |
| `HaltStore_racing` | `Stop = {h1, h2}` | `NoStackedStops` | two requests stack two stops on one target (docs/emergency-stop.md:39-40) |
| `TraceChain` | `WriteOutcomes = {"written", "lost"}`, rotations succeed, short lines | `ChainCarriesOn` | a failed write advances the head, the chain is broken after it (docs/trace-integrity.md:19-20) |
| `TraceChain` | `WriteOutcomes = {"written", "killed"}`, 2 restarts, short lines | `ChainCarriesOn` | a process killed inside a line leaves it open, the next one continues it and the chain is broken for good |
| `TraceChain` | one trace id, no failures | `OutcomeIsItsOwn` | two calls sharing a trace id: one's outcome lands on the other's entry (trace/store.go:549-550) |
| `TraceChain` | `Sizes = {"huge"}`, no failures | `ChainCarriesOn` | a line over 16 MiB is written and chained, and no verification gets past it (trace/integrity.go, docs/trace-integrity.md:19-20) |
| `TraceChain` | `LinesPerFile = 1` | `OldFileKept` | `.old` is removed before a rename that may fail (docs/trace-integrity.md:66) |
| `RateLimiter` | `Limits <- TotalOne`, one agent, `LoopMax = 9` | `BudgetForLife` | two overlapping calls both pass a total of one (docs/writing-policies.md:217) |
| `RateLimiter` | `Limits <- Unlimited`, `Policy = {loose}` | `LoopBroken` | without a rate limit the policy has no loop detection (docs/presentation-technique-fr.md:293) |
| `RateLimiter` | `Limits <- LoopsOnly`, two params, `LoopMax = 2` | `LoopBroken` | other calls push the repeated one out of the recent ones (docs/writing-policies.md:223) |
| `McpClient` | `Kinds = {"sse"}`, one loop, `FairClientSpec` | `EveryWaitEnds` | a call whose POST leaves after the stream is lost waits for ever (mcp/client.go:57) |
| `McpClient` | `Kinds = {"streamable"}`, one loop, `FairClientSpec` | `EveryWaitEnds` | a response that ends without the answer (empty, a 202, cut short) fails nothing, and no read loop ends (mcp/transport_streamable.go:130-208) |
| `McpClient` | `Kinds = {"stdio"}`, one loop, `FairClientSpec` | `EveryWaitEnds` | a read loop that gets to run after another reconnection reads the new connection, and the call on the one it was started for waits for ever (mcp/client.go:277-286, 311) |
| `McpClient` | no call, one loop, no shutdown | `ReadyHasTools` | a refused `tools/list` is taken for an empty catalogue (mcp/client.go:109) |
| `McpClient` | no call, one loop, `FairClientSpec` | `NothingOutlivesClose` | a reconnection under way opens a transport for a closed client (mcp/client.go:199) |
| `McpClient` | one loop, no shutdown | `OnlyStartedIsUsed` | a call writes to the transport of a reconnection before it is started (mcp/transport.go:6) |
| `ToolPins` | `Proc = {p1, p2}`, one upstream | `TrustMovesByAccept` | a second process's first sight overwrites rows accepted in the first |
| `ToolPins` | one upstream | `FirstUseIsWhole` | a first sight that fails half way leaves tools unpinned, denied after a restart |
| `ToolPins` | one upstream, `MaxChanges = 2` | `LoadedIsHeldBack` | between LoadMCP and Observe a changed tool is served without a floor (cmd/mesh7/mesh.go:325) |
| `PolicyFiles` | `Inline <- OwnInline` | `EditDecides` | a policy of the configuration file decides before the file the console edits |
| `PolicyFiles` | one reload goroutine | `EditDecidesAtOnce` | while a reload is due the place of an edit means another rule |
| `PolicyFiles` | one reload goroutine | `HandEditsSurvive` | a hand edit saved between the console's read and its rename is gone |
| `PolicyFiles` | `Prompt = FALSE`, `Texts <- FewTexts` | `FilesWin` | a reload that takes longer than the debounce applies an older set last |
| `PolicyFiles` | | `HiddenDispatcherIsUncallable` | a CLI dispatcher is hidden while a subcommand's name that maps to it is allowed (mcp/server.go:255-259) |
| `OtelExporter` | | `StatsAddsUp` | with an http(s) endpoint that is no URL every batch is dropped and no counter moves (trace/otel.go:229-233) |
| `OtelExporter` | | `ReceivedOnce` | a POST retried after a lost answer delivers its spans twice |
| `OtelExporter` | 2 spans | `LateIsDrained` | spans of calls that end after Close stay in the queue (cmd/mesh7/mesh.go:439) |
| `Precedents` | | `ForgottenIsForgotten` | a call that counted before a forget passes after it (approval/memory.go:417-418) |
| `Precedents` | | `ListTellsNextCall` | `would_auto_approve` is shown while auto_approve is off (approval/store.go:486-488) |
| `Precedents` | `MaxAsks = 3`, `MaxPuts = 1` | `GivenRefusalBlocks` | a refusal whose write is under way does not block the next call (docs/mem7-auto-approve.md:21) |
| `Sessions` | | `CallStaysInItsSession` | a session closed between the two looks of a POST is replaced by a fresh one the client did not ask for (mcp/http_server.go:117-135) |
| `Sessions` | | `LastKeyIsShutOut` | an issuer that withdraws its last key is kept at its word before (auth/jwt.go:203) |

Met on the way and not stated as a property: over MCP an approved call to an undeclared
subcommand of a CLI tool is claimed and then runs nothing, because the approval is
resolved by the registry's own names only (`handleResolution`, mcp/server.go); a shuttle
that initialises twice remembers the second session and leaves the first in the table.

## 5. The proofs

`ToolCallsProofs` proves of the approval store, for every set of processes, approvals and
calls, every timeout and every outcome of the database:

- `Inductive`: `Spec => []IInv`, where `IInv` is `TypeOK`, `DownIsEmpty` (a process
  that is down holds nothing), `SavingIsHeld` (a submission under way is in the map),
  `ChannelCarriesDecision` and `PendingIsTimed`. `DownIsEmpty` is needed for
  `Restart`, which must find no waiter and no submission left over; `SavingIsHeld`
  for `SaveRow`, which starts the timer of an approval that must be there.
- from it `TypeCorrect`, `AnswerIsCarried`, `AlarmIsSet` and, as an action property,
  `DecisionsAreFinal`;
- with one process on the database (`OneProcess`), `RowsFollowTheMap` and
  `RowDecisionsAreFinal`, from `RowIInv`, which adds `SavingMatches`: until the INSERT
  there is no row, and what it is about to write is what the map said or says. With
  two processes `RowDecisionFinal` is false (section 4), so the
  assumption cannot be dropped;

and of the pipeline above it, for every set of goroutines, paths and stops as well:

- `PipelineUsesStore` (`ToolSpec => Spec`): every step of the pipeline is one of the store
  or leaves it alone, so all of the above holds of it too. The pipeline has one process by
  assumption (`ToolCallConstants`), so `PipelineKeepsItsRows` (`RowNotAhead`,
  `RowDecisionFinal`) needs no other;
- `PipelineInductive`: `ToolSpec => []ToolIInv`. `ToolIInv` adds to `IInv` and the types
  what a call knows at each step (`CallHolds`: its path, an approval of the map, a yes to
  run on), that only a supervisor replays and only what was approved (`ReplayHolds`), what
  a stop has yet to deny (`PassHolds`), and `RunsAreEarned`, the account of the runs.
  `runs` alone is not inductive, since a run is earned some steps before it is done:
  `Spent` counts the runs done, under way and waiting to be replayed, `Earned` what
  allows them (a life of the process that ended, a claim in this one, an answer a
  supervisor may give, the call that no longer blocks), and each step that adds to the
  first adds to the second;
- from it `RunsAreBounded` (`RunsAreAccounted`: one run per caller that blocks, and per
  life of the process one for a claim and one for a replay) and `HaltsAnswerWhatWaits`
  (`HaltAnswersWaiting`);
- `RetriesDoNotPileUp` (`PendingPerCaller`) while nothing crashes and all calls block or
  none does (`OneWay`). Over MCP a call that is about to open an approval found none
  waiting, so the property carries itself; a call that blocks is waiting for the one it
  opened (`BlockedHolds`). Neither argument covers the other's calls: a mixed set of
  paths, or a restart that reads pending rows nobody waits for, does pile approvals up,
  so the assumptions cannot be dropped;
- `OneYesOneRun` and the refinement `PipelineImplementsLedger` (`ImplementsLedger`), with
  `OneUse`: `OneWay`, no supervisor and no crash. Then what the account allows is one run,
  and each step maps to a step of the ledger or to a stutter: a submission opens, an
  answer grants or refuses, `Run` uses. Each part of `OneUse` is needed
  (`ToolCalls_twopaths`, `ToolCalls_replay` and `ToolCalls_crash`, section 4).

`TraceProofs` proves of the trace file, for any ids, keys, sizes, outcomes of writes
and rotations, and restarts:

- `ChainInductive`: `Spec => []ChainIInv`, where `FilesHold` says what lines are made of,
  `RunsHold` that a run of the process seals its lines in order (each names the one sealed
  before it, but for the first, which may follow a line of another run), and `HeadHolds`
  that as long as every write went through and no line is over 16 MiB the head is the last
  line of `.old` and the current file together, whatever was rotated away. The last is why a restart resumes the
  chain from the right line, `RunsHold` why a line that is missing leaves a gap in the
  links. `AppendLocked` is reduced to one lemma (`OneMoreLine`): a tail or all of the lines
  there were, and the new one if it got that far;
- from it `ChainVerifiesAlways` (`ChainVerifies`) and `LossIsDetectedAlways`
  (`LossIsDetected`);
- `LoadInductive`: `Spec => []LoadIInv`, where `LoadIInv` adds to `ChainIInv` what memory and
  the fold of what `loadFromFile` sees of the current file (`Read`: the lines before the first
  one over 1 MiB) have in common while every write goes through (`ReadBackHolds`): both hold one
  entry per call, under its own trace id, and they say the same of a call none of whose lines
  is beyond what is seen. Where the whole file is seen they also agree on the latest of every
  trace id they share, which is what makes it inductive: an update looks for the latest of its
  trace id in memory, and reading its line back for the latest in the file, where entries
  already evicted from memory still are and those rotated away no longer. The two cases are
  proved apart: `Told` relates memory to a file that is read whole, `ToldPart` to the lines
  before a line too long, which no later write changes;
- from it `RestartKeepsAll` (`RestartKeepsTheEntries`) and `LatestIsLoaded`
  (`LatestRevisionIsLoaded`). What a restart reads is a fold, so these rest on
  `FoldOneMore`: the fold of a file with one more line is one step more on the fold of the
  file. `Fold` is a `CHOOSE` of a function over sets of line numbers, and that this function
  exists for every length (`FoldExists`) is an induction. The library's induction theorems
  cannot be used, as the prover does not instantiate an operator; it is done by the least
  counterexample instead (`NatLessThanWellFounded`, `WFMin`);
- `TraceTypes` (`TypeOK`), which needs the fold too: whatever lines a file holds, reading
  them back gives entries (`FoldType`). `TypeIInv` adds that no line above those sealed is
  in a file, so that sealing one more stays within the bound;

and of the exporter, for any spans, sizes of the queue and the batch, number of attempts and
outcomes of the posts:

- `ExporterInvariant`: `ExporterSpec => []ExporterIInv`, where `ExporterIInv` adds to the
  types that a span is in one place (`OnePlace`: not yet exported, once in the queue or the
  batch, sent, failed, dropped, or with a batch that was thrown away), that the batch has room for what the loop takes
  (`BatchHasRoom`), that a collector has a span at most once per attempt made
  (`DeliveredByAttempt`), and that batches are thrown away only where none can be posted
  (`LostUnposted`). `EverySpanIsCounted` is an equation between cardinalities, and only
  `OnePlace` makes it inductive: a span twice in the queue would be counted twice when its
  batch leaves;
- from it `SpansAreCounted` (`EverySpanIsCounted`): `Stats` falls short of the spans exported by
  the batch in hand and, where the endpoint is no URL, by the batches thrown away, and by
  nothing else; `ExporterTypes`; and `DeliveriesAreBounded`: at most one delivery per attempt,
  as an attempt that fails may have been stored all the same, and none of a span counted as
  dropped or thrown away.

`ToolPinsProofs` proves of the pins, for every set of upstreams, tools and versions,
every ownership, and every outcome of the INSERTs:

- `PinTypes`: `Spec => []TypeOK`, for any number of processes;
- with one process on the database (`OneProcess`), `PinInvariant`: `Spec => []IInv`,
  where `IInv` adds to `TypeOK` that a running process holds the rows and knows their
  servers (`PinsAreRows`), a process that is down has no goroutine (`DownIsIdle`), a
  tool is unseen until its server was observed (`UnobservedIsUnseen`), and what was seen
  is what the registry holds and, if shown as pinned, what the row holds
  (`SeenIsLoaded`). The last is what `FreeIsAccepted` says of the floor; the others are
  what makes it inductive: without `PinsAreRows` a restart could compare with other
  pins than the rows, without `UnobservedIsUnseen` a late `LoadMCP` could change the
  registry under a view;
- from it `FreeWasAccepted` (`FreeIsAccepted`) and `TrustIsMovedByAccept`
  (`TrustMovesByAccept`). Two processes break `PinsAreRows`, and the second property
  with it (section 4), so the assumption cannot be dropped.

`McpProofs` proves of the client, for any number of calls, reconnect loops, read loops and
transports of each kind, and any faults, in handshakes and between them:

- `ClientInvariant`: `ClientSpec => []ClientIInv`, where `ClientIInv` is `ReconnectsAreCounted`
  and where each goroutine may be (`PlacesHold`: a call never dials, the goroutine of the first
  connection never sleeps, and it has closed the client once it is past its attempt);
- from it `ReconnectsCounted` (`ReconnectsAreCounted`): until Close, the goroutines that read a
  connection, dial or wait to are one more than the handshakes of reconnects that failed. A
  client that lost its connection thus always has somebody at work on another, and a second
  one can only come from such a handshake, which leaves its read loop behind for the next end
  of a stream (mcp/client.go:118-162, 277-286). That one goroutine reconnects at a time is
  false for that reason (`OneReconnect`, `ReconnectSettles`, section 4);
- `WaitersServed` (`WaitersAreServed`), the safety half of `EveryCallEnds`: until Close, a
  request that an answer may still reach is in the map of pending ones, and its connection has a
  reader, who hands over the answer or notices the end, or one has just ended and is about to
  fail the map, unless the reader of that connection began on another. `ServedIInv` adds that
  whoever has registered is in the map or has a response, and that an open line has a reader;

and of the sessions, for every set of clients, shuttles, credentials, keys and postures of
the identity:

- `SessionInvariant`: `Spec => []IInv`, where `IInv` adds to `TypeOK` that what the table
  and the shuttles hold was minted (`TableHolds`), and of each request that past the first
  lock section the session it names is its owner's, and that one naming a closed session
  is still before it (`RequestHolds`). The second lock section has no check of its own:
  that its answer is right rests on ids that are never minted twice and owners that never
  change, which is what `TableHolds` keeps;
- from it `RequestsServedAsThemselves` (`ServedAsItself`) and `ClosedSessionsStayClosed`
  (`ClosedStaysClosed`).

`PolicyProofs` proves of the policies, for any files, rules, conditions, actions, edits and
reloads:

- `FloorsAgree`, of any decision and any tool: the two floors a call goes through one after
  the other (`ApplyFloors`) and the one the catalogue computes at once (`Floor`) end in the
  same action, the stricter one, never freer than the policy's. It rests on a tool having
  one floor at most (`OneFloor`: pins are for upstreams' tools, dispatch floors for CLI
  tools) and on `TightenedIsStricter`;
- `PolicyTypes`: `Spec => []TypeOK`. What the other theorems need of it is that the text in
  force is a text that was read, so that its policies are a set of policies
  (`ReadIsPolicySet`), although the files may not parse any more;
- `RowsTellCalls` (`StaticTellsCalls`) and `HiddenToolsAreDenied` (`HiddenIsUncallable`),
  in every state whose types are right. `PlacesAreOrdered` and `FirstIsFirst` make `Before`
  a strict order in which every set of places has a first one; from them
  `ExplainedIsEvaluated`: the rule a call ends with is the first of the conditional rules
  Explain lists whose condition holds, or the one it says decides. The floors then change
  both sides alike (`FlooredAction`);
- `EditsDecide` (`EditDecides`), if no policy of the configuration file names the agent
  exactly (`NoInlineOfTheAgent`). The code makes no such demand and section 4 shows what
  happens without it, so the premise cannot be dropped. `EditPuts` says where the action
  lands: at the deciding rule, or at the end of the agent's first file; the rules before
  it are the old ones and none of them is unconditional (`Puts`). `NewRuleDecides` says
  that this is enough;
- `EditsDisturbNoOther` (`OthersUndisturbed`), without that premise: removing, changing or
  inserting a rule for one tool moves the rules of any other within one file and keeps
  their order (`EditShifts`, `ShiftMoves`), and an order of rules moved whole tells the
  same (`MovedIsSameTold`, which gives the bijection `SameTold` asks for).

`Inserted`, `Removed` and `ActionSet` say what the edits of a list of rules make of it, place
by place.

`HaltStoreProofs` proves of the stops, for any number of processes, stops, targets and
grants, with failing statements, crashes and restarts:

- `StopIsEverywhere` (`StopReachesEveryProcess`) with any number of requests at a time
  (each past its check within a unit of the clock, as `Tick` assumes), from `StopIInv`: types (`TypeOK`, `RequestTypes`), the process of a request runs
  (`ServedIsUp`), a process has every stop begun before its last synchronisation
  (`SyncedKnows`), and so do the rows a request has read and not yet swapped in
  (`ReadIsRecent`). `HaltTypes` comes with it;
- `StopsAreKept` (`KnownOnceSettled`), with any number of requests at a time, from `StopIInv`
  too: what a reload swaps in holds every stop begun before now (`ReadIsRecent`), and a query
  that fails swaps in nothing. Before a stop is `SyncEvery` old it is false
  (`HaltStore_racing.cfg`, section 4);
- `GrantsAreKept` (`GrantsNotLost`), with any number of requests, failing statements, crashes
  and restarts, from `GrantIInv`, which adds to `StopIInv` that a stop that is beginning has no
  grants on record and one request at it (`BeginningHolds`), and that what is owed is on the
  record, in the rows read and not yet swapped in, and in every copy of now (`OwedIsCopied`).
  The first is why a record overwrites nothing, the second why a resume by any process, after
  any reload, gives everything back that was on the record when the clock moved.

`RateLimiterProofs` proves of the limiter, for any agents, policies, maps of limits,
windows and number of requests at a time:

- `LimiterInvariant`: `Spec => []RoomIInv`. Below it, `LimiterIInv` adds to `TypeOK` that
  runs are numbered in time (`RunsInOrder`) and that the table holds the runs of the last
  minute of every agent never crowded out (`TableHolds`): `Gc` may only forget what no
  window looks at. The check and the record are apart, so no limit is inductive alone:
  `RateRoom`, `TotalRoom` and `LoopRoom` say that a call past its check has its place below
  the limit already, with as many places above it as other requests may overlap.
  `TotalCounts` relates the total the limiter keeps to the one since the agent's last rest;
- from it `LimiterTypes`, `RateIsHeld` (`RateHeld`) and `BudgetIsHeld` (`BudgetHeld`), and
  `LoopsAreBroken` (`LoopBroken`) where every policy has a rate and `recent` has room for
  the calls of a minute at the largest (`RecentSuffices`); without it other calls push the
  repeated one out of `recent` (section 4), so the assumption cannot be dropped.

`PrecedentsProofs` proves of the decision memory and the settings, for any callers, subjects,
resolvers, thresholds, contents of the memory and hand edits:

- `SettingsInvariant`: with a memory, `SettingsSpec => [](SettingsSurviveRestart /\
  ChangesAreAccepted)`, from `SettingsIInv`. A PUT takes three steps between which people
  save the same file; `PutHolds` says what its text and the file are as long as nobody has.
  Without a memory neither holds, as a file may then give settings other than those in force
  (section 4);
- `SettingsKept` (`SettingsSurviveRestart`) while calls are served, as they leave the settings
  alone (`CallsLeaveSettings`);
- `PrecedentsInvariant`: `Spec => [](PrecedentsIInv /\ SettingsIInv)`. `PrecedentsIInv` adds to
  `TypeOK` that a refusal which barred a call is in the memory until the call has counted it
  (`RefusalsHold`), and, if only people are taken for people (`PeopleAnswerAsUser`), that the
  human approvals in the memory and on their way to it were given, and that no call of a
  couple not forgotten since counted more (`ApprovalsHold`). The facts are bags, and the
  lemmas say what one fact more, one stored and a couple forgotten do to a count;
- from it `RefusalsBlock` (`RefusalBlocks`), whoever answers, and `ApprovalsRestOnPeople`
  (`GroundedInHumans`) under `PeopleAnswerAsUser`. `approval.resolve` breaks that premise and
  the property with it (`Precedents_mcp`, section 4), so it cannot be dropped.

The assumptions on the constants are those their modules name (`ApprovalConstants`,
`ToolCallConstants`, `PinConstants`, `SessionConstants`, `ClientConstants`, `TraceConstants`,
`ExporterConstants`, `HaltConstants`, `LimiterConstants`, `FileConstants`, `NoAgentIsNone`,
`SettingsConstants`, `PrecedentConstants`), and `OneProcess`, `OneWay`, `OneUse`,
`MaxCrashes = 0`, `NoInlineOfTheAgent`, `RecentSuffices`, `Memory` and `PeopleAnswerAsUser` where they are named
above. Each proof of an invariant goes by one step per action, and the temporal step combines
them by PTL. The invariants were checked by TLC
on the instances of section 3 before they were proved.

Every safety property a passing run checks is stated by a theorem. Model-checked only: the
liveness properties (`EveryApprovalIsDecided`, `EveryCallIsAnswered`, `EveryCallEnds`,
`EveryUpstreamJoins`, `FilesWin`, `QueueIsDrained`, `WithdrawnKeyIsShutOut`: fairness and ENABLED are beyond the prover).

## 6. Plan

Done, each with its proofs: the approval store, the pipeline and its ledger, stops and
grants, the trace chain and what a restart reads back, the rate limiter, the MCP client,
pins and the connect closure, policy engine and editing, floors and decisions, the exporter,
precedents and approval settings, sessions and identity.
Left: the lineage walk of `trace.Store.Chain` as a function.
