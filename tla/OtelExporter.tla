----------------------------- MODULE OtelExporter -----------------------------
(***************************************************************************)
(* The OTLP/HTTP exporter (trace/otel.go): a bounded queue that tool calls *)
(* fill without blocking, one goroutine that sends it in batches with      *)
(* retries, and Close, which drains it.                                    *)
(*                                                                         *)
(* Spans are numbered in the order they reach the queue.  The collector    *)
(* may answer anything to a POST, or nothing after it took the spans.  The *)
(* endpoint is only looked at for its scheme: one that is no URL stays one *)
(* for the life of the process, and no POST to it is ever made.            *)
(***************************************************************************)
EXTENDS Naturals, Sequences, FiniteSets, SequencesExt

CONSTANTS
  Spans,       \* spans exported in all, a bound
  QueueSize,   \* otelQueueSize
  BatchSize,   \* otelBatchSize
  MaxAttempts  \* otelMaxAttempts

ASSUME ExporterConstants ==
  {Spans, QueueSize, BatchSize, MaxAttempts} \subseteq Nat \ {0}

VARIABLES
  parses,   \* the endpoint is a URL: http.NewRequest takes it
  exported, \* spans exported so far
  queue, batch,
  attempt,  \* the POST of the batch being made, 0 none
  run,      \* the goroutine: "batching", "draining", "last", "stopped", or "gone"
  done,     \* Close was called
  closer,   \* Close: "no", "waiting", "returned", "timedOut"
  sent, failed, dropped,
  lost,     \* the spans of the batches whose POST could not be made
  received, \* span -> how often the collector took it
  late      \* the spans exported after Close was called

counters == <<sent, failed, dropped>>
exporterVars == <<parses, exported, queue, batch, attempt, run, done, closer, counters, lost, received, late>>

Span == 1 .. Spans
ExporterTypeOK ==
  /\ exported \in 0 .. Spans
  /\ queue \in Seq(Span) /\ Len(queue) <= QueueSize
  /\ batch \in Seq(Span) /\ Len(batch) <= BatchSize
  /\ attempt \in 0 .. MaxAttempts
  /\ run \in {"batching", "draining", "last", "stopped", "gone"}
  /\ done \in BOOLEAN /\ closer \in {"no", "waiting", "returned", "timedOut"}
  /\ parses \in BOOLEAN
  /\ {sent, failed, dropped, lost, late} \subseteq SUBSET Span
  /\ received \in [Span -> 0 .. MaxAttempts]

ExporterInit ==
  /\ exported = 0 /\ queue = <<>> /\ batch = <<>> /\ attempt = 0
  /\ run = "batching" /\ done = FALSE /\ closer = "no"
  /\ parses \in BOOLEAN
  /\ sent = {} /\ failed = {} /\ dropped = {} /\ lost = {}
  /\ received = [s \in Span |-> 0] /\ late = {}

-----------------------------------------------------------------------------
(* Export, from any tool call: the handlers outlive Close.                 *)
Export ==
  LET span == exported + 1 IN
  /\ run # "gone" /\ exported < Spans /\ exported' = span
  /\ IF Len(queue) < QueueSize
       THEN queue' = Append(queue, span) /\ UNCHANGED dropped
       ELSE dropped' = dropped \cup {span} /\ UNCHANGED queue
  /\ late' = IF done THEN late \cup {span} ELSE late
  /\ UNCHANGED <<parses, batch, attempt, run, done, closer, sent, failed, lost, received>>

(* run takes a span; a full batch leaves. *)
Take ==
  /\ run \in {"batching", "draining"} /\ attempt = 0 /\ queue # <<>>
  /\ batch' = Append(batch, Head(queue)) /\ queue' = Tail(queue)
  /\ attempt' = IF Len(batch') >= BatchSize THEN 1 ELSE 0
  /\ UNCHANGED <<parses, exported, run, done, closer, counters, lost, received, late>>

(* The ticker: what there is leaves. *)
Flush ==
  /\ run = "batching" /\ attempt = 0 /\ batch # <<>>
  /\ attempt' = 1
  /\ UNCHANGED <<parses, exported, queue, batch, run, done, closer, counters, lost, received, late>>

SeeDone ==
  /\ run = "batching" /\ attempt = 0 /\ done
  /\ run' = "draining"
  /\ UNCHANGED <<parses, exported, queue, batch, attempt, done, closer, counters, lost, received, late>>

(* Variant: nothing more in the queue, the last batch is forgotten. *)
DrainedUnsent ==
  /\ run = "draining" /\ attempt = 0 /\ queue = <<>>
  /\ run' = "stopped" /\ UNCHANGED attempt
  /\ UNCHANGED <<parses, exported, queue, batch, done, closer, counters, lost, received, late>>

(* The queue is empty: the last batch leaves, and run returns. *)
Drained ==
  /\ run = "draining" /\ attempt = 0 /\ queue = <<>>
  /\ IF batch = <<>> THEN run' = "stopped" /\ UNCHANGED attempt
                     ELSE run' = "last" /\ attempt' = 1
  /\ UNCHANGED <<parses, exported, queue, batch, done, closer, counters, lost, received, late>>

(* The batch is over, sent or not. *)
BatchOver ==
  /\ batch' = <<>> /\ attempt' = 0
  /\ run' = IF run = "last" THEN "stopped" ELSE run

Stored == [s \in Span |-> IF s \in ToSet(batch) THEN received[s] + 1 ELSE received[s]]

PostAccepted ==
  /\ parses /\ attempt > 0 /\ BatchOver
  /\ received' = Stored
  /\ sent' = sent \cup ToSet(batch)
  /\ UNCHANGED <<parses, exported, queue, done, closer, failed, dropped, lost, late>>

(* A status that no retry can change. *)
PostRefused ==
  /\ parses /\ attempt > 0 /\ BatchOver
  /\ failed' = failed \cup ToSet(batch)
  /\ UNCHANGED <<parses, exported, queue, done, closer, sent, dropped, lost, received, late>>

(* Variant: out of attempts, the batch is given up without a count. *)
PostFailsUncounted ==
  /\ parses /\ attempt > 0
  /\ received' \in {received, Stored}
  /\ IF attempt = MaxAttempts THEN BatchOver
     ELSE attempt' = attempt + 1 /\ UNCHANGED <<batch, run>>
  /\ UNCHANGED <<parses, exported, queue, done, closer, sent, failed, dropped, lost, late>>

(* A network error, a 429 or a 5xx, the spans taken or not: once more, or  *)
(* counted as failed after the last attempt.                               *)
PostFails ==
  /\ parses /\ attempt > 0
  /\ received' \in {received, Stored}
  /\ IF attempt = MaxAttempts
       THEN BatchOver /\ failed' = failed \cup ToSet(batch)
       ELSE attempt' = attempt + 1 /\ UNCHANGED <<batch, run, failed>>
  /\ UNCHANGED <<parses, exported, queue, done, closer, sent, dropped, lost, late>>

(* The request cannot be built: send drops the batch at once, and no       *)
(* counter moves.                                                          *)
PostUnbuilt ==
  /\ ~parses /\ attempt > 0 /\ BatchOver
  /\ lost' = lost \cup ToSet(batch)
  /\ UNCHANGED <<parses, exported, queue, done, closer, counters, received, late>>

(* Close tells run, and waits for it for a time. *)
Close ==
  /\ closer = "no" /\ closer' = "waiting" /\ done' = TRUE
  /\ UNCHANGED <<parses, exported, queue, batch, attempt, run, counters, lost, received, late>>

(* It returns when run has, or after otelCloseWait. *)
CloseReturns ==
  /\ closer = "waiting"
  /\ closer' \in IF run = "stopped" THEN {"returned", "timedOut"} ELSE {"timedOut"}
  /\ UNCHANGED <<parses, exported, queue, batch, attempt, run, done, counters, lost, received, late>>

(* The process ends once Close has returned. *)
Exit ==
  /\ closer \in {"returned", "timedOut"} /\ run # "gone"
  /\ run' = "gone"
  /\ UNCHANGED <<parses, exported, queue, batch, attempt, done, closer, counters, lost, received, late>>

-----------------------------------------------------------------------------
Post == run # "gone" /\ (PostAccepted \/ PostRefused \/ PostFails \/ PostUnbuilt)
Run == Take \/ Flush \/ SeeDone \/ Drained \/ Post
ExporterNext == Export \/ Run \/ Close \/ CloseReturns \/ Exit

ExporterSpec == ExporterInit /\ [][ExporterNext]_exporterVars

(* run keeps running: a POST has a timeout, and the ticker ticks. *)
FairExporterSpec == ExporterSpec /\ WF_exporterVars(Run)

-----------------------------------------------------------------------------
(* Properties. *)

Left == ToSet(queue) \cup ToSet(batch)

(* The spans Stats tells of: counted, or in the queue. *)
StatsTotal == Cardinality(sent) + Cardinality(failed) + Cardinality(dropped) + Len(queue)

(* Every span handed over is in one place and counted once, through full   *)
(* queues, retries and shutdown: Stats misses the batch in hand, and,      *)
(* where the endpoint is no URL, the batches send threw away, which are    *)
(* then all that ever left.                                                *)
EverySpanIsCounted ==
  /\ sent \cup failed \cup dropped \cup lost \cup Left = 1 .. exported
  /\ StatsTotal + Len(batch) + Cardinality(lost) = exported
  /\ lost # {} => ~parses /\ sent \cup failed = {}

(* A span exported before Close leaves the exporter, posted, given up or   *)
(* with a batch no POST can be made of, unless Close gave up waiting:      *)
(* shutting down forgets nothing of the queue.                             *)
QueueIsDrained ==
  \A s \in Span : (s \in Left \ late) ~> (s \notin Left \/ closer = "timedOut")

(* Stats and the batch in hand account for every span.                     *)
StatsAddsUp == StatsTotal + Len(batch) = exported

(* The collector gets a span at most once.                                 *)
ReceivedOnce == \A s \in Span : received[s] <= 1

(* A span exported while mesh7 shuts down leaves the exporter as well.     *)
LateIsDrained ==
  \A s \in Span : (s \in Left) ~> (s \notin Left \/ closer = "timedOut")

-----------------------------------------------------------------------------
(* The inductive invariant behind EverySpanIsCounted (TraceProofs). *)

(* Every span is in one place, and nothing twice in the queue or the batch. *)
OnePlace ==
  /\ sent \cup failed \cup dropped \cup lost \cup Left = 1 .. exported
  /\ sent \cap (failed \cup dropped \cup lost \cup Left) = {}
  /\ failed \cap (dropped \cup lost \cup Left) = {}
  /\ dropped \cap (lost \cup Left) = {}
  /\ lost \cap Left = {}
  /\ ToSet(queue) \cap ToSet(batch) = {}
  /\ IsInjective(queue) /\ IsInjective(batch)

(* A batch that is not being sent has room.                                *)
BatchHasRoom == attempt = 0 => Len(batch) < BatchSize

(* A span reaches the collector once per attempt at most, and not before   *)
(* its batch leaves.                                                       *)
DeliveredByAttempt ==
  /\ \A s \in Span : s > exported \/ s \in ToSet(queue) \cup dropped \cup lost => received[s] = 0
  /\ \A s \in ToSet(batch) : received[s] = 0 \/ received[s] < attempt

(* Batches are thrown away only where none can be posted.                  *)
LostUnposted ==
  IF parses THEN lost = {} ELSE sent \cup failed = {} /\ received = [s \in Span |-> 0]

ExporterIInv ==
  /\ ExporterTypeOK /\ OnePlace /\ BatchHasRoom /\ DeliveredByAttempt /\ LostUnposted
=============================================================================
