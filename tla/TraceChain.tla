------------------------------ MODULE TraceChain ------------------------------
(***************************************************************************)
(* The trace store (package trace): one entry per tool call in memory, a   *)
(* hash-chained line per entry and per update in an append-only file, one  *)
(* rotation kept as .old, both read again by the next process.             *)
(*                                                                         *)
(* Every operation holds Store.mu from end to end, so each is one action;  *)
(* what happens between them is a process that stops, a write that fails,  *)
(* a key that changes.  Sizes count lines, hashes are the rank of the line *)
(* among all those ever sealed: two lines never share one.  A line also    *)
(* tells which run of the process wrote it, and whether it is longer than  *)
(* a scanner takes: "long" than that of loadFromFile (1 MiB), "huge" than  *)
(* those of verifyReader and lastEnvelope too (16 MiB), which is more than *)
(* a file holds before it is rotated (10 MiB).                             *)
(***************************************************************************)
EXTENDS Naturals, Sequences, SequencesExt, FiniteSets

CONSTANTS
  TraceId,        \* trace ids; several calls may carry the same one
  Key,            \* what MESH_TRACE_KEY may hold, NoKey among them or not
  MaxEntries,     \* Store.maxSize
  LinesPerFile,   \* Store.maxFileSize, in lines
  WriteOutcomes,  \* of "written", "lost", "partial", "killed"
  RotateOutcomes, \* of "rotated", "notRenamed", "notReopened"
  Sizes,          \* of the lines, of "short", "long", "huge"
  MaxWrites,      \* bound on the lines sealed
  MaxRestarts     \* bound on the restarts

ASSUME TraceConstants ==
  /\ {MaxEntries, LinesPerFile} \subseteq Nat \ {0}
  /\ {MaxWrites, MaxRestarts} \subseteq Nat
  /\ WriteOutcomes \subseteq {"written", "lost", "partial", "killed"}
  /\ RotateOutcomes \subseteq {"rotated", "notRenamed", "notReopened"}
  /\ Sizes \subseteq {"short", "long", "huge"}

VARIABLES
  up, key, restarts,
  entries,        \* Store.entries, oldest first
  seq, prevHash,  \* the head of the chain
  fileSize,       \* what the store believes the file holds
  stuck,          \* the bufio.Writer has met an error and writes no more
  file, old,      \* the lines of the file and of its .old
  created,        \* the file exists
  calls,          \* the trace id of each call recorded, in order
  inFlight,       \* the calls whose handler may still update its entry
  sealed,         \* how many lines were sealed
  mishap          \* a write or a rotation has failed, or was cut short, or
                  \* a line is one that verify cannot take

storeVars == <<up, key, restarts>>
fileVars == <<seq, prevHash, fileSize, stuck, file, old, created, sealed,
              mishap>>
callVars == <<calls, inFlight>>
vars == <<storeVars, entries, fileVars, callVars>>

Entry == [tid : TraceId, call : 1 .. MaxWrites, rev : 0 .. MaxWrites, by : 0 .. MaxWrites]
Forms == {"whole", "unended", "partial", "merged"}
Line == [entry : Entry, seq : 1 .. MaxWrites, prev : 0 .. MaxWrites,
         hash : 1 .. MaxWrites, key : Key, run : 0 .. MaxRestarts, form : Forms,
         size : Sizes]

TypeOK ==
  /\ up \in BOOLEAN /\ key \in Key /\ restarts \in 0 .. MaxRestarts
  /\ entries \in Seq(Entry) /\ Len(entries) <= MaxEntries
  /\ {seq, prevHash, sealed} \subseteq 0 .. MaxWrites /\ fileSize \in Nat
  /\ {stuck, created, mishap} \subseteq BOOLEAN
  /\ {file, old} \subseteq Seq(Line)
  /\ calls \in Seq(TraceId)
  /\ inFlight \subseteq DOMAIN calls

-----------------------------------------------------------------------------
(* Lines.  A line cut short has no envelope; one whose newline is missing  *)
(* has one, until the next write lands on the same line and its hash is    *)
(* then checked against the two of them.                                   *)

HasEnvelope(l) == l.form # "partial"
Parses(l) == l.form \in {"whole", "unended"}
HashHolds(l, k) == Parses(l) /\ l.key = k

Seal(e, sz) == [entry |-> e, seq |-> seq + 1, prev |-> prevHash, hash |-> sealed + 1,
                key |-> key, run |-> restarts, form |-> "whole", size |-> sz]

Longer(s, t) == IF "huge" \in {s, t} THEN "huge" ELSE IF "long" \in {s, t} THEN "long" ELSE "short"

(* The file after l is written with outcome o on its open end: two lines   *)
(* on one are at least as long as the longer.                              *)
Written(f, l, o) ==
  LET form == CASE o = "partial" -> "partial" [] o = "killed" -> "unended" [] OTHER -> "whole"
      open == f # <<>> /\ Last(f).form \in {"partial", "unended"}
  IN IF o = "lost" THEN f
     ELSE IF ~open THEN Append(f, [l EXCEPT !.form = form])
     ELSE Append(Front(f), [l EXCEPT !.form = IF form = "partial" THEN "partial" ELSE "merged",
                                     !.size = Longer(Last(f).size, l.size)])

(* The lines before the first one of the sizes tooLong: a scanner ends     *)
(* there.                                                                  *)
Scanned(ls, tooLong) ==
  LET i == SelectInSeq(ls, LAMBDA l : l.size \in tooLong)
  IN IF i = 0 THEN ls ELSE SubSeq(ls, 1, i - 1)
Read(ls) == Scanned(ls, {"long", "huge"})

FirstEnvelope(ls) == SelectInSeq(ls, HasEnvelope)
LastEnvelope(ls) == SelectLastInSeq(Scanned(ls, {"huge"}), HasEnvelope)

(* The walk of verifyReader over the lines ls with the key k finds no      *)
(* break: legacy lines may only precede the first chained one.             *)
Verifies(ls, k) ==
  LET start == FirstEnvelope(ls)
  IN start # 0 =>
       \A i \in start .. Len(ls) :
         /\ HasEnvelope(ls[i])
         /\ ls[i].size # "huge"
         /\ HashHolds(ls[i], k)
         /\ i > start => /\ ls[i].seq = ls[i-1].seq + 1
                         /\ ls[i].prev = ls[i-1].hash

(* Variant: every line of a shared trace id taken for an update of the same call.   *)
FoldInAny(es, l) ==
  LET i == SelectLastInSeq(es, LAMBDA e : e.tid = l.entry.tid)
  IN CASE ~Parses(l) -> es
       [] Parses(l) /\ i # 0 -> [es EXCEPT ![i] = l.entry]
       [] OTHER -> Append(es, l.entry)

(* A revision replaces the latest entry of its trace id, as Update did in  *)
(* memory; revision 0 is always a new call.                                *)
FoldIn(es, l) ==
  LET i == SelectLastInSeq(es, LAMBDA e : e.tid = l.entry.tid)
  IN CASE ~Parses(l) -> es
       [] Parses(l) /\ i # 0 /\ l.entry.rev > 0 -> [es EXCEPT ![i] = l.entry]
       [] OTHER -> Append(es, l.entry)

Fold(ls) == FoldLeft(FoldIn, <<>>, ls)
Newest(es) == SubSeq(es, IF Len(es) > MaxEntries THEN Len(es) - MaxEntries + 1 ELSE 1, Len(es))
LoadFromFile(ls) == Newest(Fold(Read(ls)))

(* Space in the file for a line, and what a file of lines takes.           *)
Space(sz) == IF sz = "huge" THEN LinesPerFile ELSE 1
Extent(ls) == IF \E i \in DOMAIN ls : ls[i].size = "huge" THEN LinesPerFile ELSE Len(ls)

-----------------------------------------------------------------------------
Init ==
  /\ up = TRUE /\ key \in Key /\ restarts = 0
  /\ entries = <<>>
  /\ seq = 0 /\ prevHash = 0 /\ fileSize = 0 /\ stuck = FALSE
  /\ file = <<>> /\ old = <<>> /\ created = TRUE
  /\ calls = <<>> /\ inFlight = {}
  /\ sealed = 0 /\ mishap = FALSE

(* rotate: close, remove .old, rename, reopen.  When the rename fails the  *)
(* store goes on with the file it closed; when the reopening fails the     *)
(* renamed file is closed and there is no current one.                     *)
Rotate(f, o) ==
  IF o = "notRenamed" \/ ~created
  THEN /\ old' = <<>> /\ file' = f /\ created' = created /\ stuck' = TRUE
       /\ fileSize' = LinesPerFile
  ELSE /\ old' = f /\ file' = <<>> /\ created' = (o = "rotated")
       /\ stuck' = (o = "notReopened")
       /\ fileSize' = IF o = "rotated" THEN 0 ELSE LinesPerFile

(* Variant: the head moves on only when the write went through. *)
AppendWhenWritten(e) ==
  \E o \in WriteOutcomes, r \in RotateOutcomes, sz \in Sizes :
    LET f == IF stuck THEN file ELSE Written(file, Seal(e, sz), o)
        size == IF stuck THEN fileSize ELSE fileSize + (IF o = "lost" THEN 1 ELSE Space(sz))
    IN /\ sealed < MaxWrites
       /\ sealed' = sealed + 1
       /\ IF stuck \/ o \in {"lost", "partial"}
          THEN UNCHANGED <<seq, prevHash>>
          ELSE seq' = seq + 1 /\ prevHash' = sealed + 1
       /\ up' = (stuck \/ o # "killed")
       /\ mishap' = \/ mishap \/ stuck \/ o # "written" \/ sz = "huge"
                    \/ up' /\ size >= LinesPerFile /\ r # "rotated"
       /\ IF up' /\ size >= LinesPerFile
          THEN Rotate(f, r)
          ELSE /\ file' = f /\ fileSize' = size
               /\ stuck' = (stuck \/ o \in {"lost", "partial"})
               /\ UNCHANGED <<old, created>>

(* appendLocked: the head moves on whatever becomes of the write, whose    *)
(* error nobody reads.  A process killed between the line and its newline  *)
(* (a line longer than the buffer takes two writes) goes no further.       *)
AppendLocked(e) ==
  \E o \in WriteOutcomes, r \in RotateOutcomes, sz \in Sizes :
    LET f == IF stuck THEN file ELSE Written(file, Seal(e, sz), o)
        size == IF stuck THEN fileSize ELSE fileSize + (IF o = "lost" THEN 1 ELSE Space(sz))
    IN /\ sealed < MaxWrites
       /\ sealed' = sealed + 1
       /\ seq' = seq + 1
       /\ prevHash' = sealed + 1
       /\ up' = (stuck \/ o # "killed")
       /\ mishap' = \/ mishap \/ stuck \/ o # "written" \/ sz = "huge"
                    \/ up' /\ size >= LinesPerFile /\ r # "rotated"
       /\ IF up' /\ size >= LinesPerFile
          THEN Rotate(f, r)
          ELSE /\ file' = f /\ fileSize' = size
               /\ stuck' = (stuck \/ o \in {"lost", "partial"})
               /\ UNCHANGED <<old, created>>

(* Record: the entry of a call, new in memory and in the file. *)
Record(t) ==
  LET c == Len(calls) + 1
      e == [tid |-> t, call |-> c, rev |-> 0, by |-> 0]
  IN /\ up
     /\ entries' = Newest(Append(entries, e))
     /\ AppendLocked(e)
     /\ calls' = Append(calls, t)
     /\ inFlight' = IF up' THEN inFlight \cup {c} ELSE {}
     /\ UNCHANGED <<key, restarts>>

(* Variant: the update applied in memory, and no line for it. *)
UpdateInMemory(c) ==
  LET i == SelectLastInSeq(entries, LAMBDA e : e.tid = calls[c])
  IN /\ up /\ c \in inFlight
     /\ i # 0
     /\ entries[i].rev < MaxWrites
     /\ entries' = [entries EXCEPT ![i] = [@ EXCEPT !.rev = @ + 1, !.by = c]]
     /\ UNCHANGED <<storeVars, fileVars, callVars>>

(* Update by the handler of call c: the latest entry of its trace id gets  *)
(* the outcome and one more revision, unless it has been evicted.          *)
Update(c) ==
  LET i == SelectLastInSeq(entries, LAMBDA e : e.tid = calls[c])
      e == [entries[i] EXCEPT !.rev = @ + 1, !.by = c]
  IN /\ up /\ c \in inFlight
     /\ i # 0
     /\ entries' = [entries EXCEPT ![i] = e]
     /\ AppendLocked(e)
     /\ inFlight' = IF up' THEN inFlight ELSE {}
     /\ UNCHANGED <<calls, key, restarts>>

(* The process stops, on a signal or not: every line was flushed. *)
Stop ==
  /\ up
  /\ up' = FALSE
  /\ inFlight' = {}
  /\ UNCHANGED <<key, restarts, entries, fileVars, calls>>

(* Variant: the chain resumed from the current file alone. *)
RestartFromFile ==
  /\ ~up /\ restarts < MaxRestarts
  /\ up' = TRUE /\ restarts' = restarts + 1
  /\ key' \in Key
  /\ entries' = LoadFromFile(file)
  /\ LET i == LastEnvelope(file)
     IN IF i # 0 THEN seq' = file[i].seq /\ prevHash' = file[i].hash
        ELSE seq' = 0 /\ prevHash' = 0
  /\ fileSize' = Extent(file) /\ stuck' = FALSE /\ created' = TRUE
  /\ UNCHANGED <<file, old, sealed, mishap, callVars>>

(* NewPersistentStore, SetKey: load the current file, resume the chain     *)
(* from its last envelope or from that of .old, open the file to append.   *)
Restart ==
  /\ ~up /\ restarts < MaxRestarts
  /\ up' = TRUE /\ restarts' = restarts + 1
  /\ key' \in Key
  /\ entries' = LoadFromFile(file)
  /\ LET i == LastEnvelope(file)
         j == LastEnvelope(old)
     IN IF i # 0 THEN seq' = file[i].seq /\ prevHash' = file[i].hash
        ELSE IF j # 0 THEN seq' = old[j].seq /\ prevHash' = old[j].hash
        ELSE seq' = 0 /\ prevHash' = 0
  /\ fileSize' = Extent(file) /\ stuck' = FALSE /\ created' = TRUE
  /\ UNCHANGED <<file, old, sealed, mishap, callVars>>

Next ==
  \/ \E t \in TraceId : Record(t)
  \/ \E c \in DOMAIN calls : Update(c)
  \/ Stop
  \/ Restart

Spec == Init /\ [][Next]_vars

-----------------------------------------------------------------------------
(* What GET /traces/verify reads: .old, then the current file.             *)
Lines == old \o file

(* The lines since the key last changed: those verify can be asked about. *)
UnderKey(ls) ==
  LET other == SelectLastInSeq(ls, LAMBDA l : l.key # key)
  IN SubSeq(ls, other + 1, Len(ls))

(* The chain carries on across restarts and rotations: as long as every    *)
(* write went through and no line is over 16 MiB, GET /traces/verify on    *)
(* .old and the current file finds no break in what the store wrote under  *)
(* its key (Store.VerifyChain).                                            *)
ChainVerifies == up /\ ~mishap => Verifies(UnderKey(Lines), key)

(* An approval outcome survives a restart: what the next process would     *)
(* read back is what this one holds, entry by entry and revision by        *)
(* revision, as long as nothing was rotated away and no line of the file   *)
(* is over 1 MiB (loadFromFile, Update).                                   *)
RestartKeepsTheEntries ==
  up /\ old = <<>> /\ ~mishap /\ Read(file) = file => LoadFromFile(file) = entries

(* After a rotation too, and whatever follows a line over 1 MiB: an entry  *)
(* all of whose lines in the current file come before the first such line  *)
(* is read back once, at the revision it has in memory.                    *)
LinesOf(c) == {k \in DOMAIN file : file[k].entry.call = c}
LatestRevisionIsLoaded ==
  up /\ ~mishap => \A i \in DOMAIN entries :
    LinesOf(entries[i].call) # {} /\ LinesOf(entries[i].call) \subseteq DOMAIN Read(file)
      => {e \in ToSet(Fold(Read(file))) : e.call = entries[i].call} = {entries[i]}

(* Store.Update: an outcome does not vanish at the next restart, whatever  *)
(* the length of the lines (loadFromFile).                                 *)
OutcomesSurvive ==
  up /\ old = <<>> /\ ~mishap =>
    \A i \in DOMAIN entries : entries[i].rev > 0 => entries[i] \in ToSet(LoadFromFile(file))

(* A line lost or damaged on its way to the file shows: when no break is   *)
(* found, every line from the first chained one on is intact and follows   *)
(* the very line its process sealed before it (appendLocked,               *)
(* verifyReader).  The lines a process could not write before it stopped   *)
(* are a shorter tail, those before the first chained one are unchained.   *)
LossIsDetected ==
  LET ls == UnderKey(Lines)
      start == FirstEnvelope(ls)
  IN start # 0 /\ Verifies(ls, key) =>
       \A i \in start .. Len(ls) :
         /\ Parses(ls[i])
         /\ i > start /\ ls[i].run = ls[i-1].run => ls[i].hash = ls[i-1].hash + 1

(* docs/trace-integrity.md: the chain carries on across restarts and        *)
(* rotations, whatever becomes of the writes (appendLocked, NewStore).     *)
ChainCarriesOn == up => Verifies(UnderKey(Lines), key)

(* Rotation keeps one old file: once there is one there is always one      *)
(* (rotate).                                                               *)
OldFileKept == [][old # <<>> => old' # <<>>]_vars

(* The outcome an entry shows is the outcome of its own call (Update, as   *)
(* the handlers call it with the trace id of their entry).                 *)
OutcomeIsItsOwn == \A i \in DOMAIN entries : entries[i].by \in {0, entries[i].call}

-----------------------------------------------------------------------------
(* The inductive invariant behind the first and the last of these          *)
(* properties (TraceProofs).                                               *)

IsSeq(ls) == ls \in Seq(ToSet(ls))

(* What the chain is made of: numbers, in lines of this run or earlier     *)
(* ones.                                                                   *)
FilesHold ==
  /\ IsSeq(old) /\ IsSeq(file)
  /\ {seq, prevHash, sealed, restarts} \subseteq Nat
  /\ {stuck, created, mishap} \subseteq BOOLEAN
  /\ \A i \in 1 .. Len(Lines) :
       /\ {Lines[i].seq, Lines[i].prev, Lines[i].hash} \subseteq Nat
       /\ Lines[i].run \in 0 .. restarts

(* A run seals its lines in order: only its first one can follow a line of *)
(* another, and each of the others names the one sealed before it.         *)
RunsHold ==
  /\ \A i \in 1 .. Len(Lines) : Lines[i].run = restarts => prevHash = sealed
  /\ \A i \in 2 .. Len(Lines) :
       Lines[i].run = Lines[i-1].run => Lines[i].hash = Lines[i].prev + 1

(* As long as every write went through, the head is the last line there    *)
(* is, the one a restart resumes from.                                     *)
HeadHolds ==
  ~mishap =>
    /\ ~stuck /\ created
    /\ \A i \in 1 .. Len(Lines) : Lines[i].form = "whole" /\ Lines[i].size # "huge"
    /\ \A i \in 2 .. Len(Lines) : /\ Lines[i].seq = Lines[i-1].seq + 1
                                  /\ Lines[i].prev = Lines[i-1].hash
    /\ IF Lines = <<>> THEN seq = 0 /\ prevHash = 0
       ELSE seq = Last(Lines).seq /\ prevHash = Last(Lines).hash

ChainIInv ==
  /\ FilesHold
  /\ RunsHold
  /\ HeadHolds

-----------------------------------------------------------------------------
(* What a restart reads back, beside what memory holds: the invariant      *)
(* behind the other two (TraceProofs).                                     *)

(* The entry that an update of its trace id goes to.                       *)
IsLatest(es, i) == i \in DOMAIN es /\ \A j \in DOMAIN es : es[j].tid = es[i].tid => j <= i

(* One entry per call recorded, under the trace id it was recorded with.   *)
IsEntry(e) == e = [tid |-> e.tid, call |-> e.call, rev |-> e.rev, by |-> e.by]

EachItsCall(es) ==
  /\ IsSeq(es)
  /\ \A i \in DOMAIN es :
       /\ IsEntry(es[i]) /\ es[i].rev \in Nat /\ es[i].call \in DOMAIN calls
       /\ es[i].tid = calls[es[i].call]
       /\ \A j \in DOMAIN es : es[i].call = es[j].call => i = j

(* Two lists of entries tell the same of a call, and agree on the latest   *)
(* of a trace id: an update changes the same entry in both.                *)
Agree(es, fs) ==
  \A i \in DOMAIN es, j \in DOMAIN fs :
    /\ es[i].call = fs[j].call => es[i] = fs[j]
    /\ IsLatest(es, i) /\ IsLatest(fs, j) /\ es[i].tid = fs[j].tid => es[i] = fs[j]

(* They tell the same of the calls the rest of the file says nothing of.   *)
AgreeButFor(es, fs, n) ==
  \A i \in DOMAIN es, j \in DOMAIN fs :
    es[i].call = fs[j].call /\ (\A k \in LinesOf(es[i].call) : k <= n) => es[i] = fs[j]

(* What loadFromFile sees of the file, as long as every write went         *)
(* through and whatever was rotated away or evicted: the calls of its      *)
(* lines, as memory has them but for those whose lines it does not see.    *)
ReadBackHolds ==
  /\ IsSeq(calls)
  /\ ~mishap => LET seen == Read(file)
                    loaded == Fold(seen)
                IN
       /\ EachItsCall(entries) /\ EachItsCall(loaded)
       /\ \A k \in DOMAIN seen : \E j \in DOMAIN loaded : loaded[j].call = file[k].entry.call
       /\ AgreeButFor(entries, loaded, Len(seen))
       /\ seen = file => /\ Agree(entries, loaded)
                         /\ old = <<>> => entries = Newest(loaded)

LoadIInv == ChainIInv /\ ReadBackHolds

-----------------------------------------------------------------------------
(* The inductive invariant behind TypeOK (TraceProofs): nothing is         *)
(* numbered beyond the lines sealed so far.                                *)

EntryUpTo(n) == [tid : TraceId, call : 1 .. n, rev : 0 .. n, by : 0 .. n]
LineUpTo(n) == [entry : EntryUpTo(n), seq : 1 .. n, prev : 0 .. n, hash : 1 .. n,
                key : Key, run : 0 .. MaxRestarts, form : Forms, size : Sizes]

TypeIInv ==
  /\ up \in BOOLEAN /\ key \in Key /\ restarts \in 0 .. MaxRestarts
  /\ {stuck, created, mishap} \subseteq BOOLEAN
  /\ sealed \in 0 .. MaxWrites
  /\ {seq, prevHash} \subseteq 0 .. sealed /\ fileSize \in Nat
  /\ {file, old} \subseteq Seq(LineUpTo(sealed))
  /\ entries \in Seq(EntryUpTo(sealed)) /\ Len(entries) <= MaxEntries
  /\ calls \in Seq(TraceId) /\ Len(calls) <= sealed
  /\ inFlight \subseteq DOMAIN calls
=============================================================================
